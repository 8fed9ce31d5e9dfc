----------------------------- MODULE TcpStream -----------------------------
(***************************************************************************)
(* One TCP connection (net/tcp.rs and the TCP part of net/mod.rs): the     *)
(* handshake from either side, sequence numbers, received and sent data,   *)
(* FIN, and the two steps of sys_recvfrom.  The other side and the network *)
(* are not part of the kernel: the other side sends whatever a TCP may     *)
(* send, in segments of any cut and again when it likes, and, unless       *)
(* in_order, the network loses, repeats and reorders.                      *)
(***************************************************************************)
EXTENDS Integers, Sequences

CONSTANTS
    Roles,      \* how the connection is opened: a subset of "active", "passive"
    SeqMod,     \* number of sequence numbers, 2^32
    RemoteIsns, \* initial sequence numbers of the other side
    MaxBytes,   \* bound: bytes the other side sends
    MaxSegments, \* bound: segments the other side sends
    MaxSends,   \* bound: segments sent
    SendLens,   \* lengths of the data of one send
    ReadLens    \* lengths of a reader's buffer

ASSUME StreamAssumption ==
    /\ Roles \subseteq {"active", "passive"}
    /\ SeqMod \in Nat \ {0} /\ RemoteIsns \subseteq 0 .. SeqMod - 1
    /\ MaxBytes \in Nat /\ MaxSegments \in Nat /\ MaxSends \in Nat
    /\ MaxBytes + 2 < SeqMod
    /\ SendLens \subseteq Nat \ {0} /\ ReadLens \subseteq Nat \ {0}

VARIABLES
    state,          \* TcpSocketState, or "Removed" after close_socket
    seq_num,
    next_recv_seq,
    buf,            \* received and not yet read
    pc,             \* the reader: "idle", "recv" or "check"
    in_order,       \* the network delivers what it is given once, in order
    wire,           \* the segments the other side has sent, in order
    delivered,      \* in_order: how many of them were delivered
    out,            \* the segments the kernel has sent with data or FIN
    isn,            \* initial sequence number of the other side
    remote_sent,    \* bytes the other side has sent for the first time
    remote_fin,     \* the other side has sent its FIN
    received,       \* history: bytes accepted into buf
    read,           \* history: bytes returned to the reader
    dropped         \* history: number of bytes the reader's buffer did not hold

socket == <<state, seq_num, next_recv_seq, buf>>
network == <<in_order, wire, delivered>>
remote == <<isn, remote_sent, remote_fin>>
reading == <<pc, read, dropped>>
streamVars == <<socket, network, out, remote, received, reading>>

wrapping_add(a, n) == (a + n) % SeqMod

(* Bytes are numbered from 1; the first has sequence number isn + 1.       *)
Bytes(from, to) == [i \in 1 .. to - from + 1 |-> from + i - 1]

Packet(seq, flags, data) == [seq |-> seq, flags |-> flags, data |-> data]

StreamInit ==
    /\ \E role \in Roles : state = IF role = "active" THEN "Closed" ELSE "Listen"
    /\ seq_num = 0 /\ next_recv_seq = 0 /\ buf = <<>>
    /\ pc = "idle"
    /\ in_order \in BOOLEAN /\ wire = <<>> /\ delivered = 0 /\ out = <<>>
    /\ isn \in RemoteIsns /\ remote_sent = 0 /\ remote_fin = FALSE
    /\ received = <<>> /\ read = <<>> /\ dropped = 0

----------------------------------------------------------------------------
(* The other side.                                                         *)

remote_send(p) ==
    /\ Len(wire) < MaxSegments
    /\ wire' = Append(wire, p)
    /\ UNCHANGED <<socket, in_order, delivered, out, isn, received, reading>>

(* Its SYN, or the SYN-ACK to ours, and then its ACK.                      *)
remote_handshake ==
    /\ \/ /\ wire = <<>> /\ state \in {"Listen", "SynSent"}
          /\ remote_send(Packet(isn, IF state = "Listen" THEN {"SYN"} ELSE {"SYN", "ACK"}, <<>>))
       \/ /\ Len(wire) = 1 /\ state = "SynReceived"
          /\ remote_send(Packet(wrapping_add(isn, 1), {"ACK"}, <<>>))
    /\ UNCHANGED <<remote_sent, remote_fin>>

(* The code takes no data from the segment that ends a passive handshake.  *)
(* A network that keeps order repeats nothing, so there it is a bare ACK.  *)
HandshakeOver ==
    /\ wire # <<>> /\ state # "Listen"
    /\ in_order /\ state = "SynReceived" => Len(wire) > 1

(* Data: bytes not sent before, after some of those sent before where the  *)
(* network may have lost them.                                             *)
remote_data ==
    /\ HandshakeOver /\ ~remote_fin
    /\ \E from \in 1 .. remote_sent + 1, to \in remote_sent + 1 .. MaxBytes :
        /\ in_order => from = remote_sent + 1
        /\ remote_send(Packet(wrapping_add(isn, from), {"ACK"}, Bytes(from, to)))
        /\ remote_sent' = to
    /\ UNCHANGED remote_fin

(* FIN, alone or with the last data.                                       *)
remote_close ==
    /\ HandshakeOver /\ ~remote_fin
    /\ \E to \in remote_sent .. MaxBytes :
        /\ remote_send(Packet(wrapping_add(isn, remote_sent + 1), {"FIN", "ACK"},
                              Bytes(remote_sent + 1, to)))
        /\ remote_sent' = to
    /\ remote_fin' = TRUE

----------------------------------------------------------------------------
(* connect_tcp_v4 and send_tcp_syn.                                        *)
connect ==
    /\ state = "Closed"
    /\ state' = "SynSent" /\ seq_num' = 0 /\ buf' = <<>>
    /\ UNCHANGED <<next_recv_seq, network, out, remote, received, reading>>

receive_syn(p) ==
    /\ state = "Listen" /\ "SYN" \in p.flags
    /\ state' = "SynReceived"
    /\ next_recv_seq' = wrapping_add(p.seq, 1)
    /\ seq_num' = wrapping_add(seq_num, 1)
    /\ UNCHANGED <<buf, received>>

receive_syn_ack(p) ==
    /\ state = "SynSent" /\ {"SYN", "ACK"} \subseteq p.flags
    /\ state' = "Established"
    /\ next_recv_seq' = wrapping_add(p.seq, 1)
    /\ seq_num' = wrapping_add(seq_num, 1)
    /\ UNCHANGED <<buf, received>>

(* The ACK of the handshake; data that comes with it is not looked at.     *)
receive_ack(p) ==
    /\ state = "SynReceived" /\ "ACK" \in p.flags
    /\ state' = "Established"
    /\ UNCHANGED <<seq_num, next_recv_seq, buf, received>>

accepted_Any(p) == p.data

(* What receive_data accepts: nothing but the very next bytes.             *)
accepted(p) == IF p.seq = next_recv_seq THEN p.data ELSE <<>>

receive_established_FinOnly(p) ==
    LET fin == "FIN" \in p.flags
        data == IF fin THEN <<>> ELSE accepted(p)
    IN /\ state = "Established"
       /\ buf' = buf \o data
       /\ received' = received \o data
       /\ state' = IF fin THEN "CloseWait" ELSE state
       /\ next_recv_seq' = wrapping_add(next_recv_seq, Len(data) + IF fin THEN 1 ELSE 0)
       /\ UNCHANGED seq_num

(* FIN is taken whatever its sequence number.                              *)
receive_established(p) ==
    /\ state = "Established"
    /\ buf' = buf \o accepted(p)
    /\ received' = received \o accepted(p)
    /\ state' = IF "FIN" \in p.flags THEN "CloseWait" ELSE state
    /\ next_recv_seq' = wrapping_add(next_recv_seq,
                            Len(accepted(p)) + IF "FIN" \in p.flags THEN 1 ELSE 0)
    /\ UNCHANGED seq_num

(* receive_tcp_packet, for the socket that is found; the replies, all pure *)
(* ACKs, change nothing.                                                   *)
receive_segment(i) ==
    /\ in_order => i = delivered + 1
    /\ delivered' = IF in_order THEN i ELSE delivered
    /\ \/ receive_syn(wire[i])
       \/ receive_syn_ack(wire[i])
       \/ receive_ack(wire[i])
       \/ receive_established(wire[i])
       \/ /\ in_order /\ state \in {"CloseWait", "Removed"}
          /\ UNCHANGED <<socket, received>>
    /\ UNCHANGED <<in_order, wire, out, remote, reading>>

----------------------------------------------------------------------------
send_tcp_packet_BeforeQueue(len, queued) ==
    /\ state = "Established" /\ Len(out) < MaxSends
    /\ out' = IF queued THEN Append(out, Packet(seq_num, {"ACK"}, Bytes(1, len))) ELSE out
    /\ seq_num' = wrapping_add(seq_num, len)
    /\ UNCHANGED <<state, next_recv_seq, buf, network, remote, received, reading>>

(* The sequence number moves once the segment is in the transmit queue; if *)
(* it cannot be queued the call fails.                                     *)
send_tcp_packet(len, queued) ==
    /\ state = "Established" /\ Len(out) < MaxSends
    /\ out' = IF queued THEN Append(out, Packet(seq_num, {"ACK"}, Bytes(1, len))) ELSE out
    /\ seq_num' = IF queued THEN wrapping_add(seq_num, len) ELSE seq_num
    /\ UNCHANGED <<state, next_recv_seq, buf, network, remote, received, reading>>

(* close_socket: a FIN for an established connection, if it can be queued, *)
(* then the socket is gone, with what it had not yet handed to the reader. *)
close(queued) ==
    LET fin == state = "Established" /\ queued IN
    /\ pc = "idle" /\ state \in {"SynSent", "Established", "CloseWait"}
    /\ state' = "Removed"
    /\ out' = IF fin THEN Append(out, Packet(seq_num, {"FIN", "ACK"}, <<>>)) ELSE out
    /\ seq_num' = IF fin THEN wrapping_add(seq_num, 1) ELSE seq_num
    /\ UNCHANGED <<next_recv_seq, buf, network, remote, received, reading>>

(* sys_recvfrom: take the buffer; if it is empty look, in a second step,   *)
(* whether the connection is still established.                            *)
recvfrom_call ==
    /\ pc = "idle" /\ state \in {"Established", "CloseWait"}
    /\ pc' = "recv"
    /\ UNCHANGED <<socket, network, out, remote, received, read, dropped>>

(* How many bytes a buffer of this length takes.                           *)
taken(len) == IF len < Len(buf) THEN len ELSE Len(buf)

recv_tcp_packet_KeepsBuf(len) ==
    /\ pc = "recv"
    /\ read' = read \o SubSeq(buf, 1, taken(len))
    /\ pc' = IF buf = <<>> THEN "check" ELSE "idle"
    /\ UNCHANGED <<socket, network, out, remote, received, dropped>>

(* The whole buffer is taken; what the reader's does not hold is dropped.  *)
recv_tcp_packet(len) ==
    /\ pc = "recv"
    /\ read' = read \o SubSeq(buf, 1, taken(len))
    /\ dropped' = dropped + Len(buf) - taken(len)
    /\ buf' = <<>>
    /\ pc' = IF buf = <<>> THEN "check" ELSE "idle"
    /\ UNCHANGED <<state, seq_num, next_recv_seq, network, out, remote, received>>

is_tcp_established_Always ==
    /\ pc = "check"
    /\ pc' = "recv"
    /\ UNCHANGED <<socket, network, out, remote, received, read, dropped>>

is_tcp_established ==
    /\ pc = "check"
    /\ pc' = IF state = "Established" THEN "recv" ELSE "idle"
    /\ UNCHANGED <<socket, network, out, remote, received, read, dropped>>

reader == (\E len \in ReadLens : recv_tcp_packet(len)) \/ is_tcp_established

StreamNext ==
    \/ remote_handshake \/ remote_data \/ remote_close
    \/ connect
    \/ \E i \in DOMAIN wire : receive_segment(i)
    \/ \E len \in SendLens, queued \in BOOLEAN : send_tcp_packet(len, queued)
    \/ \E queued \in BOOLEAN : close(queued)
    \/ recvfrom_call
    \/ reader

StreamSpec == StreamInit /\ [][StreamNext]_streamVars

----------------------------------------------------------------------------
(* The state is well typed: sequence numbers are machine words.            *)
Segments == [seq : 0 .. SeqMod - 1, flags : SUBSET {"SYN", "ACK", "FIN"}, data : Seq(Nat)]

StreamTypeOK ==
    /\ state \in {"Closed", "Listen", "SynReceived", "SynSent", "Established", "CloseWait",
                  "Removed"}
    /\ seq_num \in 0 .. SeqMod - 1 /\ next_recv_seq \in 0 .. SeqMod - 1 /\ buf \in Seq(Nat)
    /\ pc \in {"idle", "recv", "check"}
    /\ wire \in Seq(Segments) /\ delivered \in 0 .. Len(wire) /\ in_order \in BOOLEAN
    /\ out \in Seq(Segments)
    /\ isn \in 0 .. SeqMod - 1 /\ remote_sent \in 0 .. MaxBytes /\ remote_fin \in BOOLEAN
    /\ received \in Seq(Nat) /\ read \in Seq(Nat) /\ dropped \in Nat

(* Whatever the network loses, repeats and reorders, and also when the     *)
(* sequence numbers wrap, the bytes accepted are the first ones sent, each *)
(* once, and the next one expected is the one after them.                  *)
ReceivedInOrder ==
    /\ received = Bytes(1, Len(received)) /\ Len(received) <= remote_sent
    /\ state = "Established" => next_recv_seq = wrapping_add(isn, Len(received) + 1)

(* No byte is returned twice or before an earlier one, however short the   *)
(* buffers the reader gives.                                               *)
ReadOnce ==
    LET s == read \o buf IN \A i \in 2 .. Len(s) : s[i - 1] < s[i]

(* As long as the reader's buffers hold all that is there it gets every    *)
(* accepted byte: what was returned and what is buffered make up what was  *)
(* received.                                                               *)
ReadIsReceived == dropped = 0 => read \o buf = received

(* The segments sent, with a FIN at their end, follow each other without a *)
(* gap or an overlap, also after a send that failed.                       *)
SentContiguous ==
    \A i \in DOMAIN out :
        out[i].seq = IF i = 1 THEN wrapping_add(0, 1)
                     ELSE wrapping_add(out[i - 1].seq, Len(out[i - 1].data))

(* With a network that keeps order, the connection is half closed only     *)
(* when everything the other side sent has been accepted.                  *)
CloseWaitComplete ==
    in_order /\ state = "CloseWait" => remote_fin /\ Len(received) = remote_sent

(* The bytes a connection accepts are the first ones sent, each once; a    *)
(* reader is given each of them once and in order and, with buffers that   *)
(* hold all that is there, all of them; the segments sent follow each      *)
(* other without a gap or an overlap; and where order is kept, a half      *)
(* closed connection has received everything.                              *)
StreamExact ==
    /\ StreamTypeOK
    /\ ReceivedInOrder /\ ReadOnce /\ ReadIsReceived /\ SentContiguous /\ CloseWaitComplete

----------------------------------------------------------------------------
(* The invariant behind StreamExact.  What is on the wire: one SYN, the    *)
(* first segment, and pieces of what was sent, each with the sequence      *)
(* number of its first byte.                                               *)
IsPiece(p, start, sent) ==
    /\ "SYN" \notin p.flags
    /\ \E from \in 1 .. sent + 1 : \E to \in from - 1 .. sent :
        p.seq = wrapping_add(start, from) /\ p.data = Bytes(from, to)

WireSound ==
    /\ \A i \in DOMAIN wire :
        IsPiece(wire[i], isn, remote_sent) \/ (i = 1 /\ wire[i].seq = isn /\ wire[i].data = <<>>)
    /\ wire = <<>> => remote_sent = 0 /\ ~remote_fin

(* What each side of the handshake knows.                                  *)
Opening == {"Closed", "Listen", "SynSent", "SynReceived"}

HandshakeSound ==
    /\ state \in Opening => received = <<>> /\ buf = <<>> /\ read = <<>> /\ out = <<>>
    /\ state \in Opening \ {"SynReceived"} => seq_num = 0
    /\ state = "Closed" => wire = <<>>
    /\ state = "SynReceived" => next_recv_seq = wrapping_add(isn, 1)
    /\ state \in {"SynReceived", "Established", "CloseWait"} =>
        seq_num = IF out = <<>> THEN wrapping_add(0, 1)
                  ELSE wrapping_add(out[Len(out)].seq, Len(out[Len(out)].data))

(* What is buffered is the last part of what was received, and what was    *)
(* returned lies before it.                                                *)
BufferSound ==
    /\ Len(buf) <= Len(received)
    /\ \A i \in DOMAIN buf : buf[i] = Len(received) - Len(buf) + i
    /\ \A i \in DOMAIN read : read[i] <= Len(received) - Len(buf)

(* Where order is kept the segments follow each other, and the next one to *)
(* be delivered is the one the socket expects.                             *)
After(p) == wrapping_add(p.seq, Len(p.data) + IF "SYN" \in p.flags THEN 1 ELSE 0)

OrderKept ==
    /\ \A i \in 1 .. Len(wire) - 1 : wire[i + 1].seq = After(wire[i])
    /\ wire # <<>> => After(wire[Len(wire)]) = wrapping_add(isn, remote_sent + 1)
    /\ \A i \in DOMAIN wire : "FIN" \in wire[i].flags => i = Len(wire) /\ remote_fin
    /\ state \in {"Closed", "Listen", "SynSent"} => delivered = 0
    /\ state = "Listen" => Len(wire) <= 1 /\ remote_sent = 0 /\ ~remote_fin
    /\ state = "SynReceived" =>
        /\ delivered = 1
        /\ Len(wire) = 1 => remote_sent = 0 /\ ~remote_fin
        /\ Len(wire) > 1 => wire[2].data = <<>>
    /\ state \in {"SynReceived", "Established"} =>
        delivered >= 1 /\ next_recv_seq = After(wire[delivered])

StreamInv ==
    /\ StreamExact /\ WireSound /\ HandshakeSound /\ BufferSound
    /\ in_order => OrderKept

(* With a network that keeps order, a reader is answered once the other    *)
(* side has sent something it has not read, or closed.                     *)
RecvReturns ==
    (/\ in_order /\ pc # "idle" /\ state # "Removed"
     /\ remote_fin \/ Len(read) + dropped < remote_sent) ~> (pc = "idle")
=============================================================================
