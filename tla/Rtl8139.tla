------------------------------ MODULE Rtl8139 ------------------------------
(* The network card and its driver (device/rtl8139.rs).  The card writes   *)
(* the frames that arrive one behind the other into a ring of memory; the  *)
(* driver follows with packet_ptr, computed from the lengths it reads, and *)
(* tells the card with CAPR how far it is.  Frames to send are queued and  *)
(* handed to four descriptors in turn, whose memory the driver keeps until *)
(* a descriptor is used again.  The card runs between any two accesses to  *)
(* its registers.                                                          *)
EXTENDS Naturals, Sequences

CONSTANTS
    RX_BUF_LEN,    \* bytes of the ring
    Lens,          \* the lengths the card reports, its four bytes of checksum with them
    TxSlots,       \* descriptors: 4
    MaxQueue       \* bound on the frames queued between two polls

Rtl8139Assumption ==
    /\ RX_BUF_LEN \in Nat /\ RX_BUF_LEN > 16 /\ RX_BUF_LEN % 4 = 0
    /\ \A l \in Lens : l \in Nat /\ 4 < l /\ l + 12 < RX_BUF_LEN

VARIABLES
    cbr,           \* where the card writes the next frame
    capr, rok,     \* its registers: what the driver has read, and a frame has arrived
    memory,        \* position -> the frame that starts there and was not read: [id, len]
    arrived,       \* the number of the next frame, wrapped
    expected,      \* the number of the next frame to be read
    packet_ptr,
    pc,
    tx_queue,
    descriptor,    \* slot -> the frame whose address it holds
    buf,           \* the frames whose memory the driver keeps
    slot,          \* TxBuffer::packet_ptr
    failed,        \* a poll has ended with an error
    astray         \* the driver has read where no frame was

rxVars == <<cbr, capr, rok, memory, arrived, expected, packet_ptr>>
txVars == <<tx_queue, descriptor, buf, slot>>
vars == <<rxVars, pc, txVars, failed, astray>>

Wrapped == 4
Frames == 1 .. TxSlots + MaxQueue + 1
NoFrame == 0

Init ==
    /\ cbr = 0 /\ capr = RX_BUF_LEN - 16 /\ rok = FALSE
    /\ memory = << >> /\ arrived = 0 /\ expected = 0 /\ packet_ptr = 0
    /\ pc = "idle"
    /\ tx_queue = << >> /\ descriptor = [i \in 0 .. TxSlots - 1 |-> NoFrame]
    /\ buf = << >> /\ slot = 0
    /\ failed = FALSE /\ astray = FALSE

(* The length without the four bytes of the card's header.                 *)
next_ptr_NoHeader(at, len) == (((at + len + 3) \div 4) * 4) % RX_BUF_LEN

(* Past a frame and its header, aligned.                                   *)
next_ptr(at, len) == (((at + len + 4 + 3) \div 4) * 4) % RX_BUF_LEN

Size(len) == ((len + 4 + 3) \div 4) * 4

----------------------------------------------------------------------------
(* The card.  It knows what is read from CAPR, which the driver keeps 16   *)
(* behind, and takes a frame when there is room for it.  What it writes    *)
(* over is gone.                                                           *)
Read == (capr + 16) % RX_BUF_LEN
Unread == (cbr + RX_BUF_LEN - Read) % RX_BUF_LEN
buffer_empty == cbr = Read

Covers(at, len, p) == (p + RX_BUF_LEN - at) % RX_BUF_LEN < Size(len)

arrive(len) ==
    /\ Unread + Size(len) < RX_BUF_LEN
    /\ memory' = [p \in {q \in DOMAIN memory : ~Covers(cbr, len, q)} \cup {cbr} |->
                     IF p = cbr THEN [id |-> arrived, len |-> len] ELSE memory[p]]
    /\ arrived' = (arrived + 1) % Wrapped
    /\ cbr' = (cbr + Size(len)) % RX_BUF_LEN
    /\ rok' = TRUE
    /\ UNCHANGED <<capr, expected, packet_ptr, pc, txVars, failed, astray>>

----------------------------------------------------------------------------
(* push_eth_frame_to_tx_queue takes the driver's lock: never during a      *)
(* poll.  A frame is one that is not in use.                               *)
InUse == {tx_queue[i] : i \in DOMAIN tx_queue} \cup {buf[i] : i \in DOMAIN buf}
Unused == CHOOSE f \in Frames \ InUse : \A g \in Frames \ InUse : f <= g

push_eth_frame_to_tx_queue ==
    /\ pc = "idle" /\ Len(tx_queue) < MaxQueue
    /\ tx_queue' = Append(tx_queue, Unused)
    /\ UNCHANGED <<rxVars, pc, descriptor, buf, slot, failed, astray>>

(* TxBuffer::push: the four frames sent last are kept.                     *)
push(f) ==
    buf' = IF Len(buf) < TxSlots THEN Append(buf, f) ELSE [buf EXCEPT ![slot + 1] = f]

(* send_packet                                                             *)
send_packet(f) ==
    /\ descriptor' = [descriptor EXCEPT ![slot] = f]
    /\ push(f)
    /\ slot' = (slot + 1) % TxSlots

(* poll_normal reads the status and then clears it.                        *)
read_int_status ==
    /\ pc = "idle"
    /\ pc' = IF rok THEN "clear" ELSE "clear, nothing seen"
    /\ UNCHANGED <<rxVars, txVars, failed, astray>>

write_int_status ==
    /\ pc \in {"clear", "clear, nothing seen"}
    /\ rok' = FALSE
    /\ pc' = IF pc = "clear" THEN "receive" ELSE "send"
    /\ UNCHANGED <<cbr, capr, memory, arrived, expected, packet_ptr, txVars, failed, astray>>

(* The ring is empty: on to the frames to send.                            *)
received ==
    /\ pc = "receive" /\ buffer_empty
    /\ pc' = "send"
    /\ UNCHANGED <<rxVars, txVars, failed, astray>>

Next_frame == packet_ptr \in DOMAIN memory /\ memory[packet_ptr].id = expected

(* pop_eth_frame, what receive_eth_payload makes of the frame, and its     *)
(* reply.  An error leaves the loop with packet_ptr moved on and CAPR not. *)
handle(fails, replies) ==
    /\ pc = "receive" /\ ~buffer_empty /\ Next_frame
    /\ packet_ptr' = next_ptr(packet_ptr, memory[packet_ptr].len)
    /\ expected' = (expected + 1) % Wrapped
    /\ capr' = IF fails THEN capr ELSE (packet_ptr' + RX_BUF_LEN - 16) % RX_BUF_LEN
    /\ pc' = IF fails THEN "idle" ELSE pc
    /\ failed' = (failed \/ fails)
    /\ IF replies THEN send_packet(Unused) /\ UNCHANGED tx_queue ELSE UNCHANGED txVars
    /\ memory' = [p \in DOMAIN memory \ {packet_ptr} |-> memory[p]]
    /\ UNCHANGED <<cbr, rok, arrived, astray>>

(* What the ring holds there is left from an earlier lap, or nothing: what *)
(* the driver makes of it is not modelled.                                 *)
stray ==
    /\ pc = "receive" /\ ~buffer_empty /\ ~Next_frame
    /\ astray' = TRUE /\ pc' = "astray"
    /\ UNCHANGED <<rxVars, txVars, failed>>

(* The frames queued go out from the last to the first.                    *)
send ==
    /\ pc = "send"
    /\ IF tx_queue = << >> THEN pc' = "idle" /\ UNCHANGED txVars
       ELSE /\ send_packet(tx_queue[Len(tx_queue)])
            /\ tx_queue' = SubSeq(tx_queue, 1, Len(tx_queue) - 1)
            /\ UNCHANGED pc
    /\ UNCHANGED <<rxVars, failed, astray>>

handles == \E fails \in BOOLEAN : handle(fails, FALSE)
replies == handle(FALSE, TRUE)
poll_normal == read_int_status \/ write_int_status \/ received \/ handles \/ replies \/ stray \/ send

Next ==
    \/ poll_normal
    \/ push_eth_frame_to_tx_queue
    \/ \E len \in Lens : arrive(len)

----------------------------------------------------------------------------
TypeOK ==
    /\ {cbr, capr, packet_ptr} \subseteq 0 .. RX_BUF_LEN - 1
    /\ pc \in {"idle", "clear", "clear, nothing seen", "receive", "send", "astray"}
    /\ Len(buf) <= TxSlots /\ slot \in 0 .. TxSlots - 1

(* As long as no poll has ended with an error, the driver reads the frames *)
(* the card wrote, each once and in their order, wherever the ring wraps,  *)
(* and none is written over before it is read; the lengths it adds up and  *)
(* the place it reports to the card agree with the card's.                 *)
ReadsWhatArrived ==
    /\ astray => failed
    /\ ~failed => packet_ptr = Read
    /\ ~astray /\ expected # arrived =>
          packet_ptr \in DOMAIN memory /\ memory[packet_ptr].id = expected

(* The memory of a frame whose address a descriptor holds is kept.         *)
SentFromKeptMemory ==
    \A i \in DOMAIN descriptor :
        descriptor[i] # NoFrame => i + 1 <= Len(buf) /\ buf[i + 1] = descriptor[i]
=============================================================================
