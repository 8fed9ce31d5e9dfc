-------------------------------- MODULE Arp --------------------------------
(* From an IPv4 address to a frame on its way: the ARP table of net/mod.rs *)
(* and the calls that wait for an entry before they send.  A call loops in *)
(* resolve_mac_addr, asking again at most every second, halts until the    *)
(* next interrupt in between, and then sends under a lock of its own, for  *)
(* which the entry is looked up once more.  Requests and replies may be    *)
(* lost, and hosts ask for this machine's address too.                     *)
EXTENDS Naturals

CONSTANTS
    Senders,       \* tasks in a call that sends
    Hosts,         \* the addresses of the subnet, with the gateway
    Far,           \* addresses outside of it
    Gateway, Me,
    RETRY          \* ticks of the clock in a second

ArpAssumption ==
    /\ Gateway \in Hosts /\ Me \notin Hosts \cup Far /\ Hosts \cap Far = {}
    /\ RETRY \in Nat \ {0}

VARIABLES
    arp_table,     \* address -> [known, age]: its entry, and the age of its last request
    pc, dst,       \* what a sender does, and where it sends to
    requests,      \* the addresses asked for whose request or reply is on the network
    frames,        \* the last frame sent: [to, mac]
    refused,       \* a call found no entry after it had waited for one
    hasty          \* an address was asked for twice within a second

vars == <<arp_table, pc, dst, requests, frames, refused, hasty>>

NoFrame == [to |-> Me, mac |-> Me]

Init ==
    /\ arp_table = << >>
    /\ pc = [s \in Senders |-> "idle"] /\ dst = [s \in Senders |-> Gateway]
    /\ requests = {} /\ frames = NoFrame
    /\ refused = FALSE /\ hasty = FALSE

target_ip(to) == IF to \in Hosts THEN to ELSE Gateway

Put(a, entry) ==
    [x \in DOMAIN arp_table \cup {a} |-> IF x = a THEN entry ELSE arp_table[x]]

Known(a) == a \in DOMAIN arp_table /\ arp_table[a].known

(* A second is not waited for.                                             *)
Due_Always(a) == TRUE

(* An address is asked for once.                                           *)
Due_Once(a) == a \notin DOMAIN arp_table

(* The last request is a second old, or there was none.                    *)
Due(a) == a \notin DOMAIN arp_table \/ arp_table[a].age >= RETRY

(* NetworkManager::resolve_mac_addr: an entry without an address is asked  *)
(* for again when it is due.                                               *)
resolve(a) ==
    IF ~Known(a) /\ Due(a)
    THEN /\ arp_table' = Put(a, [known |-> FALSE, age |-> 0])
         /\ requests' = requests \cup {a}
         /\ hasty' = (hasty \/ (a \in DOMAIN arp_table /\ arp_table[a].age < RETRY))
    ELSE UNCHANGED <<arp_table, requests, hasty>>

(* sendto_udp_v4, send_tcp_syn, send_tcp_packet: the call begins.          *)
send(s, to) ==
    /\ pc[s] = "idle"
    /\ dst' = [dst EXCEPT ![s] = to]
    /\ pc' = [pc EXCEPT ![s] = "resolving"]
    /\ UNCHANGED <<arp_table, requests, frames, refused, hasty>>

(* One turn of the loop, with the interrupts off.                          *)
resolve_mac_addr(s) ==
    LET a == target_ip(dst[s]) IN
    /\ pc[s] = "resolving"
    /\ resolve(a)
    /\ pc' = [pc EXCEPT ![s] = IF Known(a) THEN "sending" ELSE "halted"]
    /\ UNCHANGED <<dst, frames, refused>>

(* stihlt: any interrupt ends it; the timer's is modelled.                 *)
stihlt(s) ==
    /\ pc[s] = "halted"
    /\ pc' = [pc EXCEPT ![s] = "resolving"]
    /\ UNCHANGED <<arp_table, dst, requests, frames, refused, hasty>>

(* send_udp_packet and its like: the entry is looked up again.             *)
send_packet(s) ==
    LET a == target_ip(dst[s]) IN
    /\ pc[s] = "sending"
    /\ pc' = [pc EXCEPT ![s] = "idle"]
    /\ resolve(a)
    /\ frames' = IF Known(a) THEN [to |-> dst[s], mac |-> a] ELSE frames
    /\ refused' = (refused \/ ~Known(a))
    /\ dst' = [dst EXCEPT ![s] = Gateway]

(* receive_arp_packet: the sender of any packet is entered.  The time of a *)
(* known entry is never read.                                              *)
enter(h) == arp_table' = Put(h, [known |-> TRUE, age |-> 0])

reply(h) ==
    /\ h \in requests
    /\ requests' = requests \ {h}
    /\ enter(h)
    /\ UNCHANGED <<pc, dst, frames, refused, hasty>>

(* A host asks for this machine's address, or for another's: it is entered *)
(* either way, and answered in the first case.                             *)
asked(h, a) ==
    /\ enter(h)
    /\ frames' = IF a = Me THEN [to |-> h, mac |-> h] ELSE frames
    /\ UNCHANGED <<pc, dst, requests, refused, hasty>>

----------------------------------------------------------------------------
(* The network may lose a request or its reply.  Time passes.              *)
lose(a) ==
    /\ a \in requests
    /\ requests' = requests \ {a}
    /\ UNCHANGED <<arp_table, pc, dst, frames, refused, hasty>>

tick ==
    /\ \E a \in DOMAIN arp_table : ~Known(a) /\ arp_table[a].age < RETRY
    /\ arp_table' = [a \in DOMAIN arp_table |->
                        IF Known(a) \/ arp_table[a].age = RETRY THEN arp_table[a]
                        ELSE [arp_table[a] EXCEPT !.age = @ + 1]]
    /\ UNCHANGED <<pc, dst, requests, frames, refused, hasty>>

call(s) == resolve_mac_addr(s) \/ stihlt(s) \/ send_packet(s)

Next ==
    \/ \E s \in Senders : call(s) \/ \E to \in Hosts \cup Far : send(s, to)
    \/ \E h \in Hosts : reply(h) \/ lose(h) \/ \E a \in Hosts \cup {Me} : asked(h, a)
    \/ tick

----------------------------------------------------------------------------
TypeOK ==
    /\ \A a \in DOMAIN arp_table : /\ a \in Hosts
                                   /\ arp_table[a] \in [known : BOOLEAN, age : 0 .. RETRY]
    /\ pc \in [Senders -> {"idle", "resolving", "halted", "sending"}]
    /\ requests \subseteq Hosts

(* A frame goes to the address of the next hop, a call that has waited for *)
(* an entry finds it when it sends, and no address is asked for twice      *)
(* within a second, whoever waits for it.                                  *)
ArpSound ==
    /\ frames # NoFrame => frames.mac = target_ip(frames.to)
    /\ ~refused /\ ~hasty
    /\ \A s \in Senders : pc[s] = "sending" => Known(target_ip(dst[s]))

(* A call that sends comes to its end, however many requests and replies   *)
(* are lost before one gets through.                                       *)
SendReturns == \A s \in Senders : pc[s] = "resolving" ~> pc[s] = "idle"
=============================================================================
