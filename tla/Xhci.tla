-------------------------------- MODULE Xhci --------------------------------
(* The USB host controller driver (device/usb/xhc) and the bus that polls  *)
(* the devices it finds (device/usb/usb_bus.rs).  The driver gives the     *)
(* controller transfer request blocks (TRBs) through rings, one of         *)
(* commands and one of each device, and takes its answers from a ring of   *)
(* events.  The cycle bit of a block tells whose it is; neither side is    *)
(* told how far the other has come.                                        *)
EXTENDS Naturals, SequencesExt

CONSTANTS
    NUM_TRBS,      \* blocks of a ring
    Ports,         \* the devices at the ports: their kinds, and how many strings they have
    MaxPortEvents  \* bound on the events no request asked for

VARIABLES
    ring,          \* [trb, index, ours] of the commands (0) and of each slot
    hc,            \* how far the controller is: [index, ccs, rung] of each
    event_ring,    \* [trb, index, ours, erdp], and the controller's place in it
    producer,
    port, slot,    \* the port the driver sets up, and the slot it got
    todo,          \* the requests left of what the driver is doing
    pushing,       \* the blocks left of the current request
    waiting,       \* it has rung, and waits for an event
    usb_devices, at,
    port_events,
    given, taken,  \* blocks given to each ring, and executed, counted modulo
    refused,       \* a ring was taken for full
    astray         \* a block was not the next one, or an answer not one's own

driverVars == <<port, slot, todo, usb_devices, at>>
ringVars == <<ring, given>>

Slots == 1 .. Len(Ports)
Rings == 0 .. Len(Ports)
Wrap == 2 * (NUM_TRBS - 1)

Blank == [type |-> "none", cycle |-> FALSE, id |-> 0]
Link == [type |-> "Link", cycle |-> FALSE, id |-> 0]
NoEvent == [type |-> "none", cycle |-> FALSE, ring |-> 0, id |-> 0]

CommandRing ==
    [trb |-> [i \in 0 .. NUM_TRBS - 1 |-> IF i = NUM_TRBS - 1 THEN Link ELSE Blank],
     index |-> 0, ours |-> FALSE]

EventRing ==
    [trb |-> [i \in 0 .. NUM_TRBS - 1 |-> NoEvent], index |-> 0, ours |-> TRUE, erdp |-> 0]

Init ==
    /\ ring = [r \in Rings |-> CommandRing]
    /\ hc = [r \in Rings |-> [index |-> 0, ccs |-> TRUE, rung |-> FALSE]]
    /\ event_ring = EventRing /\ producer = [index |-> 0, pcs |-> TRUE]
    /\ port = 0 /\ slot = 0 /\ todo = << >> /\ pushing = << >> /\ waiting = FALSE
    /\ usb_devices = << >> /\ at = 0 /\ port_events = 0
    /\ given = [r \in Rings |-> 0] /\ taken = [r \in Rings |-> 0]
    /\ refused = FALSE /\ astray = FALSE

----------------------------------------------------------------------------
(* Requests: a command is one block, a control transfer two or three.      *)
IsCommand(type) == type \in {"enable_slot", "address_device"}

request_desc == <<"SetupStage", "DataStage", "StatusStageOut">>
request_desc_for_interface == <<"SetupStage", "DataStage", "StatusStageOut">>
request_report_bytes == <<"SetupStage", "DataStage", "StatusStageOut">>
request_set_protocol == <<"SetupStage", "StatusStageIn">>
request_set_interface == <<"SetupStage", "StatusStageIn">>
request_set_config == <<"SetupStage", "StatusStageIn">>

Stages(request) ==
    CASE IsCommand(request) -> <<request>>
      [] request = "set_config" -> request_set_config
      [] request = "set_interface" -> request_set_interface
      [] request = "set_protocol" -> request_set_protocol
      [] request = "report_desc" -> request_desc_for_interface
      [] request = "hid_report" -> request_report_bytes
      [] OTHER -> request_desc

(* The blocks for which the controller makes an event.                     *)
Answered(type) == IsCommand(type) \/ type \in {"DataStage", "StatusStageIn"}

(* The ring of the block that is to be pushed next.                        *)
Target == IF IsCommand(Head(pushing)) THEN 0 ELSE slot

(* CommandRing::push when the last block is not told from the others.      *)
advance_NoLink(q, new) == [q EXCEPT !.trb[q.index] = new, !.index = (q.index + 1) % NUM_TRBS]

(* The block gets the cycle bit that gives it to the controller; the block *)
(* before the link gives the link too, and turns our cycle.                *)
advance(q, new) ==
    LET one == [q EXCEPT !.trb[q.index] = new, !.index = (q.index + 1) % NUM_TRBS] IN
    IF one.trb[one.index].type = "Link"
    THEN [one EXCEPT !.trb[one.index].cycle = ~q.ours, !.index = (one.index + 1) % NUM_TRBS,
                     !.ours = ~q.ours]
    ELSE one

(* A block that is still the controller's makes the ring full.             *)
push ==
    LET r == Target
        q == ring[r]
        full == q.trb[q.index].cycle # q.ours
        new == [type |-> Head(pushing), cycle |-> ~q.ours, id |-> given[r]]
    IN  /\ pushing # << >> /\ ~refused
        /\ refused' = full
        /\ ring' = [ring EXCEPT ![r] = IF full THEN @ ELSE advance(@, new)]
        /\ given' = [given EXCEPT ![r] = IF full THEN @ ELSE (@ + 1) % Wrap]
        /\ pushing' = Tail(pushing)
        /\ waiting' = (pushing' = << >>)
        /\ hc' = [hc EXCEPT ![r].rung = @ \/ waiting']         \* notify
        /\ UNCHANGED <<event_ring, producer, driverVars, taken, port_events, astray>>

----------------------------------------------------------------------------
(* The controller.  It keeps one place of the event ring free.             *)
Room == (producer.index + 1) % NUM_TRBS # event_ring.erdp

report(type, r, id) ==
    /\ event_ring' = [event_ring EXCEPT !.trb[producer.index] =
                         [type |-> type, cycle |-> producer.pcs, ring |-> r, id |-> id]]
    /\ producer' = [index |-> (producer.index + 1) % NUM_TRBS,
                    pcs |-> IF producer.index = NUM_TRBS - 1 THEN ~producer.pcs
                            ELSE producer.pcs]

execute(r) ==
    LET c == hc[r]
        block == ring[r].trb[c.index] IN
    /\ c.rung /\ block.cycle = c.ccs
    /\ IF block.type = "Link"
       THEN /\ hc' = [hc EXCEPT ![r].index = 0, ![r].ccs = ~@]
            /\ UNCHANGED <<event_ring, producer, taken, astray>>
       ELSE /\ hc' = [hc EXCEPT ![r].index = (@ + 1) % NUM_TRBS]
            /\ astray' = (astray \/ block.id # taken[r])
            /\ taken' = [taken EXCEPT ![r] = (@ + 1) % Wrap]
            /\ IF Answered(block.type)
               THEN /\ Room
                    /\ report(IF IsCommand(block.type) THEN "CommandCompletionEvent"
                              ELSE "TransferEvent", r, block.id)
               ELSE UNCHANGED <<event_ring, producer>>
    /\ UNCHANGED <<ringVars, driverVars, pushing, waiting, port_events, refused>>

(* It comes to the end of what it was given.                               *)
rest(r) ==
    /\ hc[r].rung /\ ring[r].trb[hc[r].index].cycle # hc[r].ccs
    /\ hc' = [hc EXCEPT ![r].rung = FALSE]
    /\ UNCHANGED <<ringVars, event_ring, producer, driverVars, pushing, waiting, taken,
                   port_events, refused, astray>>

port_event ==
    /\ port_events < MaxPortEvents /\ Room
    /\ port_events' = port_events + 1
    /\ report("PortStatusChangeEvent", 0, 0)
    /\ UNCHANGED <<ringVars, hc, driverVars, pushing, waiting, taken, refused, astray>>

----------------------------------------------------------------------------
(* EventRing::pop: our cycle turns when the ring starts again.  The        *)
(* controller is told of the block that was read, not of the next one.     *)
has_next_event == event_ring.trb[event_ring.index].cycle = event_ring.ours

pop_NoTurn ==
    LET i == event_ring.index
        next == (i + 1) % NUM_TRBS
    IN  event_ring' = [event_ring EXCEPT !.index = next, !.erdp = i]

pop ==
    LET i == event_ring.index
        next == (i + 1) % NUM_TRBS
    IN  event_ring' = [event_ring EXCEPT !.index = next, !.erdp = i,
                          !.ours = IF next = 0 THEN ~@ ELSE @]

Event == event_ring.trb[event_ring.index]

(* What the current request is answered by: a command waits for a          *)
(* completion, a transfer for a transfer event, whichever it is.           *)
Ends(event) ==
    event.type = IF IsCommand(Head(todo)) THEN "CommandCompletionEvent" ELSE "TransferEvent"

(* Whether that is the answer to the request itself, whose last answered   *)
(* block is the last but one of a transfer with data.                      *)
Own(event) ==
    LET stages == Stages(Head(todo))
        r == IF IsCommand(Head(todo)) THEN 0 ELSE slot
        back == IF stages[Len(stages)] = "StatusStageOut" THEN 2 ELSE 1
    IN  event.ring = r /\ event.id = (given[r] + Wrap - back) % Wrap

request_dev_desc == <<"dev_desc">>
request_string_desc_zero == <<"string_zero">>
request_string_desc == <<"string">>
request_conf_desc_and_rest == <<"conf_desc", "conf_rest">>

(* init_slot: the address, then the descriptors with all their strings.    *)
address_device == <<"address_device">>
init_slot(strings) ==
    address_device \o request_dev_desc \o request_string_desc_zero
        \o FlattenSeq([i \in 1 .. strings |-> request_string_desc]) \o request_conf_desc_and_rest

Attaches(kind) == kind \in {"keyboard", "tablet"}

configure(kind) ==
    IF kind = "keyboard" THEN <<"set_config", "set_interface", "set_protocol">>
    ELSE <<"report_desc">>

(* The loop of a request: other events are passed over, its answer ends    *)
(* it.  The answer to enable_slot names the slot, which is addressed next. *)
wait ==
    /\ waiting /\ has_next_event
    /\ pop
    /\ IF Ends(Event)
       THEN /\ waiting' = FALSE
            /\ astray' = (astray \/ ~Own(Event))
            /\ todo' = Tail(todo)
            /\ slot' = IF Head(todo) = "enable_slot" THEN port ELSE slot
            /\ usb_devices' =
                 IF Len(todo) > 1 THEN usb_devices
                 ELSE IF at # 0 THEN [usb_devices EXCEPT ![at].state = "Configured"]
                 ELSE IF Attaches(Ports[port].kind)
                 THEN Append(usb_devices, [slot |-> slot, kind |-> Ports[port].kind,
                                           state |-> "Attached"])
                 ELSE usb_devices
       ELSE UNCHANGED <<waiting, astray, todo, slot, usb_devices>>
    /\ UNCHANGED <<ringVars, hc, producer, port, at, pushing, taken, port_events, refused>>

(* The next request of what the driver is doing.                           *)
Idle == pushing = << >> /\ ~waiting /\ ~refused
Resting == <<ringVars, hc, event_ring, producer, waiting, taken, port_events, refused, astray>>

request ==
    /\ Idle /\ todo # << >>
    /\ pushing' = Stages(Head(todo))
    /\ UNCHANGED <<Resting, driverVars>>

(* start: the ports in turn.                                               *)
init_port ==
    /\ Idle /\ todo = << >> /\ at = 0 /\ port < Len(Ports)
    /\ port' = port + 1
    /\ todo' = <<"enable_slot">> \o init_slot(Ports[port'].strings)
    /\ UNCHANGED <<Resting, pushing, slot, usb_devices, at>>

(* usb_bus::poll_normal: the devices in turn; attached ones are            *)
(* configured, configured ones are asked for a report.                     *)
Started == port = Len(Ports) /\ Idle /\ todo = << >>

poll_device ==
    /\ Started /\ at < Len(usb_devices)
    /\ at' = at + 1
    /\ slot' = usb_devices[at'].slot
    /\ todo' = IF usb_devices[at'].state = "Attached" THEN configure(usb_devices[at'].kind)
               ELSE <<"hid_report">>
    /\ UNCHANGED <<Resting, pushing, port, usb_devices>>

(* The end of a round, and poll_xhc before the next one.                   *)
next_round ==
    /\ Started /\ at = Len(usb_devices) /\ at # 0
    /\ at' = 0
    /\ UNCHANGED <<Resting, pushing, port, slot, todo, usb_devices>>

poll_xhc ==
    /\ Started /\ at = 0 /\ has_next_event
    /\ pop
    /\ UNCHANGED <<ringVars, hc, producer, driverVars, pushing, waiting, taken, port_events,
                   refused, astray>>

driver ==
    push \/ wait \/ request \/ init_port \/ poll_device \/ next_round \/ poll_xhc
controller == \E r \in Rings : execute(r) \/ rest(r)

Next == driver \/ controller \/ port_event

----------------------------------------------------------------------------
TypeOK ==
    /\ \A r \in Rings : /\ ring[r].index \in 0 .. NUM_TRBS - 2 /\ ring[r].ours \in BOOLEAN
                         /\ hc[r].index \in 0 .. NUM_TRBS - 1
                         /\ given[r] \in 0 .. Wrap - 1 /\ taken[r] \in 0 .. Wrap - 1
    /\ event_ring.index \in 0 .. NUM_TRBS - 1 /\ event_ring.erdp \in 0 .. NUM_TRBS - 1
    /\ port \in 0 .. Len(Ports) /\ slot \in 0 .. Len(Ports) /\ at \in 0 .. Len(usb_devices)

(* The controller executes every block it is given once, in the order of   *)
(* the pushes, none is overwritten before, no ring is ever taken for full, *)
(* and a request ends with the answer to itself, although the driver       *)
(* neither looks at how far the controller is nor compares an event with   *)
(* its request.                                                            *)
RingsSound ==
    /\ ~astray /\ ~refused
    /\ \A r \in Rings : (given[r] + Wrap - taken[r]) % Wrap < NUM_TRBS

(* Every device that a driver attached to is polled again and again.       *)
DevicesPolled ==
    \A i \in 1 .. Len(SelectSeq(Ports, LAMBDA p : Attaches(p.kind))) : []<>(at = i)
=============================================================================
