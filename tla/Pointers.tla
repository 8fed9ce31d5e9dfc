------------------------------ MODULE Pointers ------------------------------
(* The two pointing devices: the PS/2 mouse (device/ps2_mouse.rs), whose   *)
(* packets of three bytes come through an interrupt, a ring and a machine  *)
(* of phases, and the USB tablet (device/usb/hid_tablet.rs), whose driver  *)
(* reads the layout of its reports from a descriptor the device sends.     *)
EXTENDS Integers, SequencesExt

CONSTANTS
    Packets,       \* the movements in use: <<buttons, dx, dy>>
    MaxPackets,    \* bound on the packets of a behaviour
    SIZE,          \* the size of the ring of the mouse driver
    Layouts,       \* what a tablet may report: sequences of Fields
    Values,        \* the values its fields take
    MaxPolls,      \* bound on the polls of the tablet
    res            \* the resolution of the screen

VARIABLES
    wire,          \* bytes of the mouse the interrupt has not read
    data_buf, mouse_phase, data_buf2,
    moved,         \* the packets the mouse sent
    events,        \* the events the driver made of them
    whole,         \* no byte was lost
    layout, held,  \* the tablet: its fields, and their values
    descriptor,    \* the items of its descriptor that are not parsed yet
    parser,        \* the locals of parse_hid_report_desc, with the items
    configured, prev_report,
    shown,         \* the last event of the tablet
    polls

mouseVars == <<wire, data_buf, mouse_phase, data_buf2, moved, events, whole>>
tabletVars == <<layout, held, descriptor, parser, configured, prev_report, shown, polls>>

Ring == INSTANCE Fifo WITH
    Values <- 0 .. 255, Default <- 0, fifo <- data_buf, answer <- data_buf2

Bit(v, n) == (v \div 2 ^ n) % 2

----------------------------------------------------------------------------
(* attach resets the mouse and turns it on: it acknowledges the reset,     *)
(* tests itself, gives its number, and acknowledges again.                 *)
attach == <<250, 170, 0, 250>>

MouseInit ==
    /\ wire = attach /\ data_buf = Ring!new
    /\ mouse_phase = "WaitingAck" /\ data_buf2 = <<0, 0, 0>>
    /\ moved = << >> /\ events = << >> /\ whole = TRUE

(* A packet: bit 3, the signs and the buttons, then both distances.        *)
Packet(p) ==
    <<8 + p[1] + (IF p[2] < 0 THEN 16 ELSE 0) + (IF p[3] < 0 THEN 32 ELSE 0),
      p[2] % 256, p[3] % 256>>

move(p) ==
    /\ Len(moved) < MaxPackets
    /\ moved' = Append(moved, p)
    /\ wire' = wire \o Packet(p)
    /\ UNCHANGED <<data_buf, mouse_phase, data_buf2, events, whole>>

(* receive, by the interrupt: a full ring is emptied before the byte.      *)
receive ==
    /\ wire # << >>
    /\ wire' = Tail(wire)
    /\ data_buf' = Ring!enqueue(IF Ring!is_full(data_buf) THEN Ring!reset_ptr(data_buf)
                                ELSE data_buf, Head(wire))
    /\ whole' = (whole /\ ~Ring!is_full(data_buf))
    /\ UNCHANGED <<mouse_phase, data_buf2, moved, events>>

next(phase) ==
    CASE phase = "WaitingAck" -> "WaitingData0"
      [] phase = "WaitingData0" -> "WaitingData1"
      [] phase = "WaitingData1" -> "WaitingData2"
      [] phase = "WaitingData2" -> "WaitingData0"

(* The event of three bytes: the y axis of the screen points down.         *)
Ps2MouseEvent(b) ==
    LET signed(v, sign) == IF sign = 1 THEN v - 256 ELSE v IN
    [buttons |-> b[1] % 8, rel_x |-> signed(b[2], Bit(b[1], 4)),
     rel_y |-> -signed(b[3], Bit(b[1], 5))]


(* A first byte has bit 3 and no overflow.                                 *)
Valid(data) == Bit(data, 3) = 1 /\ Bit(data, 6) = 0 /\ Bit(data, 7) = 0

event ==
    /\ ~Ring!is_empty(data_buf)
    /\ data_buf' = Ring!dequeue(data_buf)
    /\ LET data == Ring!front(data_buf)
           taken == CASE mouse_phase = "WaitingAck" -> data = 250
                      [] mouse_phase = "WaitingData0" -> Valid(data)
                      [] OTHER -> TRUE
           place == CASE mouse_phase = "WaitingData1" -> 2
                      [] mouse_phase = "WaitingData2" -> 3
                      [] OTHER -> 1
       IN  /\ mouse_phase' = IF taken THEN next(mouse_phase) ELSE mouse_phase
           /\ data_buf2' = IF taken /\ mouse_phase # "WaitingAck"
                           THEN [data_buf2 EXCEPT ![place] = data] ELSE data_buf2
           /\ events' = IF mouse_phase = "WaitingData2"
                        THEN Append(events, Ps2MouseEvent(data_buf2')) ELSE events
    /\ UNCHANGED <<wire, moved, whole>>

MouseNext == (\E p \in Packets : move(p)) \/ receive \/ event

----------------------------------------------------------------------------
(* A field of a report, as a device describes it: its usages, each of so   *)
(* many bits, or a range of buttons, or bits without a meaning.            *)
Item(type, tag, value) == [type |-> type, tag |-> tag, value |-> value]

Items(field) ==
    <<Item("Global", 0, field.page)>>
    \o (IF field.page = 9 THEN <<Item("Local", 1, 1), Item("Local", 2, field.count)>>
        ELSE [i \in 1 .. Len(field.usages) |-> Item("Local", 0, field.usages[i])])
    \o <<Item("Global", 1, 0), Item("Global", 2, field.max), Item("Global", 7, field.size),
         Item("Global", 9, field.count), Item("Main", 8, IF field.constant THEN 3 ELSE 2),
         Item("Main", 10, 0)>>

Descriptor(fields) == FlattenSeq([i \in 1 .. Len(fields) |-> Items(fields[i])])

(* The usages the driver knows; a usage of another page is unknown.        *)
Desktop == ("Pointer" :> 1) @@ ("Mouse" :> 2) @@ ("X" :> 48) @@ ("Y" :> 49) @@ ("Wheel" :> 56)

UsbHidUsage(page, value) ==
    IF page = 1 /\ \E u \in DOMAIN Desktop : Desktop[u] = value
    THEN <<CHOOSE u \in DOMAIN Desktop : Desktop[u] = value>>
    ELSE <<"Unknown", value>>

Parser ==
    [items |-> << >>, usage_queue |-> << >>, usage_page |-> -1, usage_min |-> -1,
     usage_max |-> -1, report_size |-> 0, report_count |-> 0, bit_offset |-> 0,
     logical_min |-> 0, logical_max |-> 0]

(* The usage of the i-th item of an Input.                                 *)
ReportUsage(p, value, i) ==
    CASE i < Len(p.usage_queue) -> p.usage_queue[i + 1]
      [] i >= Len(p.usage_queue) /\ p.usage_page = 9 /\ p.usage_min # -1 /\ p.usage_max # -1 ->
             <<IF p.usage_min + i <= p.usage_max THEN "Button" ELSE "Unknown", p.usage_min + i>>
      [] OTHER -> IF Bit(value, 0) = 1 THEN <<"Constant">> ELSE <<"Unknown", 0>>

(* An Input of a page adds report_count items, one after another.          *)
Input(p, value) ==
    IF p.usage_page = -1 THEN p
    ELSE [p EXCEPT !.items = @ \o [k \in 1 .. p.report_count |->
                      [usage |-> ReportUsage(p, value, k - 1), bit_size |-> p.report_size,
                       is_absolute |-> Bit(value, 2) = 0,
                       bit_offset |-> p.bit_offset + (k - 1) * p.report_size,
                       logical_min |-> p.logical_min, logical_max |-> p.logical_max]],
                   !.bit_offset = @ + p.report_count * p.report_size]

(* A global item: of the tags the driver knows.                            *)
Global(p, tag, value) ==
    CASE tag = 0 -> [p EXCEPT !.usage_page = value]
      [] tag = 1 -> [p EXCEPT !.logical_min = value]
      [] tag = 2 -> [p EXCEPT !.logical_max = value]
      [] tag = 7 -> [p EXCEPT !.report_size = value]
      [] tag = 9 -> [p EXCEPT !.report_count = value]
      [] OTHER -> p

Local(p, tag, value) ==
    CASE tag = 0 -> [p EXCEPT !.usage_queue = Append(@, UsbHidUsage(p.usage_page, value))]
      [] tag = 1 -> [p EXCEPT !.usage_min = value]
      [] tag = 2 -> [p EXCEPT !.usage_max = value]
      [] OTHER -> p

(* A main item ends the usages that were named for it.                     *)
Main(p, tag, value) ==
    [(IF tag = 8 THEN Input(p, value) ELSE p)
        EXCEPT !.usage_queue = << >>, !.usage_min = -1, !.usage_max = -1]

(* parse_hid_report_desc: the items in turn.                               *)
parse_item ==
    LET item == Head(descriptor)
        p == parser IN
    /\ descriptor # << >>
    /\ descriptor' = Tail(descriptor)
    /\ parser' = CASE item.type = "Main" -> Main(p, item.tag, item.value)
                   [] item.type = "Global" -> Global(p, item.tag, item.value)
                   [] item.type = "Local" -> Local(p, item.tag, item.value)
    /\ UNCHANGED <<layout, held, configured, prev_report, shown, polls>>

----------------------------------------------------------------------------
(* The bits of a report: a report read by the driver has eight bytes.      *)
RowsOf(fields) == {<<i, k>> : i \in 1 .. Len(fields), k \in 1 .. 4}
Used(fields) == {r \in RowsOf(fields) : r[2] <= fields[r[1]].count}

(* Where a device puts the k-th value of its i-th field.                   *)
Place(fields, i, k) ==
    LET before[j \in 1 .. i] ==
            IF j = 1 THEN 0 ELSE before[j - 1] + fields[j - 1].size * fields[j - 1].count
    IN  before[i] + (k - 1) * fields[i].size

(* The bits of the report of a device that holds these values.             *)
Report(fields, values) ==
    UNION {LET at == Place(fields, r[1], r[2]) IN
           {at + b : b \in {b \in 0 .. fields[r[1]].size - 1 : Bit(values[r], b) = 1}}
             : r \in DOMAIN values}

(* A value of two or more bits whose highest is set loses only that bit.   *)
value_from_report(item, bits) ==
    LET low(n) == FoldFunction(+, 0, [i \in 0 .. n - 1 |->
                      IF item.bit_offset + i \in bits THEN 2 ^ i ELSE 0])
    IN  IF item.bit_size >= 2 /\ item.bit_offset + item.bit_size - 1 \in bits
        THEN low(item.bit_size - 1) ELSE low(item.bit_size)

map_value_range_inclusive(from, to, value) ==
    IF from[2] = from[1] THEN to[1]
    ELSE to[1] + ((value - from[1]) * (to[2] - to[1])) \div (from[2] - from[1])

(* The first item of a usage.                                              *)
find(items, usage) == SelectInSeq(items, LAMBDA item : item.usage = usage)

mapped_range_from_report(item, bits, width) ==
    map_value_range_inclusive(<<item.logical_min, item.logical_max>>, <<0, width - 1>>,
                              value_from_report(item, bits))

NoEvent == [buttons |-> << >>, abs |-> << >>]

TabletInit ==
    /\ layout \in Layouts /\ held = [r \in Used(layout) |-> 0]
    /\ descriptor = Descriptor(layout) /\ parser = Parser /\ configured = FALSE
    /\ prev_report = [len |-> 0, bits |-> {}] /\ shown = NoEvent /\ polls = 0

(* configure: the previous report has the length the descriptor gives.     *)
configure ==
    LET last == parser.items[Len(parser.items)] IN
    /\ descriptor = << >> /\ ~configured
    /\ configured' = TRUE
    /\ prev_report' = [len |-> (last.bit_offset + last.bit_size + 7) \div 8, bits |-> {}]
    /\ UNCHANGED <<layout, held, descriptor, parser, shown, polls>>

(* A hand moves the tablet, or presses a button.                           *)
hand(r, v) ==
    /\ configured /\ v <= layout[r[1]].max /\ ~layout[r[1]].constant
    /\ held' = [held EXCEPT ![r] = v]
    /\ UNCHANGED <<layout, descriptor, parser, configured, prev_report, shown, polls>>

(* poll: nothing is done without all five items, or for an old report.     *)
poll ==
    LET at(usage) == find(parser.items, usage)
        item(usage) == parser.items[at(usage)]
        bits == Report(layout, held)
        button(n) == value_from_report(item(<<"Button", n>>), bits) = 1
        known == \A usage \in {<<"X">>, <<"Y">>} \cup {<<"Button", n>> : n \in 1 .. 3} : at(usage) # 0
        changed == known /\ [len |-> 8, bits |-> bits] # prev_report
    IN  /\ configured /\ polls < MaxPolls /\ polls' = polls + 1
        /\ prev_report' = IF changed THEN [len |-> 8, bits |-> bits] ELSE prev_report
        /\ shown' = IF ~changed THEN shown
                    ELSE [buttons |-> [n \in 1 .. 3 |-> button(n)],
                          abs |-> <<mapped_range_from_report(item(<<"X">>), bits, res[1]),
                                    mapped_range_from_report(item(<<"Y">>), bits, res[2])>>]
        /\ UNCHANGED <<layout, held, descriptor, parser, configured>>

TabletNext == (\E r \in DOMAIN held, v \in Values : hand(r, v)) \/ parse_item \/ configure \/ poll

----------------------------------------------------------------------------
TypeOK ==
    /\ wire \in Seq(0 .. 255) /\ data_buf \in Ring!Rings
    /\ mouse_phase \in {"WaitingAck", "WaitingData0", "WaitingData1", "WaitingData2"}
    /\ data_buf2 \in [1 .. 3 -> 0 .. 255]
    /\ polls \in 0 .. MaxPolls

(* The events of the mouse are the packets it sent, in their order: the    *)
(* answers to attach are not taken for a packet, and no byte of a packet   *)
(* for another's, as long as the ring is not overrun.                      *)
MovesReported ==
    LET sent == [i \in 1 .. Len(moved) |->
                    [buttons |-> moved[i][1], rel_x |-> moved[i][2], rel_y |-> -moved[i][3]]]
    IN  whole => /\ IsPrefix(events, sent)
                 /\ wire = << >> /\ Ring!is_empty(data_buf) => events = sent

(* What the device holds, in the places its fields name.                   *)
Holds(page, usage, k) ==
    \E r \in DOMAIN held : /\ layout[r[1]].page = page /\ ~layout[r[1]].constant
                           /\ page = 9 => r[2] = k
                           /\ page = 1 => layout[r[1]].usages[r[2]] = usage
                           /\ held[r] = 1

PositionOf(usage, width) ==
    LET r == CHOOSE r \in DOMAIN held : /\ layout[r[1]].page = 1 /\ ~layout[r[1]].constant
                                        /\ layout[r[1]].usages[r[2]] = usage
    IN  (held[r] * (width - 1)) \div layout[r[1]].max

(* After a poll that finds the report it knows, the event last shown is    *)
(* what the tablet holds, whatever the layout of its reports, and its      *)
(* position is on the screen.                                              *)
TabletFollows ==
    prev_report = [len |-> 8, bits |-> Report(layout, held)] /\ shown # NoEvent =>
        /\ shown.buttons = [n \in 1 .. 3 |-> Holds(9, 0, n)]
        /\ shown.abs = <<PositionOf(48, res[1]), PositionOf(49, res[2])>>
        /\ \A i \in 1 .. 2 : shown.abs[i] \in 0 .. res[i] - 1
=============================================================================
