------------------------------ MODULE MCInput ------------------------------
(* The input devices for TLC: the ring their drivers share (Fifo), the     *)
(* keyboards (Keyboards), the mouse and the tablet (Pointers), and the USB *)
(* controller with its bus (Xhci).  A run explores one of six parts at a   *)
(* time, while the other variables rest.                                   *)
EXTENDS Fifo, Integers

CONSTANTS
    Ps2Keys, HidKeys, MaxStrokes,
    MaxPackets, MaxPolls,
    NUM_TRBS, MaxPortEvents

VARIABLES
    down, strokes, wire, data_buf, data, mod_keys_state, typed, due, plain,
    prev_pressed, fresh, phantom,
    mouse_wire, mouse_buf, mouse_phase, data_buf2, moved, events, whole,
    layout, held, descriptor, parser, configured, prev_report, shown, polls,
    ring, hc, event_ring, producer, port, slot, todo, pushing, waiting,
    usb_devices, at, port_events, given, taken, refused, astray,
    part

keyVars == <<down, strokes, wire, data_buf, data, mod_keys_state, typed, due, plain,
             prev_pressed, fresh, phantom>>
mouseVars == <<mouse_wire, mouse_buf, mouse_phase, data_buf2, moved, events, whole>>
tabletVars == <<layout, held, descriptor, parser, configured, prev_report, shown, polls>>
usbVars == <<ring, hc, event_ring, producer, port, slot, todo, pushing, waiting,
             usb_devices, at, port_events, given, taken, refused, astray>>

(* A mouse that moves far enough for every byte to look like a first one.  *)
Packets == {<<0, 8, -9>>, <<1, -1, 0>>, <<6, 40, 8>>}

(* Three buttons, both positions and a wheel, in two orders, with bits     *)
(* between them that mean nothing.                                         *)
Field(page, usages, size, count, max, constant) ==
    [page |-> page, usages |-> usages, size |-> size, count |-> count, max |-> max,
     constant |-> constant]
Buttons == Field(9, << >>, 1, 3, 1, FALSE)
Padding(n) == Field(1, << >>, n, 1, 0, TRUE)
Position == Field(1, <<48, 49>>, 4, 2, 7, FALSE)
Wheel == Field(1, <<56>>, 3, 1, 1, FALSE)
Layouts == {<<Buttons, Padding(5), Position>>, <<Wheel, Position, Padding(2), Buttons>>}

Devices == <<[kind |-> "keyboard", strings |-> 1], [kind |-> "tablet", strings |-> 0]>>

K == INSTANCE Keyboards
P == INSTANCE Pointers WITH
    Values <- {0, 1, 6}, res <- <<16, 10>>, wire <- mouse_wire, data_buf <- mouse_buf
X == INSTANCE Xhci WITH Ports <- Devices

MCInit ==
    /\ FifoInit /\ K!Init /\ P!MouseInit /\ P!TabletInit /\ X!Init
    /\ part \in {"fifo", "ps2", "hid", "mouse", "tablet", "usb"}
    /\ part # "tablet" => layout[1] = Buttons

others == <<fifoVars, keyVars, mouseVars, tabletVars, part>>
driver == part = "usb" /\ X!driver /\ UNCHANGED others
controller == part = "usb" /\ X!controller /\ UNCHANGED others

MCNext ==
    \/ part = "fifo" /\ FifoNext /\ UNCHANGED <<keyVars, mouseVars, tabletVars, usbVars, part>>
    \/ part = "ps2" /\ K!ps2Next /\ UNCHANGED <<fifoVars, mouseVars, tabletVars, usbVars, part>>
    \/ part = "hid" /\ K!hidNext /\ UNCHANGED <<fifoVars, mouseVars, tabletVars, usbVars, part>>
    \/ part = "mouse" /\ P!MouseNext /\ UNCHANGED <<fifoVars, keyVars, tabletVars, usbVars, part>>
    \/ part = "tablet" /\ P!TabletNext /\ UNCHANGED <<fifoVars, keyVars, mouseVars, usbVars, part>>
    \/ part = "usb" /\ X!Next /\ UNCHANGED others

MCVars == <<fifoVars, keyVars, mouseVars, tabletVars, usbVars, part>>

(* The driver runs, as its task is polled again and again (NotStarved of   *)
(* MCDevices), and the controller executes what it is told of.             *)
MCSpec ==
    /\ MCInit /\ [][MCNext]_MCVars
    /\ WF_MCVars(driver) /\ WF_MCVars(controller)

----------------------------------------------------------------------------
(* The terminal gets what the keys type: the PS/2 driver in the order of   *)
(* the presses and with the modifiers of the moment, as long as nothing is *)
(* released and the ring is not overrun, and the USB driver each press     *)
(* once.  No code of a key is mistaken for another's.                      *)
KeysTyped ==
    /\ part = "ps2" /\ strokes = 0 => /\ K!CodesDecode(K!JIS_JP_109_KEY_MAP)
                                     /\ K!CodesDecode(K!ANSI_US_104_KEY_MAP)
    /\ part \in {"ps2", "hid"} => K!TypeOK
    /\ part = "ps2" => K!PressesTyped
    /\ K!TypedOnce


(* The blocks given to the USB controller are executed once, in order, and *)
(* a request ends with its own answer.                                     *)
RingsSound == part = "usb" => X!TypeOK /\ X!RingsSound

(* Every USB device with a driver is polled again and again.               *)
DevicesPolled == part = "usb" => X!DevicesPolled
=============================================================================
