----------------------------- MODULE Keyboards -----------------------------
(* The two keyboard drivers, from the keys a person presses to the         *)
(* characters the terminal gets: device/ps2_keyboard.rs, fed byte by byte  *)
(* by its interrupt and polled by a driver task, and                       *)
(* device/usb/hid_keyboard.rs, which polls reports of the keys that are    *)
(* down.  Each has a keyboard of its own, from which a few keys are used.  *)
EXTENDS Naturals, Sequences, FiniteSets

CONSTANTS
    Ps2Keys, HidKeys,   \* the keys in use
    MaxStrokes,         \* bound on the presses and releases of a behaviour
    SIZE                \* the size of the ring of the PS/2 driver

VARIABLES
    down,               \* the keys that are down
    strokes,            \* presses and releases so far
    wire,               \* bytes of the PS/2 keyboard the interrupt has not read
    data_buf, data, mod_keys_state,
    typed,              \* what the terminal got
    due,                \* what the presses so far should type
    plain,              \* no key was released, no byte was lost
    prev_pressed,
    fresh,              \* the keys whose press the USB driver has not typed
    phantom             \* the keys it typed that were not

hidVars == <<prev_pressed, fresh, phantom>>
vars == <<down, strokes, wire, data_buf, data, mod_keys_state, typed, due, plain, hidVars>>

Ring == INSTANCE Fifo WITH
    Values <- 0 .. 255, Default <- 0, fifo <- data_buf, answer <- data

----------------------------------------------------------------------------
(* The key maps of util/keyboard/key_map.rs, and what the two drivers look *)
(* up in them.  A row gives a key its PS/2 codes for press and release     *)
(* (without the zeros that fill them to six bytes), its USB usage and the  *)
(* characters it types, as numbers.                                        *)

(* No character.                                                           *)
None == 256

Row(key, pressed, released, usage, c, shift_c) ==
    [key |-> key, pressed |-> pressed, released |-> released,
     usage |-> usage, c |-> c, on_shift_c |-> shift_c]

(* The release code of nearly every key is its press code with the top bit *)
(* of the last byte set; an extended code starts with e0.                  *)
Key(key, code, usage, c, shift_c) == Row(key, <<code>>, <<code + 128>>, usage, c, shift_c)
Extended(key, code, usage, c) ==
    Row(key, <<\he0, code>>, <<\he0, code + 128>>, usage, c, None)

(* Keys whose codes and usages are consecutive.                            *)
Consecutive(keys, code, usage) ==
    {Key(keys[i], code + i - 1, usage + i - 1, None, None) : i \in 1 .. Len(keys)}

FunctionKeys ==
    Consecutive(<<"F1", "F2", "F3", "F4", "F5", "F6", "F7", "F8", "F9", "F10">>, \h3b, \h3a)
    \cup
    {Key("Esc", \h01, \h29, 27, None), Key("F11", \h57, \h44, None, None),
     Key("F12", \h58, \h45, None, None)}

NavigationKeys ==
    {Row("PrintScreen", <<\he0, \h1d, \h46, \h9d, \hc5>>, <<\he0, \hb7, \he0, \haa>>,
         \h46, None, None),
     Key("ScrollLock", \h46, \h47, None, None),
     Row("Pause", <<\he1, \h1d, \h45, \h9d, \hc5>>, <<>>, \h48, None, None),
     Extended("Insert", \h52, \h49, None), Extended("Home", \h47, \h4a, None),
     Extended("PageUp", \h49, \h4b, None), Extended("Delete", \h53, \h4c, 127),
     Extended("End", \h4f, \h4d, None), Extended("PageDown", \h51, \h4e, None),
     Extended("CursorRight", \h4d, \h4f, None), Extended("CursorLeft", \h4b, \h50, None),
     Extended("CursorDown", \h50, \h51, None), Extended("CursorUp", \h48, \h52, None)}

KeypadKeys ==
    {Key("NumLock", \h45, \h53, None, None), Extended("KpDivide", \h35, \h54, 47),
     Key("KpMultiply", \h37, \h55, 42, None), Key("KpSubtract", \h4a, \h56, 45, None),
     Key("KpAdd", \h4e, \h57, 43, None), Extended("KpEnter", \h1c, \h58, 10),
     Key("Kp1", \h4f, \h59, 49, None), Key("Kp2", \h50, \h5a, 50, None),
     Key("Kp3", \h51, \h5b, 51, None), Key("Kp4", \h4b, \h5c, 52, None),
     Key("Kp5", \h4c, \h5d, 53, None), Key("Kp6", \h4d, \h5e, 54, None),
     Key("Kp7", \h47, \h5f, 55, None), Key("Kp8", \h48, \h60, 56, None),
     Key("Kp9", \h49, \h61, 57, None), Key("Kp0", \h52, \h62, 48, None),
     Key("KpPeriod", \h53, \h63, 46, None)}

ControlKeys ==
    {Key("LCtrl", \h1d, \he0, None, None), Extended("LGui", \h5b, \he3, None),
     Key("LAlt", \h38, \he2, None, None), Key("Space", \h39, \h2c, 32, None),
     Extended("RGui", \h5c, \he7, None), Extended("RAlt", \h38, \he6, None),
     Row("Apps", <<\he0, \h6d>>, <<\he0, \hdd>>, \h65, None, None),
     Extended("RCtrl", \h1d, \he4, None), Key("LShift", \h2a, \he1, None, None),
     Key("CapsLock", \h3a, \h39, None, None), Key("Tab", \h0f, \h2b, 9, None),
     Key("Backspace", \h0e, \h2a, 8, None), Key("Enter", \h1c, \h28, 10, None),
     Key("RShift", \h36, \he5, None, None)}

NumberKeys ==
    {Key("Num1", \h02, \h1e, 49, 33), Key("Num2", \h03, \h1f, 50, 34),
     Key("Num3", \h04, \h20, 51, 35), Key("Num4", \h05, \h21, 52, 36),
     Key("Num5", \h06, \h22, 53, 37), Key("Num6", \h07, \h23, 54, 38),
     Key("Num7", \h08, \h24, 55, 39), Key("Num8", \h09, \h25, 56, 40),
     Key("Num9", \h0a, \h26, 57, 41), Key("Num0", \h0b, \h27, 48, None)}

(* The usages of the letters, and their characters, are consecutive.        *)
LettersAtoM ==
    LET names == <<"A", "B", "C", "D", "E", "F", "G", "H", "I", "J", "K", "L", "M">>
        codes == <<\h1e, \h30, \h2e, \h20, \h12, \h21, \h22, \h23, \h17, \h24, \h25, \h26, \h32>> IN
    {Key(names[i], codes[i], \h03 + i, 96 + i, 64 + i) : i \in 1 .. 13}

LettersNtoZ ==
    LET names == <<"N", "O", "P", "Q", "R", "S", "T", "U", "V", "W", "X", "Y", "Z">>
        codes == <<\h31, \h18, \h19, \h10, \h13, \h1f, \h14, \h16, \h2f, \h11, \h2d, \h15, \h2c>> IN
    {Key(names[i], codes[i], \h10 + i, 109 + i, 77 + i) : i \in 1 .. 13}

SymbolKeys ==
    {Key("Subtract", \h0c, \h2d, 45, 61), Key("Equal", \h0d, \h2e, 94, 126),
     Key("Yen", \h7d, \h89, 165, 124), Key("BracketLeft", \h1a, \h2f, 64, 96),
     Key("BracketRight", \h1b, \h30, 91, 123), Key("Backslash", \h2b, \h31, 93, 125),
     Key("Semicolon", \h27, \h33, 59, 43), Key("Quote", \h28, \h34, 58, 42),
     Key("Comma", \h33, \h36, 44, 60), Key("Period", \h34, \h37, 46, 62),
     Key("Slash", \h35, \h38, 47, 63), Key("HankakuZenkaku", \h29, \h35, None, None),
     Key("Muhenkan", \h7b, \h8b, None, None), Key("Henkan", \h79, \h8a, None, None),
     Key("KatakanaHiragana", \h70, \h88, None, None), Key("RoUnderscore", \h73, \h87, 92, 95)}

JIS_JP_109_KEY_MAP ==
    FunctionKeys \cup NavigationKeys \cup KeypadKeys \cup ControlKeys \cup NumberKeys
        \cup LettersAtoM \cup LettersNtoZ \cup SymbolKeys

(* The map of the other layout differs in what the digits and the symbols  *)
(* type and in the keys of the Japanese keyboard.                          *)
AnsiNumberKeys ==
    LET shifted == <<33, 64, 35, 36, 37, 94, 38, 42, 40, 41>> IN
    {[r EXCEPT !.on_shift_c = shifted[r.usage - \h1d]] : r \in NumberKeys}

AnsiSymbolKeys ==
    {Key("Backtick", \h29, \h32, 96, 126), Key("Subtract", \h0c, \h2d, 45, 95),
     Key("Equal", \h0d, \h2e, 61, 43), Key("BracketLeft", \h1a, \h2f, 91, 123),
     Key("BracketRight", \h1b, \h30, 93, 125), Key("Backslash", \h2b, \h31, 92, 124),
     Key("Semicolon", \h27, \h33, 59, 58), Key("Quote", \h28, \h34, 39, 34),
     Key("Comma", \h33, \h36, 44, 60), Key("Period", \h34, \h37, 46, 62),
     Key("Slash", \h35, \h38, 47, 63)}

(* Its other rows are those of the first map again.                        *)
AnsiFunctionKeys == FunctionKeys
AnsiNavigationKeys == NavigationKeys
AnsiKeypadKeys == KeypadKeys
AnsiControlKeys == ControlKeys
AnsiLettersAtoM == LettersAtoM
AnsiLettersNtoZ == LettersNtoZ

ANSI_US_104_KEY_MAP ==
    AnsiFunctionKeys \cup AnsiNavigationKeys \cup AnsiKeypadKeys \cup AnsiControlKeys
        \cup AnsiNumberKeys \cup AnsiLettersAtoM \cup AnsiLettersNtoZ \cup AnsiSymbolKeys

(* The two maps, keyed by a code and by a usage: the row, or nothing.      *)
to_ps2_map(map, code) == {r \in map : code \in {r.pressed, r.released}}
to_usb_hid_map(map, usage) == {r \in map : r.usage = usage}

is_shift(key) == key \in {"LShift", "RShift"}
is_ctrl(key) == key \in {"LCtrl", "RCtrl"}
is_gui(key) == key \in {"LGui", "RGui"}
is_alt(key) == key \in {"LAlt", "RAlt"}

(* The character of a pressed key under the modifiers.                     *)
char_of(r, mods) ==
    LET c == IF mods.shift THEN r.on_shift_c ELSE r.c IN
    CASE c # None /\ mods.ctrl /\ c % 256 \in \h40 .. \h5f -> (c % 256) - \h40
      [] c # None /\ mods.ctrl /\ c % 256 \in \h60 .. \h7f -> (c % 256) - \h60
      [] OTHER -> c

----------------------------------------------------------------------------
RowOf(key) == CHOOSE r \in JIS_JP_109_KEY_MAP : r.key = key

NoModifiers == [shift |-> FALSE, ctrl |-> FALSE, gui |-> FALSE, alt |-> FALSE]

Modifiers(keys) ==
    [shift |-> \E k \in keys : is_shift(k), ctrl |-> \E k \in keys : is_ctrl(k),
     gui |-> \E k \in keys : is_gui(k), alt |-> \E k \in keys : is_alt(k)]

(* What the terminal gets for a key: an escape sequence or a character.    *)
Arrows == [CursorUp |-> 65, CursorDown |-> 66, CursorRight |-> 67, CursorLeft |-> 68]
Chars(r, mods) ==
    IF r.key \in DOMAIN Arrows THEN <<27, 91, Arrows[r.key]>>
    ELSE IF char_of(r, mods) = None THEN << >> ELSE <<char_of(r, mods)>>

Init ==
    /\ down = {} /\ strokes = 0 /\ wire = << >>
    /\ data_buf = Ring!new /\ data = << >> /\ mod_keys_state = NoModifiers
    /\ typed = << >> /\ due = << >> /\ plain = TRUE
    /\ prev_pressed = {} /\ fresh = {} /\ phantom = {}

(* The keys a person has down.                                             *)
Stroke == strokes < MaxStrokes /\ strokes' = strokes + 1

----------------------------------------------------------------------------
(* The PS/2 keyboard sends the code of each press and release.             *)
ps2_press(key) ==
    /\ Stroke /\ key \notin down
    /\ down' = down \cup {key}
    /\ wire' = wire \o RowOf(key).pressed
    /\ due' = due \o Chars(RowOf(key), Modifiers(down'))
    /\ UNCHANGED <<data_buf, data, mod_keys_state, typed, plain, hidVars>>

ps2_release(key) ==
    /\ Stroke /\ key \in down
    /\ down' = down \ {key}
    /\ wire' = wire \o RowOf(key).released
    /\ plain' = FALSE
    /\ UNCHANGED <<data_buf, data, mod_keys_state, typed, due, hidVars>>

(* poll_int, by the interrupt: a full ring is emptied before the byte.     *)
poll_int ==
    /\ wire # << >>
    /\ wire' = Tail(wire)
    /\ data_buf' = Ring!enqueue(IF Ring!is_full(data_buf) THEN Ring!reset_ptr(data_buf)
                                ELSE data_buf, Head(wire))
    /\ plain' = (plain /\ ~Ring!is_full(data_buf))
    /\ UNCHANGED <<down, strokes, data, mod_keys_state, typed, due, hidVars>>

(* The bytes of a code, filled with zeros to six, are what is looked up.   *)
lookup(code) ==
    LET n == CHOOSE n \in 0 .. Len(code) :
                 /\ \A i \in n + 1 .. Len(code) : code[i] = 0
                 /\ n # 0 => code[n] # 0
    IN  to_ps2_map(JIS_JP_109_KEY_MAP, SubSeq(code, 1, n))

(* key_event_from_ps2 on the modifiers.                                    *)
update_modifiers(mods, r, pressed) ==
    CASE is_shift(r.key) -> [mods EXCEPT !.shift = pressed]
      [] is_ctrl(r.key) -> [mods EXCEPT !.ctrl = pressed]
      [] is_gui(r.key) -> [mods EXCEPT !.gui = pressed]
      [] is_alt(r.key) -> [mods EXCEPT !.alt = pressed]
      [] OTHER -> mods

(* The characters of a press are put before the modifiers are known.       *)
key_event_Early(code) ==
    LET rows == lookup(code) IN
    \/ rows = {} /\ data' = code /\ UNCHANGED <<mod_keys_state, typed>>
    \/ \E r \in rows :
         LET pressed == code = r.pressed IN
         /\ mod_keys_state' = update_modifiers(mod_keys_state, r, pressed)
         /\ data' = IF pressed THEN << >> ELSE code
         /\ typed' = IF pressed THEN typed \o Chars(r, NoModifiers) ELSE typed

(* What a code does: no key has it, a release sets the modifiers, and only *)
(* a press makes an event, for which the code is forgotten and the         *)
(* terminal gets its characters.                                           *)
key_event(code) ==
    LET rows == lookup(code) IN
    \/ rows = {} /\ data' = code /\ UNCHANGED <<mod_keys_state, typed>>
    \/ \E r \in rows :
         LET pressed == code = r.pressed IN
         /\ mod_keys_state' = update_modifiers(mod_keys_state, r, pressed)
         /\ data' = IF pressed THEN << >> ELSE code
         /\ typed' = IF pressed THEN typed \o Chars(r, mod_keys_state') ELSE typed

(* poll_normal: one byte joins the bytes of the code, which starts again   *)
(* when it has six.                                                        *)
poll_normal ==
    /\ ~Ring!is_empty(data_buf)
    /\ data_buf' = Ring!dequeue(data_buf)
    /\ key_event(IF Len(data) = 6 THEN <<Ring!front(data_buf)>>
                 ELSE Append(data, Ring!front(data_buf)))
    /\ UNCHANGED <<down, strokes, wire, due, plain, hidVars>>

ps2Next ==
    \/ \E key \in Ps2Keys : ps2_press(key) \/ ps2_release(key)
    \/ poll_int \/ poll_normal

----------------------------------------------------------------------------
(* The USB keyboard keeps the keys that are down for the next report.      *)
hid_stroke(key) ==
    /\ Stroke
    /\ down' = IF key \in down THEN down \ {key} ELSE down \cup {key}
    /\ fresh' = IF key \in down THEN fresh \ {key} ELSE fresh \cup {key}
    /\ UNCHANGED <<wire, data_buf, data, mod_keys_state, typed, due, plain, prev_pressed, phantom>>

IsModifier(key) == is_shift(key) \/ is_ctrl(key) \/ is_gui(key) \/ is_alt(key)

(* Keys in the order of their usages, which is that of a BTreeSet.         *)
InOrder(keys) ==
    CHOOSE s \in [1 .. Cardinality(keys) -> keys] :
        \A i, k \in 1 .. Cardinality(keys) : i < k => RowOf(s[i]).usage < RowOf(s[k]).usage

(* The terminal gets the characters of these keys, one key after another.  *)
type_keys(keys) ==
    LET s == InOrder(keys)
        f[i \in 0 .. Len(s)] ==
            IF i = 0 THEN << >> ELSE f[i - 1] \o Chars(RowOf(s[i]), mod_keys_state')
    IN  /\ typed' = f[Len(s)]
        /\ phantom' = keys \ fresh
        /\ fresh' = fresh \ keys

(* poll: the modifiers of the report hold for all of it, and a key is      *)
(* typed by the first report that has it.                                  *)
poll ==
    LET pressed == {k \in down : ~IsModifier(k)}
        diff == (pressed \ prev_pressed) \cup (prev_pressed \ pressed) IN
    /\ mod_keys_state' = Modifiers(down)
    /\ type_keys(diff \cap pressed)
    /\ prev_pressed' = pressed
    /\ UNCHANGED <<down, strokes, wire, data_buf, data, due, plain>>

hidNext == (\E key \in HidKeys : hid_stroke(key)) \/ poll

----------------------------------------------------------------------------
TypeOK ==
    /\ down \subseteq Ps2Keys \cup HidKeys /\ strokes \in 0 .. MaxStrokes
    /\ data_buf \in Ring!Rings /\ data \in Seq(0 .. 255) /\ Len(data) <= 6
    /\ prev_pressed \subseteq HidKeys /\ fresh \subseteq HidKeys

(* Every code of a map is told from the bytes of every other: read from an *)
(* empty buffer, a code is a key's only at its last byte.  The one         *)
(* exception is PrintScreen, whose press starts with that of RCtrl.        *)
CodesDecode(map) ==
    /\ \A r \in map : to_usb_hid_map(map, r.usage) = {r}
    /\ \A r \in map : \A code \in {r.pressed, r.released} \ {<< >>} : \A n \in 1 .. Len(code) :
          to_ps2_map(map, SubSeq(code, 1, n)) =
              IF n = Len(code) THEN {r}
              ELSE IF r.key = "PrintScreen" /\ n = 2 /\ code = r.pressed
                   THEN {q \in map : q.key = "RCtrl"} ELSE {}

Quiet == wire = << >> /\ Ring!is_empty(data_buf)

(* As long as no key is released and the ring is not overrun, the terminal *)
(* gets what the presses type, in their order, with the modifiers of the   *)
(* moment of each press, however the interrupt and the polls interleave.   *)
PressesTyped ==
    plain => /\ Len(typed) <= Len(due) /\ typed = SubSeq(due, 1, Len(typed))
             /\ Quiet => typed = due /\ mod_keys_state = Modifiers(down)

(* A press is typed at most once by the USB driver, however often the      *)
(* reports that show the key are polled.                                   *)
TypedOnce == phantom = {}
=============================================================================
