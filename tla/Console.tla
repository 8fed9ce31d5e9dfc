------------------------------- MODULE Console -------------------------------
(* The text console (kernel/src/graphics/frame_buf_console.rs) and the     *)
(* escape sequences that it takes (kernel/src/util/ansi.rs).  The screen   *)
(* is its cells, which hold a letter or are blank; colours are left out.   *)
(* A full screen is not scrolled at once: the lines to scroll are counted  *)
(* and moved before the next letter is drawn.  The field want, which the   *)
(* code does not have, is the screen of a console that scrolls at once.    *)
EXTENDS Integers, FiniteSetsExt, SequencesExt

CONSTANTS
    Width, Height,            \* of the layer, in cells
    BUF_SIZE,                 \* of the ring in AnsiEscapeStream: 16 in the code
    MAX_NUMBER,               \* the largest u32
    Written,                  \* the strings that are written
    MaxPending                \* bounds the lines that wait to be scrolled

VARIABLE console

Cells == (0 .. Width - 1) \X (0 .. Height - 1)
Blank == " "
Glyph(c) == IF c = " " THEN Blank ELSE "letter"
Empty == [p \in Cells |-> Blank]
cursor_max == <<Width - 1, Height - 1>>

Digits == <<"0", "1", "2", "3", "4", "5", "6", "7", "8", "9">>
Motions == [A |-> "CursorUp", B |-> "CursorDown", C |-> "CursorRight", D |-> "CursorLeft",
            E |-> "CursorNextLineHead", F |-> "CursorPrevLineHead", G |-> "CursorColumn",
            S |-> "ScrollUp", T |-> "ScrollDown"]
Erasers == [J |-> <<"ClearScreenAfterCursor", "ClearScreenBeforeCursor", "ClearScreenAll">>,
            K |-> <<"ClearRowAfterCursor", "ClearRowBeforeCursor", "ClearRowAll">>]
Letters == DOMAIN Motions \cup DOMAIN Erasers \cup {"H", "f", "m", "x"}

(* An AnsiEvent; an Option of one is a set of at most one.                 *)
Event(op, args) == [op |-> op, args |-> args]

(* str::parse::<u32>                                                       *)
parse(digits) ==
    LET n == FoldLeft(LAMBDA acc, c : 10 * acc + IndexFirstSubSeq(<<c>>, Digits) - 1, 0, digits) IN
    IF digits = << >> \/ n > MAX_NUMBER THEN {} ELSE {n}
Number(digits, otherwise) == CHOOSE n \in IF parse(digits) = {} THEN {otherwise} ELSE parse(digits) : TRUE

(* CharReset ... CharCancel, the colours of letters and of the background; *)
(* those that are not implemented panic.                                   *)
Style(n) ==
    {Event(op, << >>) : op \in
        {o \in {"CharReset", "CharHidden", "CharColor", "unimplemented"} :
            \/ n = 0 /\ o = "CharReset"
            \/ n = 8 /\ o = "CharHidden"
            \/ n \in {7} \cup (30 .. 37) \cup (40 .. 47) /\ o = "CharColor"
            \/ n \in (1 .. 6) \cup {9} /\ o = "unimplemented"}}

(* The numbers of a sequence: a semicolon moves the first to the second.   *)
numbers(seq) ==
    FoldLeft(LAMBDA acc, c : IF c \in ToSet(Digits) THEN [acc EXCEPT !.num_buf1 = Append(@, c)]
                             ELSE IF c = ";" /\ acc.num_buf1 # << >>
                             THEN [num_buf1 |-> << >>, num_buf2 |-> acc.num_buf1] ELSE acc,
             [num_buf1 |-> << >>, num_buf2 |-> << >>], seq)

(* A sequence ends in its only letter; one that is not known is none.      *)
parse_csi_seq(seq) ==
    LET ch == Last(seq)
        num == numbers(Front(seq))
        n == Number(num.num_buf1, 0)
    IN  CASE ch \in DOMAIN Motions -> {Event(Motions[ch], <<Number(num.num_buf1, 1)>>)}
          [] ch \in {"H", "f"} -> {Event("CursorPosition", <<row, col>>) :
                                      row \in parse(num.num_buf2), col \in parse(num.num_buf1)}
          [] ch \in DOMAIN Erasers -> IF n \in 0 .. 2 THEN {Event(Erasers[ch][n + 1], << >>)} ELSE {}
          [] ch = "m" -> Style(n)
          [] OTHER -> {}

(* AnsiEscapeStream::push: the stream after a character, and the event;    *)
(* a character without one is text.                                        *)
push(ansi, c) ==
    LET control == {Event("AnsiControlChar", <<c>>)}
        normal == [state |-> "Normal", buf |-> << >>]
        buf == IF Len(ansi.buf) = BUF_SIZE - 1 THEN <<c>> ELSE Append(ansi.buf, c)
    IN  CASE ansi.state = "Normal" -> IF c = "ESC" THEN [ansi |-> [ansi EXCEPT !.state = "Esc"], event |-> control]
                                      ELSE [ansi |-> ansi, event |-> {}]
          [] ansi.state = "Esc" -> IF c = "[" THEN [ansi |-> [state |-> "Csi", buf |-> << >>], event |-> control]
                                   ELSE [ansi |-> [ansi EXCEPT !.state = "Normal"], event |-> {}]
          [] ansi.state = "Csi" -> IF c \in Letters THEN [ansi |-> normal, event |-> parse_csi_seq(buf)]
                                   ELSE [ansi |-> [ansi EXCEPT !.buf = buf], event |-> control]

----------------------------------------------------------------------------
Scrolled(cells, n) ==
    [p \in Cells |-> IF p[2] + n < Height THEN cells[<<p[1], p[2] + n>>] ELSE Blank]

(* What is erased while lines wait is erased where it still stands.        *)
Erase(con, Erased(_)) ==
    LET cells == [p \in Cells |-> IF Erased(p) THEN Blank ELSE con.cells[p]] IN
    [con EXCEPT !.cells = cells,
                !.want = IF con.pending > 0 THEN Scrolled(cells, con.pending)
                         ELSE [p \in Cells |-> IF Erased(p) THEN Blank ELSE @[p]]]

scroll(con) == [con EXCEPT !.pending = @ + 1, !.want = Scrolled(@, 1)]

flush_scroll(con) == [con EXCEPT !.pending = 0, !.cells = Scrolled(@, con.pending)]

inc_cursor(con) ==
    LET x == IF con.x + 1 > cursor_max[1] THEN 0 ELSE con.x + 1
        y == IF con.x + 1 > cursor_max[1] THEN con.y + 1 ELSE con.y
    IN  IF y > cursor_max[2] THEN [scroll(con) EXCEPT !.x = 0, !.y = cursor_max[2]]
        ELSE [con EXCEPT !.x = x, !.y = y]

dec_cursor(con) ==
    IF con.x > 0 THEN [con EXCEPT !.x = @ - 1]
    ELSE IF con.y > 0 THEN [con EXCEPT !.x = cursor_max[1], !.y = @ - 1] ELSE con

new_line(con) ==
    IF con.y + 1 > cursor_max[2] THEN [scroll(con) EXCEPT !.x = 0]
    ELSE [con EXCEPT !.x = 0, !.y = @ + 1]

backspace(con) == LET back == dec_cursor(con) IN Erase(back, LAMBDA p : p = <<back.x, back.y>>)

Down(con, n) == Min({con.y + n, cursor_max[2]})
Up(con, n) == Max({con.y - n, 0})

(* The letter goes where the lines are not yet scrolled.                   *)
draw_text_BeforeScroll(con, c) ==
    IF con.hidden THEN con
    ELSE LET drawn == [con EXCEPT !.cells[<<con.x, con.y>>] = Glyph(c), !.want[<<con.x, con.y>>] = Glyph(c)]
         IN  inc_cursor(flush_scroll(drawn))

draw_text(con, c) ==
    IF con.hidden THEN con
    ELSE LET drawn == [flush_scroll(con) EXCEPT !.cells[<<con.x, con.y>>] = Glyph(c), !.want[<<con.x, con.y>>] = Glyph(c)]
         IN  inc_cursor(drawn)

(* A sequence takes effect; n is its first number.                         *)
moved(con, op, n) ==
    CASE op = "CursorUp" -> [con EXCEPT !.y = Up(con, n)]
      [] op = "CursorDown" -> [con EXCEPT !.y = Down(con, n)]
      [] op = "CursorRight" -> [con EXCEPT !.x = Min({@ + n, cursor_max[1]})]
      [] op = "CursorLeft" -> [con EXCEPT !.x = Max({@ - n, 0})]
      [] op = "CursorNextLineHead" -> [con EXCEPT !.x = 0, !.y = Down(con, n)]
      [] op = "CursorPrevLineHead" -> [con EXCEPT !.x = 0, !.y = Up(con, n)]
      [] op = "CursorColumn" -> [con EXCEPT !.x = IF n > 0 THEN Min({n - 1, cursor_max[1]}) ELSE @]
      [] op = "ScrollUp" -> flush_scroll([con EXCEPT !.pending = @ + n, !.want = Scrolled(@, n)])

positioned(con, row, col) ==
    IF row = 0 \/ col = 0 THEN con
    ELSE [con EXCEPT !.x = Min({col - 1, cursor_max[1]}), !.y = Min({row - 1, cursor_max[2]})]

(* The part of the screen after the cursor is the one right of it and      *)
(* below, before it the one left of it and above.                          *)
erased(con, op) ==
    CASE op = "ClearScreenAfterCursor" -> Erase(con, LAMBDA p : p[1] >= con.x /\ p[2] >= con.y)
      [] op = "ClearScreenBeforeCursor" -> Erase(con, LAMBDA p : p[1] < con.x /\ p[2] < con.y)
      [] op = "ClearScreenAll" -> Erase(con, LAMBDA p : TRUE)
      [] op = "ClearRowAfterCursor" -> Erase(con, LAMBDA p : p[1] >= con.x /\ p[2] = con.y)
      [] op = "ClearRowBeforeCursor" -> Erase(con, LAMBDA p : p[1] < con.x /\ p[2] = con.y)
      [] op = "ClearRowAll" -> Erase(con, LAMBDA p : p[2] = con.y)

styled(con, op) ==
    [con EXCEPT !.hidden = CASE op = "CharReset" -> FALSE [] op = "CharHidden" -> TRUE [] op = "CharColor" -> @]

CsiSequence(con, e) ==
    CASE e.op = "AnsiControlChar" -> con
      [] e.op \in {"unimplemented", "ScrollDown"} -> [con EXCEPT !.panicked = TRUE]
      [] e.op \in Range(Motions) \ {"ScrollDown"} -> moved(con, e.op, e.args[1])
      [] e.op = "CursorPosition" -> positioned(con, e.args[1], e.args[2])
      [] e.op \in Range(Erasers.J) \cup Range(Erasers.K) -> erased(con, e.op)
      [] OTHER -> styled(con, e.op)

(* What is neither a line end nor a backspace goes through the stream.     *)
put(con, c) ==
    LET pushed == push(con.ansi, c)
        taken == [con EXCEPT !.ansi = pushed.ansi]
    IN  IF pushed.event = {} THEN draw_text(taken, c)
        ELSE CsiSequence(taken, CHOOSE e \in pushed.event : TRUE)

tab(con) == FoldLeft(put, con, [k \in 1 .. 4 |-> " "])

write_char(con, c) ==
    CASE con.panicked -> con
      [] c = "\n" -> new_line(con)
      [] c = "\t" -> tab(con)
      [] c = "BS" -> backspace(con)
      [] OTHER -> put(con, c)

(* init, once the console has its layer.                                   *)
Init ==
    console = [x |-> 0, y |-> 2, pending |-> 0,
               hidden |-> FALSE, ansi |-> [state |-> "Normal", buf |-> << >>],
               cells |-> Empty, want |-> Empty, panicked |-> FALSE]

write_str(s) ==
    /\ console.pending < MaxPending
    /\ console' = FoldLeft(write_char, console, s)

Next == ~console.panicked /\ \E s \in Written : write_str(s)

----------------------------------------------------------------------------
(* The screen is the one of a console that scrolls at once, but for the    *)
(* lines that wait (flush_scroll): the letters come in the same places     *)
(* whatever moves, scrolls and resets come between them; only what is      *)
(* erased while lines wait is erased where it still stands.                *)
TextInPlace == Scrolled(console.cells, console.pending) = console.want

(* The cursor stays in the screen, so that each letter is drawn where it   *)
(* is seen, whatever numbers the sequences have.                           *)
CursorInside == console.x \in 0 .. cursor_max[1] /\ console.y \in 0 .. cursor_max[2]

(* A sequence is over at its first letter, however it began, and holds no  *)
(* more than the ring: no writer leaves the console in one for good.       *)
SequencesEnd ==
    /\ Len(console.ansi.buf) < BUF_SIZE
    /\ console.ansi.state = "Csi" => ToSet(console.ansi.buf) \cap Letters = {}
=============================================================================
