-------------------------------- MODULE Tty --------------------------------
(***************************************************************************)
(* The terminal of the kernel (device/tty.rs): the ring of typed           *)
(* characters, the line and the character reads of sys_read on the         *)
(* standard input, the choice between the two that fread of the C library  *)
(* makes, and ^C.                                                          *)
(*                                                                         *)
(* A typed character is a pair of its serial number and its kind, so that  *)
(* the properties can tell which keystroke is which.  Characters arrive    *)
(* from the async tasks that poll the keyboards and the serial port, with  *)
(* interrupts off, hence one at a time but between any two steps of a      *)
(* reader.  The echo, and the output rings nobody reads, are left out.     *)
(***************************************************************************)
EXTENDS Integers, Sequences, FiniteSets, SequencesExt

CONSTANTS
    IO_BUF_LEN,           \* size of the ring
    STDIN_LINE_BUF_SIZE,  \* size of the line buffer of the C library
    Readers,              \* tasks that read their standard input
    MaxTyped              \* bound: number of keystrokes

SizesAssumption ==
    IO_BUF_LEN \in Nat \ {0} /\ STDIN_LINE_BUF_SIZE \in Nat /\ MaxTyped \in Nat

VARIABLES
    input_buf,            \* Buffer of the typed characters
    is_ready_get_line,    \* a newline was typed
    FLAG_SIGINT,          \* ^C was typed
    pc,                   \* where each reader is
    typed,                \* history: number of the last keystroke
    seen,                 \* history: number of the last keystroke taken from the ring
    sigint_at             \* history: number of the last ^C

vars == <<input_buf, is_ready_get_line, FLAG_SIGINT, pc, typed, seen, sigint_at>>

Newline == "newline"
Return == "return"
Backspace == "backspace"
Letter == "letter"
CtrlC == "^C"
Keys == {Newline, Return, Backspace, Letter, CtrlC}

Chars == (1 .. MaxTyped) \X (Keys \ {CtrlC, Return})

NUL == <<0, "nul">>

----------------------------------------------------------------------------
(* Buffer.                                                                 *)

default == [buf |-> [i \in 0 .. IO_BUF_LEN - 1 |-> NUL], head |-> 0, tail |-> 0, full |-> FALSE]

(* A full ring overwrites its oldest character.                            *)
push(b, c) ==
    LET h == IF b.full THEN (b.head + 1) % IO_BUF_LEN ELSE b.head
        t == (b.tail + 1) % IO_BUF_LEN IN
    [buf |-> [b.buf EXCEPT ![b.tail] = c], head |-> h, tail |-> t, full |-> t = h]

IsEmpty(b) == ~b.full /\ b.head = b.tail

pop_front_Peeks(b) == [b EXCEPT !.full = FALSE]

pop_front(b) == [b EXCEPT !.head = (@ + 1) % IO_BUF_LEN, !.full = FALSE]

len(b) ==
    IF b.full THEN IO_BUF_LEN
    ELSE IF b.tail >= b.head THEN b.tail - b.head ELSE IO_BUF_LEN + b.tail - b.head

clear_KeepsText(b) == b

clear(b) == [b EXCEPT !.head = 0, !.tail = 0, !.full = FALSE]

(* The characters pop_front yields until it yields none.                   *)
Contents(b) == [i \in 1 .. len(b) |-> b.buf[(b.head + i - 1) % IO_BUF_LEN]]

Kinds(b) == {Contents(b)[i][2] : i \in 1 .. len(b)}

(* What Tty::line makes of them: a backspace erases what is before it.     *)
line(b) ==
    LET add(s, c) == IF c[2] # Backspace THEN Append(s, c)
                     ELSE IF s = <<>> THEN s ELSE Front(s)
    IN  FoldLeft(add, <<>>, Contents(b))

----------------------------------------------------------------------------
Init ==
    /\ input_buf = default
    /\ is_ready_get_line = FALSE
    /\ FLAG_SIGINT = FALSE
    /\ pc = [r \in Readers |-> "run"]
    /\ typed = 0
    /\ seen = 0
    /\ sigint_at = 0

(* tty::input of ^C: the flag is raised and what was typed is forgotten.   *)
input_ctrl_c ==
    /\ FLAG_SIGINT' = TRUE
    /\ input_buf' = clear(input_buf)
    /\ is_ready_get_line' = FALSE
    /\ sigint_at' = typed + 1

input_char_LastOnly(c) ==
    LET k == IF c = Return THEN Newline ELSE c IN
    /\ input_buf' = push(input_buf, <<typed + 1, k>>)
    /\ is_ready_get_line' = (k = Newline)
    /\ UNCHANGED <<FLAG_SIGINT, sigint_at>>

(* tty::input of anything else.  A backspace is buffered like a letter.    *)
input_char(c) ==
    LET k == IF c = Return THEN Newline ELSE c IN
    /\ input_buf' = push(input_buf, <<typed + 1, k>>)
    /\ is_ready_get_line' = (is_ready_get_line \/ k = Newline)
    /\ UNCHANGED <<FLAG_SIGINT, sigint_at>>

input(c) ==
    /\ typed < MaxTyped
    /\ typed' = typed + 1
    /\ IF c = CtrlC THEN input_ctrl_c ELSE input_char(c)
    /\ UNCHANGED <<pc, seen>>

----------------------------------------------------------------------------
(* Every system call, and every turn of the loops of sys_read, begins with *)
(* check_sigint: whoever comes first takes the flag and exits.             *)
check_sigint(r, next) ==
    /\ pc' = [pc EXCEPT ![r] = IF FLAG_SIGINT THEN "dead" ELSE next]
    /\ FLAG_SIGINT' = FALSE

(* fread of the standard input: sys_stat tells whether something is typed; *)
(* if so one character is read, else a line.                               *)
choose_read == IF len(input_buf) > 0 THEN "char" ELSE "line"

fread(r) ==
    /\ pc[r] = "run"
    /\ check_sigint(r, choose_read)
    /\ UNCHANGED <<input_buf, is_ready_get_line, typed, seen, sigint_at>>

(* The head of a loop of sys_read.                                         *)
read_turn(r) ==
    /\ pc[r] \in {"char", "line"}
    /\ check_sigint(r, IF pc[r] = "char" THEN "char_checked" ELSE "line_checked")
    /\ UNCHANGED <<input_buf, is_ready_get_line, typed, seen, sigint_at>>

(* tty::char: the first character, if there is one.                        *)
read_char(r) ==
    /\ pc[r] = "char_checked"
    /\ IF IsEmpty(input_buf)
       THEN /\ pc' = [pc EXCEPT ![r] = "char"]
            /\ UNCHANGED <<input_buf, is_ready_get_line, seen>>
       ELSE LET c == input_buf.buf[input_buf.head] IN
            /\ pc' = [pc EXCEPT ![r] = "run"]
            /\ input_buf' = pop_front(input_buf)
            /\ is_ready_get_line' = (is_ready_get_line /\ c[2] # Newline)
            /\ seen' = c[1]
    /\ UNCHANGED <<FLAG_SIGINT, typed, sigint_at>>

(* tty::line: everything typed so far, once a newline is there.  A text    *)
(* that does not fit in the caller's buffer with its NUL is an error, and  *)
(* is gone.                                                                *)
read_line(r) ==
    /\ pc[r] = "line_checked"
    /\ IF is_ready_get_line
       THEN /\ pc' = [pc EXCEPT ![r] =
                        IF Len(line(input_buf)) + 1 > STDIN_LINE_BUF_SIZE THEN "failed" ELSE "run"]
            /\ input_buf' = [input_buf EXCEPT !.head = input_buf.tail, !.full = FALSE]
            /\ is_ready_get_line' = FALSE
            /\ seen' = IF IsEmpty(input_buf) THEN seen ELSE typed
       ELSE /\ pc' = [pc EXCEPT ![r] = "line"]
            /\ UNCHANGED <<input_buf, is_ready_get_line, seen>>
    /\ UNCHANGED <<FLAG_SIGINT, typed, sigint_at>>

(* fread reports an end of the file; the program reads on.                 *)
read_failed(r) ==
    /\ pc[r] = "failed"
    /\ pc' = [pc EXCEPT ![r] = "run"]
    /\ UNCHANGED <<input_buf, is_ready_get_line, FLAG_SIGINT, typed, seen, sigint_at>>

reader(r) == fread(r) \/ read_turn(r) \/ read_char(r) \/ read_line(r) \/ read_failed(r)

Next ==
    \/ \E c \in Keys : input(c)
    \/ \E r \in Readers : reader(r)

Spec == Init /\ [][Next]_vars

(* Every task gets the processor again and again.                          *)
FairSpec == Spec /\ \A r \in Readers : WF_vars(reader(r))

----------------------------------------------------------------------------
(* The state is well typed: indices lie in the ring.                       *)
TypeOK ==
    /\ input_buf.head \in 0 .. IO_BUF_LEN - 1
    /\ input_buf.tail \in 0 .. IO_BUF_LEN - 1
    /\ input_buf.full => input_buf.head = input_buf.tail
    /\ \A i \in 0 .. IO_BUF_LEN - 1 : input_buf.buf[i] \in Chars \cup {NUL}
    /\ is_ready_get_line \in BOOLEAN /\ FLAG_SIGINT \in BOOLEAN
    /\ pc \in [Readers -> {"run", "char", "char_checked", "line", "line_checked",
                           "failed", "dead"}]

(* The ring holds the latest keystrokes, in their order and without a gap, *)
(* and only ones nobody has read: head, tail and the full flag agree       *)
(* through every mix of overwriting, reading and clearing.                 *)
NewestInput ==
    LET s == Contents(input_buf) IN
    /\ \A i \in DOMAIN s : s[i][1] = typed - Len(s) + i
    /\ s # <<>> => s[1][1] > seen

(* Nothing typed before a ^C reaches a reader after it.                    *)
SigintForgets == \A i \in 1 .. len(input_buf) : Contents(input_buf)[i][1] > sigint_at

(* A ^C ends a task, as long as there is one left to make a system call.   *)
SigintEnds == (FLAG_SIGINT /\ \E r \in Readers : pc[r] # "dead") ~> ~FLAG_SIGINT

(* Who waits for a line gets it, or is ended by ^C, once a newline is      *)
(* typed.                                                                  *)
LineReturns ==
    \A r \in Readers :
        (pc[r] \in {"line", "line_checked"} /\ Newline \in Kinds(input_buf))
            ~> pc[r] \in {"run", "failed", "dead"}
=============================================================================
