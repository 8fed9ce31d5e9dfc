----------------------------- MODULE MCDevices -----------------------------
(* What the drivers are built from, and the screen, for TLC: the mutex and *)
(* the interrupt flag (Mutex), the registers of a task (Context), the      *)
(* terminal (Tty), the executor of the driver tasks (AsyncExecutor), the   *)
(* layers of the screen (MultiLayer), the windows (WindowManager) and the  *)
(* text console (Console).  A run explores one part at a time, while the   *)
(* other variables rest; the terminal is two parts, two readers and one    *)
(* reader that must get its line.                                          *)
EXTENDS Mutex, Context, AsyncExecutor

CONSTANTS
    IO_BUF_LEN, STDIN_LINE_BUF_SIZE, MaxTyped,
    r1, r2,
    graphics, mouse, keyboard, uart, net,
    t1,
    program

VARIABLES
    input_buf, is_ready_get_line, FLAG_SIGINT, pc, typed, seen, sigint_at,
    layers, next_id, shadow_buf, vram, ghosts,
    wm_layers, wm_next_id, windows, pointer, drag, offset, created, adding, gone, images, panicked, overtaken,
    console,
    part

ttyVars == <<input_buf, is_ready_get_line, FLAG_SIGINT, pc, typed, seen, sigint_at>>
layerVars == <<layers, next_id, shadow_buf, vram, ghosts>>
wmVars == <<wm_layers, wm_next_id, windows, pointer, drag, offset, created, adding, gone, images, panicked, overtaken>>
screenVars == <<layerVars, wmVars, console>>

priorities ==
    [t \in DriverTasks |->
        IF t \in {graphics, mouse} THEN "High"
        ELSE IF t \in {keyboard, uart} THEN "Normal" ELSE "Low"]

Two == INSTANCE Tty WITH Readers <- {r1, r2}
One == INSTANCE Tty WITH Readers <- {r1}

One_by_one == <<1, 1>>
L == INSTANCE MultiLayer WITH
        resolution <- <<1, 4>>, MaxId <- 2, Positions <- {<<0, 0>>, <<0, 1>>, <<0, 2>>},
        Sizes <- {<<1, 2>>}, Rects <- {[at |-> <<0, 0>>, size |-> <<1, 2>>]}

(* Two windows that cover each other, buttons of one pixel, an image; the  *)
(* mouse goes down and tries to go too far, the tablet goes to a close     *)
(* button and back to the corner.                                          *)
W == INSTANCE WindowManager WITH
        layers <- wm_layers, next_id <- wm_next_id,
        resolution <- <<2, 3>>, MaxId <- 12, MaxImages <- 1, Programs <- {program},
        WindowAreas <- {[at |-> <<0, 0>>, size |-> <<2, 2>>]}, ImageSizes <- {One_by_one},
        TASKBAR_H <- 1, ButtonXs <- <<1, 2, 2>>, ButtonY <- 0, ButtonSize <- One_by_one,
        ContentsBase <- <<0, 1>>, PADDING <- 0, PointerSize <- One_by_one, MAX_REL <- 1,
        Events <- {[rel |-> TRUE, by |-> <<0, 5>>, left |-> TRUE],
                   [rel |-> FALSE, by |-> <<1, 0>>, left |-> TRUE],
                   [rel |-> FALSE, by |-> <<0, 0>>, left |-> FALSE]}

(* Letters, line ends, tabs and backspaces; a sequence that is left open   *)
(* and an escape that begins none; moves that go too far, a position, a    *)
(* scroll, erasures, styles, and a style that is not implemented.          *)
Csi(s) == <<"ESC", "[">> \o s
T == INSTANCE Console WITH
        Width <- 2, Height <- 3, BUF_SIZE <- 5, MAX_NUMBER <- 999, MaxPending <- 2,
        Written <- {<<"x">>, <<"\n">>, <<"\t">>, <<"BS">>, Csi(<<"1">>), <<"ESC", "x">>,
                    Csi(<<"A">>), Csi(<<"9", "C">>), Csi(<<"2", "E">>), Csi(<<"2", ";", "1", "H">>),
                    Csi(<<"2", "S">>), Csi(<<"J">>), Csi(<<"1", "K">>),
                    Csi(<<"m">>), Csi(<<"8", "m">>), Csi(<<"1", "m">>)}

ASSUME Two!SizesAssumption /\ ExecutorAssumption /\ MutexAssumption /\ ContextAssumption

MCInit ==
    /\ Init /\ ExecInit /\ ContextInit /\ L!LayerInit /\ W!Init /\ T!Init
    /\ \/ part = "two readers" /\ Two!Init
       \/ part \in {"one reader", "executor", "mutex", "context", "layers", "windows", "console"} /\ One!Init
    /\ running = t1 /\ on_cpu = t1

reader ==
    /\ part = "one reader" /\ One!reader(r1)
    /\ UNCHANGED <<execVars, vars, contextVars, screenVars, part>>

MCNext ==
    \/ /\ part = "two readers" /\ Two!Next
       /\ UNCHANGED <<execVars, vars, contextVars, screenVars, part>>
    \/ /\ part = "one reader" /\ One!Next
       /\ UNCHANGED <<execVars, vars, contextVars, screenVars, part>>
    \/ /\ part = "executor" /\ ExecNext
       /\ UNCHANGED <<ttyVars, vars, contextVars, screenVars, part>>
    \/ /\ part = "mutex" /\ Next
       /\ UNCHANGED <<ttyVars, execVars, contextVars, screenVars, part>>
    \/ /\ part = "context" /\ ContextNext
       /\ UNCHANGED <<ttyVars, execVars, vars, screenVars, part>>
    \/ /\ part = "layers" /\ L!LayerNext
       /\ UNCHANGED <<ttyVars, execVars, vars, contextVars, wmVars, console, part>>
    \/ /\ part = "windows" /\ W!Next
       /\ UNCHANGED <<ttyVars, execVars, vars, contextVars, layerVars, console, part>>
    \/ /\ part = "console" /\ T!Next
       /\ UNCHANGED <<ttyVars, execVars, vars, contextVars, layerVars, wmVars, part>>

MCVars == <<ttyVars, execVars, vars, contextVars, screenVars, part>>

(* The scheduler runs the reader again and again (ReadyRuns of Scheduler). *)
MCSpec == MCInit /\ [][MCNext]_MCVars /\ WF_MCVars(reader)

----------------------------------------------------------------------------
(* The ring of the terminal holds the latest keystrokes, in order, through *)
(* every mix of overwriting, reading and clearing, and nothing typed       *)
(* before a ^C reaches a reader after it.                                  *)
TerminalInput ==
    part \in {"two readers", "one reader"} =>
        /\ IF part = "two readers" THEN Two!TypeOK ELSE One!TypeOK
        /\ Two!NewestInput /\ Two!SigintForgets

(* A single reader that waits for a line gets it, or is ended by ^C, and a *)
(* ^C does end it.                                                         *)
LineReturns == (part = "one reader") => One!LineReturns /\ One!SigintEnds

(* However layers were made, drawn, moved, raised and removed since, each  *)
(* pixel of the screen shows the topmost layer there or is about to be     *)
(* drawn (draw_to_frame_buf).                                              *)
ScreenCurrent == part = "layers" => L!ScreenCurrent

(* Programs, the mouse and the graphics task together: no layer is left    *)
(* behind, the parts of a window stay in their places, and a click finds   *)
(* the window that is seen.                                                *)
WindowsSound == part = "windows" => W!LayersOwned /\ W!PartsInPlace /\ W!ClickFindsFront

(* Letters come where a console that scrolls at once would put them, the   *)
(* cursor stays in the screen, and every sequence ends.                    *)
ConsoleSound == part = "console" => T!TextInPlace /\ T!CursorInside /\ T!SequencesEnd
=============================================================================
