---------------------------- MODULE WindowManager ----------------------------
(* The windows (kernel/src/graphics/window_manager/): each is a frame, its *)
(* three buttons and the images its program adds, all of them layers.  The *)
(* programs make and remove windows with sys_iomsg, the mouse raises,      *)
(* drags and closes them, and the task graphics of main.rs flushes them.   *)
(* Every call holds the lock of the manager, with interrupts off.          *)
(*                                                                         *)
(* What is drawn in the layers is left to MultiLayer; a layer is its place *)
(* in the stack and on the screen.  Windows have room for their title bar. *)
EXTENDS Layers

CONSTANTS
    Programs,
    WindowAreas, ImageSizes,  \* what the programs ask for
    MaxImages,                \* bounds the images made
    TASKBAR_H,                \* 30 in the code
    ButtonXs, ButtonY,        \* <<22, 40, 58>> and 6: from the right and the top
    ButtonSize,               \* <<16, 14>>
    ContentsBase, PADDING,    \* <<4, 25>> and 4
    PointerSize,
    MAX_REL,                  \* PS2_MOUSE_MAX_REL_MOVEMENT
    Events                    \* of the mouse, by a step, and of the tablet, to a point

VARIABLES
    windows,       \* from the back to the front
    pointer,       \* the id of the mouse pointer's layer, or 0
    drag,          \* dragging_window_id, or 0
    offset,        \* dragging_offset, as a set of at most one point
    created,       \* program -> created_layer_ids
    adding,        \* program -> the image that it is about to add, if any
    gone,          \* the programs that have ended
    images,        \* how many were made
    panicked,
    overtaken      \* windows made while another one waited to be raised, images
                   \* made while their own did

wmVars == <<windows, pointer, drag, offset, created, adding, gone, images, panicked, overtaken>>
vars == <<layers, next_id, wmVars>>

Layer(id, pos, size, top) == [id |-> id, pos |-> pos, size |-> size, top |-> top]
move_to(l, p) == [l EXCEPT !.pos = p]

console == 1
taskbar == 2

Window(ids) == [id |-> ids[1], buttons |-> Tail(ids), children |-> << >>, raise |-> FALSE]
Parts(w) == w.buttons \o w.children
WindowIds == {windows[i].id : i \in DOMAIN windows}

create_taskbar == Layer(taskbar, <<0, resolution[2] - TASKBAR_H>>, <<resolution[1], TASKBAR_H>>, FALSE)

(* init_layer_man and init_window_man.                                     *)
Init ==
    /\ layers = <<Layer(console, Origin, <<resolution[1], resolution[2] - TASKBAR_H>>, FALSE), create_taskbar>>
    /\ next_id = 3
    /\ windows = << >> /\ pointer = 0 /\ drag = 0 /\ offset = {}
    /\ created = [t \in Programs |-> {}] /\ adding = [t \in Programs |-> {}] /\ gone = {}
    /\ images = 0 /\ panicked = FALSE /\ overtaken = {}

----------------------------------------------------------------------------
(* Component::move_by_parent subtracts the parent's position: below zero   *)
(* it panics.                                                              *)
Moved(ls, id, parent, to) ==
    LET p == Find(ls, id).pos IN
    Update(ls, id, LAMBDA l : move_to(l, Plus(to, Minus(p, parent))))

(* The buttons are left where they are.                                    *)
move_by_root_KeepsButtons(ls, w, to) ==
    LET at == Find(ls, w.id).pos IN
    Update(FoldLeft(LAMBDA acc, id : Moved(acc, id, at, to), ls, w.children),
           w.id, LAMBDA l : move_to(l, to))

(* Window::move_by_root: the buttons and the children, then the frame.     *)
move_by_root(ls, w, to) ==
    LET at == Find(ls, w.id).pos IN
    Update(FoldLeft(LAMBDA acc, id : Moved(acc, id, at, to), ls, Parts(w)),
           w.id, LAMBDA l : move_to(l, to))

Underflows(ls, w) ==
    \E i \in DOMAIN Parts(w) : \E a \in Axes :
        Find(ls, Parts(w)[i]).pos[a] < Find(ls, w.id).pos[a]

(* The drop of a window removes the frame's layer and those of its parts.  *)
drop(ls, w) == FoldLeft(Without, ls, <<w.id>> \o Parts(w))

(* Window::draw_flush: raised with its parts if asked for, and its         *)
(* children put below one another.                                         *)
draw_flush(ls, w) ==
    LET raised == IF w.raise THEN FoldLeft(to_front, ls, <<w.id>> \o Parts(w)) ELSE ls
        Put(acc, id) ==
            [ls |-> Update(acc.ls, id, LAMBDA l : move_to(l, Plus(Find(ls, w.id).pos, acc.at))),
             at |-> Plus(acc.at, <<0, Find(ls, id).size[2] + PADDING>>)]
    IN  FoldLeft(Put, [ls |-> raised, at |-> ContentsBase], w.children).ls

flush_components ==
    /\ layers' = FoldLeft(draw_flush, layers, windows)
    /\ windows' = [i \in DOMAIN windows |-> [windows[i] EXCEPT !.raise = FALSE]]
    /\ overtaken' = LET raised == SelectSeq(windows, LAMBDA w : w.raise) IN
                    (overtaken \ UNION {ToSet(Parts(raised[i])) : i \in DOMAIN raised})
                       \cup {new.id : new \in {n \in UNION {adding[t] : t \in Programs} :
                                                \E i \in DOMAIN raised : raised[i].id = n.window}}
    /\ UNCHANGED <<next_id, pointer, drag, offset, created, adding, gone, panicked, images>>

----------------------------------------------------------------------------
current_add_layer_id(t, id) == created' = [created EXCEPT ![t] = @ \cup {id}]
current_remove_layer_id(t, id) == created' = [created EXCEPT ![t] = @ \ {id}]

(* Window::create_and_push: the frame and its buttons.                     *)
create_and_push(ids, area) ==
    LET button(k) == Layer(ids[k + 1], Plus(area.at, <<area.size[1] - ButtonXs[k], ButtonY>>), ButtonSize, FALSE)
    IN  FoldLeft(push_layer, layers,
                 <<Layer(ids[1], area.at, area.size, FALSE)>> \o [k \in 1 .. 3 |-> button(k)])

create_window(ids, area) ==
    /\ layers' = create_and_push(ids, area)
    /\ next_id' = next_id + Len(ids)
    /\ windows' = Append(windows, Window(ids))
    /\ overtaken' = overtaken \cup IF \E i \in DOMAIN windows : windows[i].raise THEN {ids[1]} ELSE {}

(* The three requests of sys_iomsg.                                        *)
CreateComponentWindow(t, area) ==
    /\ t \notin gone /\ adding[t] = {}
    /\ next_id + 3 <= MaxId
    /\ create_window([k \in 1 .. 4 |-> next_id + k - 1], area)
    /\ current_add_layer_id(t, next_id)
    /\ UNCHANGED <<pointer, drag, offset, adding, gone, panicked, images>>

(* The layer of an image is made first, in the corner of the screen, and   *)
(* then the image is added to the window, or dropped when there is none.   *)
create_and_push_from_framebuf(id, size) == push_layer(layers, Layer(id, Origin, size, FALSE))

CreateComponentImage(t, w, size) ==
    /\ t \notin gone /\ adding[t] = {}
    /\ next_id <= MaxId /\ images < MaxImages
    /\ images' = images + 1
    /\ layers' = create_and_push_from_framebuf(next_id, size)
    /\ next_id' = next_id + 1
    /\ adding' = [adding EXCEPT ![t] = {[window |-> w, id |-> next_id]}]
    /\ UNCHANGED <<windows, pointer, drag, offset, created, gone, panicked, overtaken>>

push_child(w, id) == [w EXCEPT !.children = Append(@, id)]

add_component_to_window(t) ==
    \E new \in adding[t] :
        /\ adding' = [adding EXCEPT ![t] = {}]
        /\ IF new.window \in WindowIds
           THEN /\ windows' = [i \in DOMAIN windows |->
                                 IF windows[i].id = new.window
                                 THEN push_child(windows[i], new.id) ELSE windows[i]]
                /\ UNCHANGED layers
           ELSE layers' = Without(layers, new.id) /\ UNCHANGED windows
        /\ UNCHANGED <<next_id, pointer, drag, offset, created, gone, panicked, overtaken, images>>

(* Windows removed one after the other: the order makes no difference.     *)
Dropped(doomed) ==
    /\ layers' = FoldLeft(drop, layers, SelectSeq(windows, LAMBDA w : w.id \in doomed))
    /\ windows' = SelectSeq(windows, LAMBDA w : w.id \notin doomed)

remove_child(w, id) == [w EXCEPT !.children = SelectSeq(@, LAMBDA c : c # id)]

(* A window, or a child of one.                                            *)
remove_component(id) ==
    IF id \in WindowIds THEN Dropped({id})
    ELSE /\ \E i \in DOMAIN windows : id \in ToSet(windows[i].children)
         /\ layers' = Without(layers, id)
         /\ windows' = [i \in DOMAIN windows |-> remove_child(windows[i], id)]

RemoveComponent(t, id) ==
    /\ t \notin gone /\ adding[t] = {}
    /\ remove_component(id)
    /\ current_remove_layer_id(t, id)
    /\ UNCHANGED <<next_id, pointer, drag, offset, adding, gone, panicked, overtaken, images>>

(* The drop of the program's resources removes its windows.                *)
exit(t) ==
    /\ t \notin gone /\ adding[t] = {}
    /\ Dropped(created[t])
    /\ created' = [created EXCEPT ![t] = {}]
    /\ gone' = gone \cup {t}
    /\ UNCHANGED <<next_id, pointer, drag, offset, adding, panicked, overtaken, images>>

----------------------------------------------------------------------------
clamp(x, low, high) == Max({low, Min({x, high})})

(* Where the pointer goes: by a bounded step, or to a point.               *)
m_pos_after(before, e) ==
    [a \in Axes |->
        LET to == IF e.rel THEN before[a] + clamp(e.by[a], -MAX_REL, MAX_REL) ELSE e.by[a]
        IN  clamp(to, 0, resolution[a] - PointerSize[a])]

(* The frontmost window at a point, or 0.                                  *)
Hit(ls, ws, p) ==
    LET hits == {i \in DOMAIN ws : contains(Area(Find(ls, ws[i].id)), p)} IN
    IF hits = {} THEN 0 ELSE Max(hits)

(* A window stays on the screen.                                           *)
Clamped(ls, w, to) ==
    [a \in Axes |-> clamp(to[a], 0, Max({0, resolution[a] - Find(ls, w.id).size[a]}))]

(* The window goes to where the pointer, or what is left of a step, takes  *)
(* it; the handler stops when the window dragged is no more.               *)
Drag(m, before, at) ==
    LET of == {i \in DOMAIN m.windows : m.windows[i].id = m.drag}
        i == IF m.offset # {} THEN IF of = {} THEN 0 ELSE Max(of) ELSE Hit(m.layers, m.windows, at)
        w == m.windows[i]
        pos == Find(m.layers, w.id).pos
        o == CHOOSE x \in m.offset : TRUE
        to == IF m.offset # {} THEN Minus(at, o)
              ELSE Plus(pos, Minus(at, before))
    IN  IF i = 0 THEN m
        ELSE IF Underflows(m.layers, w) THEN [m EXCEPT !.panicked = TRUE]
        ELSE [m EXCEPT !.layers = move_by_root(@, w, Clamped(m.layers, w, to)), !.drag = w.id]

is_close_button_clickable(ls, w, p) == contains(Area(Find(ls, w.buttons[1])), p)

(* A press that begins: on a close button it closes the window, elsewhere  *)
(* in the window it raises it, at the next flush, and holds it.            *)
Press(m, at) ==
    LET i == Hit(m.layers, m.windows, at)
        w == m.windows[i]
    IN  IF i = 0 THEN m
        ELSE IF is_close_button_clickable(m.layers, w, at)
        THEN [m EXCEPT !.windows = RemoveAt(@, i), !.layers = drop(@, w)]
        ELSE [m EXCEPT !.windows = Append(RemoveAt(@, i), [w EXCEPT !.raise = TRUE]),
                       !.drag = w.id,
                       !.offset = {Minus(at, Find(m.layers, w.id).pos)},
                       !.overtaken = @ \ {w.id}]

create_mouse_pointer(id) == push_layer(layers, Layer(id, Origin, PointerSize, TRUE))

mouse_pointer_event(e) ==
    LET made == pointer = 0
        id == IF made THEN next_id ELSE pointer
        ls == IF made THEN create_mouse_pointer(id) ELSE layers
        before == Find(ls, id).pos
        at == m_pos_after(before, e)
        m == [layers |-> Update(ls, id, LAMBDA l : move_to(l, at)), windows |-> windows, drag |-> drag,
              offset |-> offset, overtaken |-> overtaken, panicked |-> FALSE]
        end == IF ~e.left THEN [m EXCEPT !.drag = 0, !.offset = {}]
               ELSE Drag(IF drag = 0 THEN Press(m, at) ELSE m, before, at)
    IN
    /\ made => next_id <= MaxId
    /\ next_id' = IF made THEN next_id + 1 ELSE next_id
    /\ pointer' = id
    /\ layers' = end.layers /\ windows' = end.windows
    /\ drag' = end.drag /\ offset' = end.offset
    /\ panicked' = end.panicked /\ overtaken' = end.overtaken
    /\ UNCHANGED <<created, adding, gone, images>>

Next ==
    /\ ~panicked
    /\ \/ flush_components
       \/ \E e \in Events : mouse_pointer_event(e)
       \/ \E t \in Programs : \/ \E area \in WindowAreas : CreateComponentWindow(t, area)
                              \/ \E w \in created[t], size \in ImageSizes : CreateComponentImage(t, w, size)
                              \/ add_component_to_window(t)
                              \/ \E id \in Ids(layers) : RemoveComponent(t, id)
                              \/ exit(t)

----------------------------------------------------------------------------
Place(id) == CHOOSE i \in DOMAIN layers : layers[i].id = id
Pos(id) == Find(layers, id).pos

(* The layers are those of the console, the taskbar, the pointer and the   *)
(* parts of the windows: a window that is closed, by the mouse or at the   *)
(* end of its program, leaves none behind, and a program that has ended    *)
(* leaves no window.                                                       *)
LayersOwned ==
    /\ Ids(layers) = {console, taskbar} \cup ({pointer} \ {0})
                       \cup UNION {{windows[i].id} \cup ToSet(Parts(windows[i])) : i \in DOMAIN windows}
                       \cup {new.id : new \in UNION {adding[t] : t \in Programs}}
    /\ WindowIds \subseteq UNION {created[t] : t \in Programs \ gone}

(* Buttons keep their place in their window wherever it is dragged, and so *)
(* do images once a flush has put them there (Window::move_by_root); the   *)
(* subtraction in move_by_parent panics for no others.                     *)
PartsInPlace ==
    /\ \A i \in DOMAIN windows :
          LET w == windows[i] IN
          /\ \A k \in 1 .. 3 :
                Pos(w.buttons[k]) = Plus(Pos(w.id), <<Find(layers, w.id).size[1] - ButtonXs[k], ButtonY>>)
          /\ \A c \in ToSet(w.children) :
                \/ Pos(c) \in {Origin, Pos(w.id)}
                \/ \A a \in Axes : Pos(c)[a] >= Pos(w.id)[a] + ContentsBase[a]
    /\ panicked => \E i \in DOMAIN windows : \E c \in ToSet(windows[i].children) : Pos(c) = Origin

(* The window that a click finds is the one that is seen: the order of the *)
(* windows is that of their layers, but for those to be raised at the next *)
(* flush and those that were made meanwhile; and the parts of a window are *)
(* in front of it.                                                         *)
ClickFindsFront ==
    /\ \A i, j \in DOMAIN windows :
          i < j /\ ~windows[i].raise /\ ~windows[j].raise /\ windows[j].id \notin overtaken =>
              Place(windows[i].id) < Place(windows[j].id)
    /\ \A i \in DOMAIN windows : \A c \in ToSet(Parts(windows[i])) \ overtaken :
          Place(windows[i].id) < Place(c)
    /\ TopLast
=============================================================================
