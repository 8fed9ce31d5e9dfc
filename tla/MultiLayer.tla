----------------------------- MODULE MultiLayer -----------------------------
(* The layers of the screen (kernel/src/graphics/multi_layer.rs), drawn    *)
(* from the bottom to the top into the shadow buffer and from there into   *)
(* the memory of the card (frame_buf.rs), as far as something has changed. *)
(* No caller ever disables a layer: the flag is left out.  The only layer  *)
(* that is always on top is the mouse pointer's, in WindowManager.         *)
EXTENDS Layers

CONSTANTS
    Positions, Sizes, Rects   \* what the callers ask for

VARIABLES
    shadow_buf, vram,
    ghosts         \* pixels left by layers that were removed after a move

layerVars == <<layers, next_id, shadow_buf, vram, ghosts>>

Screen == (0 .. resolution[1] - 1) \X (0 .. resolution[2] - 1)

----------------------------------------------------------------------------
(* An Option<Rect> is a set of at most one.                                *)
merge_rect(opt, r) ==
    {IF opt = {} THEN r
     ELSE LET c == CHOOSE x \in opt : TRUE
              min == [a \in Axes |-> Min({c.at[a], r.at[a]})]
          IN  Rect(min, [a \in Axes |-> Max({End(c)[a], End(r)[a]}) - min[a]])}

(* A pixel of a layer is 0 until it is drawn.                              *)
Layer(id, pos, size) ==
    [id |-> id, pos |-> pos, size |-> size, top |-> FALSE,
     buf |-> [p \in (0 .. size[1] - 1) \X (0 .. size[2] - 1) |-> 0],
     dirty |-> {}, moved |-> FALSE, old |-> {}]

Local(l, p) == Minus(p, l.pos)

set_dirty(l) == [l EXCEPT !.dirty = {Rect(Origin, l.size)}]
extend_dirty_rect(l, r) == [l EXCEPT !.dirty = merge_rect(@, r)]

(* What lies outside the layer is refused.                                 *)
draw_rect(l, r, colour) ==
    IF \E a \in Axes : End(r)[a] > l.size[a] THEN l
    ELSE extend_dirty_rect([l EXCEPT !.buf = [p \in DOMAIN @ |-> IF contains(r, p) THEN colour ELSE @[p]]], r)

(* Every move forgets the place before.                                    *)
move_to_Forgets(l, p) ==
    IF l.pos = p THEN l
    ELSE [l EXCEPT !.old = {l.pos}, !.pos = p, !.moved = TRUE]

move_to(l, p) ==
    IF l.pos = p THEN l
    ELSE [l EXCEPT !.old = IF l.moved THEN @ ELSE {l.pos}, !.pos = p, !.moved = TRUE]

(* What a removed layer covered is drawn anew from the others.             *)
uncovered(l, removed) ==
    LET from == [a \in Axes |-> Max({l.pos[a], removed.pos[a]})]
        to == [a \in Axes |-> Min({End(Area(l))[a], End(Area(removed))[a]})]
    IN  IF \A a \in Axes : to[a] > from[a]
        THEN extend_dirty_rect(l, Rect(Local(l, from), Minus(to, from)))
        ELSE l

remove_layer(ls, id) ==
    LET rest == Without(ls, id) IN [i \in DOMAIN rest |-> uncovered(rest[i], Find(ls, id))]

bring_layer_to_front(ls, id) ==
    [i \in DOMAIN ls |-> set_dirty(to_front(ls, id)[i])]

----------------------------------------------------------------------------
(* The rectangles of a layer that have to be drawn, on the screen.         *)
Invalid(l) ==
    {Rect(Plus(l.pos, r.at), r.size) : r \in l.dirty}
    \cup IF l.moved THEN {Area(l)} \cup {Rect(p, l.size) : p \in l.old} ELSE {}

invalid_rect(ls) ==
    FoldLeft(LAMBDA opt, l : FoldSet(LAMBDA r, o : merge_rect(o, r), opt, Invalid(l)), {}, ls)

apply_layer_buf(fb, l, rect) ==
    [p \in Screen |-> IF contains(Area(l), p) /\ contains(rect, p) THEN l.buf[Local(l, p)] ELSE fb[p]]

flush_rect_to_vram(rect) ==
    vram' = [p \in Screen |-> IF contains(rect, p) THEN shadow_buf'[p] ELSE vram[p]]

draw_to_frame_buf ==
    IF invalid_rect(layers) = {} THEN UNCHANGED layerVars
    ELSE LET rect == CHOOSE r \in invalid_rect(layers) : TRUE IN
         /\ shadow_buf' = FoldLeft(LAMBDA fb, l : apply_layer_buf(fb, l, rect), shadow_buf, layers)
         /\ layers' = [i \in DOMAIN layers |->
                          [layers[i] EXCEPT !.dirty = {}, !.moved = FALSE, !.old = {}]]
         /\ flush_rect_to_vram(rect)
         /\ ghosts' = {p \in ghosts : ~contains(rect, p)}
         /\ UNCHANGED next_id

(* Where the removed layer is still to be seen.                            *)
Left(l) == {p \in Screen : \E o \in l.old : contains(Rect(o, l.size), p)}

LayerInit ==
    /\ layers = << >> /\ next_id = 1
    /\ shadow_buf = [p \in Screen |-> 0] /\ vram = [p \in Screen |-> 0]
    /\ ghosts = {}

create_layer(pos, size) ==
    /\ next_id <= MaxId
    /\ layers' = push_layer(layers, Layer(next_id, pos, size))
    /\ next_id' = next_id + 1
    /\ UNCHANGED <<shadow_buf, vram, ghosts>>

remove(id) ==
    /\ layers' = remove_layer(layers, id)
    /\ ghosts' = ghosts \cup Left(Find(layers, id))
    /\ UNCHANGED <<next_id, shadow_buf, vram>>

raise(id) ==
    /\ layers' = bring_layer_to_front(layers, id)
    /\ UNCHANGED <<next_id, shadow_buf, vram, ghosts>>

move_layer(id, p) ==
    /\ layers' = Update(layers, id, LAMBDA l : move_to(l, p))
    /\ UNCHANGED <<next_id, shadow_buf, vram, ghosts>>

draw_layer(id, r, colour) ==
    /\ layers' = Update(layers, id, LAMBDA l : draw_rect(l, r, colour))
    /\ UNCHANGED <<next_id, shadow_buf, vram, ghosts>>

(* A caller draws in the colour that is the id of its layer.               *)
LayerNext ==
    \/ \E p \in Positions, s \in Sizes : create_layer(p, s)
    \/ \E id \in Ids(layers) :
          \/ remove(id) \/ raise(id)
          \/ \E p \in Positions : move_layer(id, p)
          \/ \E r \in Rects : draw_layer(id, r, id)
    \/ draw_to_frame_buf

----------------------------------------------------------------------------
Covering(p) == {i \in DOMAIN layers : contains(Area(layers[i]), p)}
Pending(p) == \E i \in DOMAIN layers : \E r \in Invalid(layers[i]) : contains(r, p)

(* However layers were made, drawn, moved, raised and removed since, each  *)
(* pixel of the screen shows the topmost layer there, or is about to be    *)
(* drawn (draw_to_frame_buf); but for the old place of a layer that was    *)
(* removed after a move and before the next drawing, which stays behind.   *)
ScreenCurrent ==
    \A p \in Screen \ ghosts :
        Covering(p) # {} =>
            LET top == layers[Max(Covering(p))]
                pixel == top.buf[Local(top, p)]
            IN  vram[p] = pixel \/ pixel = 0 \/ Pending(p)
=============================================================================
