------------------------------- MODULE Layers -------------------------------
(* The geometry of the screen (common/src/geometry.rs) and the stack of    *)
(* layers that the layer manager keeps (kernel/src/graphics/multi_layer.rs).*)
(* Both axes are treated alike: points and sizes are pairs.                *)
EXTENDS Integers, FiniteSetsExt, SequencesExt

CONSTANTS
    resolution,    \* of the frame buffer, <<width, height>>
    MaxId          \* bounds the layers made

VARIABLES
    layers,        \* from the bottom to the top
    next_id        \* NEXT of LayerId::new; the ids begin at 1 here

Axes == 1 .. 2
Origin == <<0, 0>>
Plus(p, q) == [a \in Axes |-> p[a] + q[a]]
Minus(p, q) == [a \in Axes |-> p[a] - q[a]]

Rect(at, size) == [at |-> at, size |-> size]
End(r) == Plus(r.at, r.size)
contains(r, p) == \A a \in Axes : p[a] >= r.at[a] /\ p[a] < End(r)[a]
Area(l) == Rect(l.pos, l.size)

(* A layer goes below those that are always on top.                        *)
push_layer(ls, l) ==
    IF l.top THEN Append(ls, l)
    ELSE InsertAt(ls, Min({i \in DOMAIN ls : ls[i].top} \cup {Len(ls) + 1}), l)

Find(ls, id) == ls[CHOOSE i \in DOMAIN ls : ls[i].id = id]
Ids(ls) == {ls[i].id : i \in DOMAIN ls}
Without(ls, id) == SelectSeq(ls, LAMBDA l : l.id # id)
Update(ls, id, Change(_)) == [i \in DOMAIN ls |-> IF ls[i].id = id THEN Change(ls[i]) ELSE ls[i]]

to_front(ls, id) == push_layer(Without(ls, id), Find(ls, id))

(* What is always on top is above everything else.                         *)
TopLast == \A i, j \in DOMAIN layers : i < j /\ layers[i].top => layers[j].top
=============================================================================
