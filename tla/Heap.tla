------------------------------- MODULE Heap -------------------------------
(***************************************************************************)
(* The kernel heap (kernel/src/mem/allocator.rs): a list of holes in       *)
(* address order, kept in the holes themselves, and first fit.             *)
(*                                                                         *)
(* The unit is align_of::<Hole>(), 8 bytes: every address and size of the  *)
(* list is a multiple of it, because align_layout rounds sizes up.  Bottom *)
(* is at address 0; the heap is a run of whole frames, so that the address *)
(* has every alignment up to a page.  The heap is behind a lock and used   *)
(* with interrupts off: each operation is one step.  A request that fits   *)
(* nowhere stops the kernel (the unwrap in alloc).                         *)
(***************************************************************************)
EXTENDS Integers, Sequences

CONSTANTS
    Top,        \* the size of the heap
    Sizes,      \* the sizes asked for
    Aligns      \* the alignments asked for

HeapAssumption ==
    /\ Top \in Nat /\ Top >= 2
    /\ Sizes \subseteq Nat \ {0}
    /\ Aligns \subseteq Nat \ {0}

VARIABLES
    holes,      \* the list from HoleList::first on: address and size
    used,
    blocks      \* what is allocated: address, and the layout asked for

vars == <<holes, used, blocks>>

min_size == 2       \* size_of::<Hole>()

Hole(a, s) == [addr |-> a, size |-> s]

(* HoleList::new                                                           *)
Init ==
    /\ holes = <<Hole(0, Top)>>
    /\ used = 0
    /\ blocks = {}

----------------------------------------------------------------------------
(* Definitions named after another one with a suffix are faulty variants   *)
(* of it, kept to show that the properties notice the fault.               *)

End(h) == h.addr + h.size

align_layout(size) == IF size < min_size THEN min_size ELSE size

align_up(addr, align) == ((addr + align - 1) \div align) * align

(* Where in hole h an allocation starts: behind room for another hole      *)
(* unless h itself is aligned.                                             *)
aligned_addr(h, align) ==
    IF h.addr = align_up(h.addr, align) THEN h.addr ELSE align_up(h.addr + min_size, align)

back_padding_size(h, size, align) == End(h) - (aligned_addr(h, align) + size)

(* split_current succeeds: what is left behind is nothing or a hole.       *)
Fits_AnyRest(h, size, align) == h.size >= size /\ back_padding_size(h, size, align) >= 0

Fits(h, size, align) ==
    /\ h.size >= size
    /\ back_padding_size(h, size, align) \in {0} \cup min_size .. Top

split_current_DropsFront(h, size, align) ==
    LET back == back_padding_size(h, size, align) IN
    IF back = 0 THEN <<>> ELSE <<Hole(aligned_addr(h, align) + size, back)>>

(* split_current: the holes that take the place of h.                      *)
split_current(h, size, align) ==
    LET a == aligned_addr(h, align)
        back == back_padding_size(h, size, align) IN
    (IF a = h.addr THEN <<>> ELSE <<Hole(h.addr, a - h.addr)>>)
        \o (IF back = 0 THEN <<>> ELSE <<Hole(a + size, back)>>)

alloc_first_fit(size, align) ==
    LET s == align_layout(size) IN
    \E i \in DOMAIN holes :
        /\ Fits(holes[i], s, align)
        /\ \A j \in 1 .. i - 1 : ~Fits(holes[j], s, align)
        /\ holes' = SubSeq(holes, 1, i - 1) \o split_current(holes[i], s, align)
                        \o SubSeq(holes, i + 1, Len(holes))
        /\ used' = used + s
        /\ blocks' = blocks \cup
                {[addr |-> aligned_addr(holes[i], align), size |-> size, align |-> align]}

----------------------------------------------------------------------------
check_merge_bottom(h) == IF min_size > h.addr THEN Hole(0, End(h)) ELSE h

check_merge_top(h) ==
    IF End(h) < Top /\ End(h) + min_size > Top THEN Hole(h.addr, Top - h.addr) ELSE h

(* A turn of try_merge_next_n at position at.i of the list at.list.        *)
try_merge_next(at) ==
    LET l == at.list
        h == l[at.i] IN
    IF at.i = Len(l) THEN [at EXCEPT !.list = [l EXCEPT ![at.i] = check_merge_top(h)]]
    ELSE IF End(h) = l[at.i + 1].addr
         THEN [at EXCEPT !.list = Append(SubSeq(l, 1, at.i - 1), Hole(h.addr, h.size + l[at.i + 1].size))
                                    \o SubSeq(l, at.i + 2, Len(l))]
    ELSE [at EXCEPT !.i = @ + 1]

try_merge_next_n_Once(at, n) == try_merge_next(at).list

(* try_merge_next_n for n = 1 and n = 2.                                   *)
try_merge_next_n(at, n) ==
    IF n = 1 THEN try_merge_next(at).list ELSE try_merge_next(try_merge_next(at)).list

insert(l, i, h) == Append(SubSeq(l, 1, i), h) \o SubSeq(l, i + 1, Len(l))

(* The hole after which try_insert_after succeeds: the first one whose     *)
(* successor is behind node.                                               *)
insert_position(node) ==
    CHOOSE i \in DOMAIN holes :
        /\ i = Len(holes) \/ node.addr < holes[i + 1].addr
        /\ \A j \in 1 .. i - 1 : ~(node.addr < holes[j + 1].addr)

(* The list after freeing node.                                            *)
freed(node) ==
    IF holes = <<>> THEN <<check_merge_top(check_merge_bottom(node))>>
    ELSE IF node.addr < holes[1].addr
         THEN try_merge_next_n([list |-> <<check_merge_bottom(node)>> \o holes, i |-> 1], 1)
    ELSE LET i == insert_position(node) IN
         try_merge_next_n([list |-> insert(holes, i, node), i |-> i], 2)

dealloc(b) ==
    /\ holes' = freed(Hole(b.addr, align_layout(b.size)))
    /\ used' = used - align_layout(b.size)
    /\ blocks' = blocks \ {b}

Next ==
    \/ \E size \in Sizes, align \in Aligns : alloc_first_fit(size, align)
    \/ \E b \in blocks : dealloc(b)

Spec == Init /\ [][Next]_vars

----------------------------------------------------------------------------
(* The state is well typed.                                                *)
TypeOK ==
    /\ holes \in Seq([addr : 0 .. Top, size : 0 .. Top])
    /\ used \in 0 .. Top
    /\ blocks \subseteq [addr : 0 .. Top - 1, size : Sizes, align : Aligns]

Units(a, s) == a .. a + s - 1
BlockUnits(b) == Units(b.addr, align_layout(b.size))
HoleUnits(i) == Units(holes[i].addr, holes[i].size)

(* Every unit of the heap is in exactly one hole or one block: no memory   *)
(* is handed out twice and none is lost, whatever the order in which       *)
(* blocks of any size and alignment come and go.  With it the assertions   *)
(* of try_insert_back and try_insert_after hold.                           *)
Partition ==
    /\ \A b \in blocks : b.addr % b.align = 0
    /\ \A u \in 0 .. Top - 1 :
        \/ \E b \in blocks :
            /\ u \in BlockUnits(b)
            /\ \A c \in blocks \ {b} : u \notin BlockUnits(c)
            /\ \A i \in DOMAIN holes : u \notin HoleUnits(i)
        \/ \E i \in DOMAIN holes :
            /\ u \in HoleUnits(i)
            /\ \A j \in DOMAIN holes \ {i} : u \notin HoleUnits(j)
            /\ \A b \in blocks : u \notin BlockUnits(b)

(* The list is in address order, every hole has room for its own header,   *)
(* and no two holes touch: freeing always joins neighbours, so that the    *)
(* heap is one hole again once everything is freed.                        *)
Coalesced ==
    /\ \A i \in DOMAIN holes : holes[i].size >= min_size
    /\ \A i \in 1 .. Len(holes) - 1 : End(holes[i]) < holes[i + 1].addr
    /\ blocks = {} => holes = <<Hole(0, Top)>> /\ used = 0

(* A request is turned away only when no aligned place is free that leaves *)
(* holes large enough for their headers: trying one place in each hole     *)
(* misses nothing.                                                         *)
SearchIsComplete ==
    \A size \in Sizes, align \in Aligns :
        LET s == align_layout(size) IN
        (\E i \in DOMAIN holes : Fits(holes[i], s, align))
            <=> \E i \in DOMAIN holes, a \in 0 .. Top :
                    /\ a % align = 0
                    /\ a - holes[i].addr \in {0} \cup min_size .. Top
                    /\ End(holes[i]) - (a + s) \in {0} \cup min_size .. Top
=============================================================================
