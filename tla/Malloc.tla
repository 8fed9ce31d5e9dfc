------------------------------- MODULE Malloc -------------------------------
(***************************************************************************)
(* malloc of the C library (apps/libc/stdlib.c): a first-fit list of free  *)
(* blocks over memory from sbrk.  A block begins with its header, and the  *)
(* pointer a program gets lies behind it.                                  *)
(*                                                                         *)
(* The program fills what it gets with a value of its own and does not     *)
(* write outside it.  realloc of NULL is malloc.                           *)
(***************************************************************************)
EXTENDS Integers, Sequences, FiniteSets, FiniteSetsExt, SequencesExt

CONSTANTS
    PAGE_SIZE, ALIGN,
    HEADER,         \* sizeof(FreeBlock)
    Lens,           \* what programs ask for
    MaxSbrk,        \* how often the kernel grants memory
    MaxLive         \* how many pointers a program has at a time

VARIABLES
    heap,           \* [free_list, size, cells, arenas]
    live            \* the program's pointers: [ptr, len, valid, value]

MallocAssumption ==
    /\ {PAGE_SIZE, ALIGN, HEADER} \subseteq Nat \ {0}
    /\ PAGE_SIZE % ALIGN = 0 /\ HEADER % ALIGN = 0

NULL == 0
Header == "header"
Junk == "junk"

Init ==
    /\ heap = [free_list |-> << >>, size |-> << >>, cells |-> << >>, arenas |-> << >>]
    /\ live = {}

----------------------------------------------------------------------------
Put(cells, from, len, v) ==
    [a \in DOMAIN cells \cup from .. from + len - 1 |-> IF a \in from .. from + len - 1 THEN v ELSE cells[a]]

SetSize(size, b, n) == [a \in DOMAIN size \cup {b} |-> IF a = b THEN n ELSE size[a]]

aligned(n) == ((n + ALIGN - 1) \div ALIGN) * ALIGN

need_NoHeader(len) == aligned(len)

need(len) == aligned(len + HEADER)

(* sys_sbrk grants whole pages, and one more than asked for: where the     *)
(* next ones begin.                                                        *)
sys_sbrk(h) ==
    PAGE_SIZE + PAGE_SIZE * FoldLeft(LAMBDA n, a : n + (a.len + PAGE_SIZE - 1) \div PAGE_SIZE + 1, 0, h.arenas)

request_mem(h, n) ==
    LET total == Max({aligned(n + HEADER), PAGE_SIZE})
        b == sys_sbrk(h) IN
    [block |-> b,
     heap |-> [h EXCEPT !.arenas = Append(@, [addr |-> b, len |-> total]),
                        !.size = SetSize(@, b, total),
                        !.cells = Put(Put(@, b, total, Junk), b, HEADER, Header)]]

Splits(h, b, n) == h.size[b] - n > HEADER

split_block(h, b, n) ==
    IF ~Splits(h, b, n) THEN h
    ELSE [h EXCEPT !.size = SetSize(SetSize(@, b + n, h.size[b] - n), b, n),
                   !.cells = Put(@, b + n, HEADER, Header)]

Remainder(h, b, n) == IF Splits(h, b, n) THEN <<b + n>> ELSE << >>

Answer(ptr, h) == [ptr |-> ptr, heap |-> h]

(* The places in the list of the blocks that are large enough.             *)
first_fit(h, n) == {i \in DOMAIN h.free_list : h.size[h.free_list[i]] >= n}

from_list(h, n) ==
    LET i == Min(first_fit(h, n))
        b == h.free_list[i] IN
    Answer(b + HEADER,
           [split_block(h, b, n) EXCEPT
              !.free_list = SubSeq(@, 1, i - 1) \o Remainder(h, b, n) \o SubSeq(@, i + 1, Len(@))])

from_kernel(h, n) ==
    LET new == request_mem(h, n) IN
    Answer(new.block + HEADER,
           [split_block(new.heap, new.block, n) EXCEPT
              !.free_list = Remainder(new.heap, new.block, n) \o @])

(* What malloc may answer: the first block that fits, else new memory,     *)
(* unless the kernel has none.                                             *)
malloc(h, len) ==
    IF len = 0 THEN {Answer(NULL, h)}
    ELSE IF first_fit(h, need(len)) # {} THEN {from_list(h, need(len))}
    ELSE {Answer(NULL, h)} \cup
         (IF Len(h.arenas) < MaxSbrk THEN {from_kernel(h, need(len))} ELSE {})

(* What a freed block held is nobody's any more.                           *)
free(h, ptr) ==
    [h EXCEPT !.free_list = <<ptr - HEADER>> \o @,
              !.cells = Put(@, ptr, h.size[ptr - HEADER] - HEADER, Junk)]

(* memcpy                                                                  *)
Copy(cells, to, from, len) ==
    [a \in DOMAIN cells \cup to .. to + len - 1 |->
        IF a \in to .. to + len - 1 THEN cells[from + a - to] ELSE cells[a]]

----------------------------------------------------------------------------
(* The calls of a program.  calloc fills with 0, a program that called     *)
(* malloc with a value that no other pointer has.                          *)
Fresh == Min((1 .. MaxLive) \ {p.value : p \in live})

Allocate(len, value) ==
    /\ Cardinality(live) < MaxLive
    /\ \E r \in malloc(heap, len) :
          IF r.ptr = NULL THEN heap' = r.heap /\ UNCHANGED live
          ELSE /\ heap' = [r.heap EXCEPT !.cells = Put(@, r.ptr, len, value)]
               /\ live' = live \cup {[ptr |-> r.ptr, len |-> len, valid |-> len, value |-> value]}

Malloc(len) == Allocate(len, Fresh)
calloc(len) == Allocate(len, 0)

Free(p) ==
    /\ heap' = free(heap, p.ptr)
    /\ live' = live \ {p}

(* realloc: in place when the block is large enough.  When there is no     *)
(* memory the program keeps the old pointer.                               *)
realloc(p, len) ==
    LET old_size == heap.size[p.ptr - HEADER] - HEADER IN
    \/ len = 0 /\ Free(p)
    \/ /\ len \in 1 .. old_size
       /\ live' = (live \ {p}) \cup {[p EXCEPT !.len = len, !.valid = Min({@, len})]}
       /\ UNCHANGED heap
    \/ /\ len > old_size
       /\ \E r \in malloc(heap, len) :
             IF r.ptr = NULL THEN heap' = r.heap /\ UNCHANGED live
             ELSE /\ heap' = free([r.heap EXCEPT !.cells = Copy(@, r.ptr, p.ptr, Min({old_size, len}))], p.ptr)
                  /\ live' = (live \ {p}) \cup {[p EXCEPT !.ptr = r.ptr, !.len = len]}

Next ==
    \/ \E len \in Lens : Malloc(len) \/ calloc(len)
    \/ \E p \in live : Free(p) \/ \E len \in Lens : realloc(p, len)

----------------------------------------------------------------------------
LiveBlocks == {p.ptr - HEADER : p \in live}
Blocks == LiveBlocks \cup ToSet(heap.free_list)
Extent(b) == b .. b + heap.size[b] - 1

(* malloc, free, realloc: every byte from sbrk belongs to one block, which *)
(* is free and once in the list, or the program's.                         *)
BlocksPartition ==
    /\ Cardinality(Blocks) = Cardinality(LiveBlocks) + Len(heap.free_list)
    /\ Cardinality(LiveBlocks) = Cardinality(live)
    /\ \A b, c \in Blocks : b # c => Extent(b) \cap Extent(c) = {}
    /\ UNION {Extent(b) : b \in Blocks} = UNION {a.addr .. a.addr + a.len - 1 : a \in ToSet(heap.arenas)}

(* What a program has is aligned, within its block, and keeps what it was  *)
(* filled with, through splits, frees and moves; so do the headers.        *)
DataKept ==
    /\ \A p \in live :
          /\ p.ptr % ALIGN = 0
          /\ p.ptr .. p.ptr + p.len - 1 \subseteq Extent(p.ptr - HEADER)
          /\ \A k \in 0 .. p.valid - 1 : heap.cells[p.ptr + k] = p.value
    /\ \A b \in Blocks : \A k \in 0 .. HEADER - 1 : heap.cells[b + k] = Header
============================================================================
