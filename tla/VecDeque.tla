------------------------------ MODULE VecDeque ------------------------------
(***************************************************************************)
(* The operations of alloc::collections::VecDeque the kernel's queues use, *)
(* on sequences: push_back is Append, front and pop_front are Head and     *)
(* Tail.  The module extends nothing but the standard modules, so that the *)
(* proofs about its users keep small contexts.                             *)
(***************************************************************************)
EXTENDS Integers, Sequences

(* VecDeque::push_front.                                                   *)
push_front(q, e) == <<e>> \o q

(* VecDeque::remove, with the index starting at 1.                         *)
remove(q, i) == SubSeq(q, 1, i - 1) \o SubSeq(q, i + 1, Len(q))

(* VecDeque::contains, and iter().any(|x| x == e).                         *)
contains(q, e) == \E i \in 1 .. Len(q) : q[i] = e

(* The queue holds every element at most once.                             *)
NoDuplicates(q) == \A i, j \in 1 .. Len(q) : q[i] = q[j] => i = j
=============================================================================
