-------------------------------- MODULE Fifo --------------------------------
(* The ring of util/fifo.rs: an array of SIZE values with a read and a     *)
(* write pointer, one slot of which stays free.  The driver that owns it   *)
(* holds its lock (or has the only reference) in every call, so that each  *)
(* operation is a step and the compare_exchange of a pointer cannot fail.  *)
(* The operations are operators on a ring, for the drivers that hold one,  *)
(* and the actions of a ring of its own.                                   *)
EXTENDS Naturals, Sequences

CONSTANTS Values, Default, SIZE

ASSUME FifoAssumption == SIZE \in Nat \ {0} /\ Default \in Values

VARIABLES fifo, answer

Rings == [buf : [0 .. SIZE - 1 -> Values], read_ptr : 0 .. SIZE - 1, write_ptr : 0 .. SIZE - 1]

new == [buf |-> [i \in 0 .. SIZE - 1 |-> Default], read_ptr |-> 0, write_ptr |-> 0]

len(f) == (f.write_ptr + SIZE - f.read_ptr) % SIZE

(* The ring is taken to be full only when every slot holds a value.        *)
is_full_OffByOne(f) == len(f) = SIZE

is_full(f) == (f.write_ptr + 1) % SIZE = f.read_ptr

is_empty(f) == f.read_ptr = f.write_ptr

reset_ptr(f) == [buf |-> f.buf, read_ptr |-> 0, write_ptr |-> 0]

(* The ring after enqueue(v): BufferFull leaves it as it is.               *)
enqueue(f, v) ==
    IF is_full(f) THEN f
    ELSE [buf |-> [f.buf EXCEPT ![f.write_ptr] = v],
          read_ptr |-> f.read_ptr, write_ptr |-> (f.write_ptr + 1) % SIZE]

(* The ring after dequeue, which returns front(f) unless the ring is empty. *)
dequeue(f) ==
    IF is_empty(f) THEN f
    ELSE [buf |-> f.buf, read_ptr |-> (f.read_ptr + 1) % SIZE, write_ptr |-> f.write_ptr]

front(f) == f.buf[f.read_ptr]

FifoInit == fifo = new /\ answer = <<"none">>

enqueue_step(v) ==
    /\ fifo' = enqueue(fifo, v)
    /\ answer' = IF is_full(fifo) THEN <<"BufferFull">> ELSE <<"Ok">>

dequeue_step ==
    /\ fifo' = dequeue(fifo)
    /\ answer' = IF is_empty(fifo) THEN <<"BufferEmpty">> ELSE <<"value", front(fifo)>>

reset_step == fifo' = reset_ptr(fifo) /\ answer' = <<"reset">>

FifoNext == (\E v \in Values : enqueue_step(v)) \/ dequeue_step \/ reset_step

fifoVars == <<fifo, answer>>

FifoSpec == FifoInit /\ [][FifoNext]_fifoVars

----------------------------------------------------------------------------
FifoTypeOK == fifo \in Rings

(* The values between the pointers, oldest first.                          *)
Contents(f) == [i \in 1 .. len(f) |-> f.buf[(f.read_ptr + i - 1) % SIZE]]

Q == INSTANCE BoundedQueue WITH queue <- Contents(fifo), Capacity <- SIZE - 1

(* The ring of util/fifo.rs is a queue of SIZE - 1 values: enqueue and     *)
(* dequeue keep the order across the wrap of the pointers, a full ring     *)
(* refuses and an empty one has nothing, and no value is lost or repeated. *)
IsQueue == Q!Spec
=============================================================================
