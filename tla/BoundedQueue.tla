---------------------------- MODULE BoundedQueue ----------------------------
(* What the drivers expect of util/fifo.rs: a first-in first-out queue     *)
(* that holds at most Capacity values.  The answer of a call is part of    *)
(* what it promises: a full queue refuses, an empty one has nothing.       *)
EXTENDS Naturals, Sequences

CONSTANTS Values, Capacity

VARIABLES queue, answer

Init == queue = << >> /\ answer = <<"none">>

Put(v) ==
    IF Len(queue) < Capacity
    THEN queue' = Append(queue, v) /\ answer' = <<"Ok">>
    ELSE queue' = queue /\ answer' = <<"BufferFull">>

Take ==
    IF queue # << >>
    THEN queue' = Tail(queue) /\ answer' = <<"value", Head(queue)>>
    ELSE queue' = queue /\ answer' = <<"BufferEmpty">>

Clear == queue' = << >> /\ answer' = <<"reset">>

Next == (\E v \in Values : Put(v)) \/ Take \/ Clear

Spec == Init /\ [][Next]_<<queue, answer>>
=============================================================================
