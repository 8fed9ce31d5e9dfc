------------------------------- MODULE Mutex -------------------------------
(* sync/mutex.rs on the one processor of the kernel.  A lock turns the     *)
(* interrupts off before it takes the mutex, and its guard turns them back *)
(* to what they were when it is dropped; disabled_int and the schedulers'  *)
(* read_with_cli do the same without a mutex.  An interrupt handler runs   *)
(* on top of the task it interrupted, and may leave another task running.  *)
(*                                                                         *)
(* A context is a task or the handler.  The guards of a context are        *)
(* dropped in the reverse order of their creation, and a task gives up the *)
(* processor, or waits in stihlt, only while it holds no mutex: so it is   *)
(* at every call in src/.  The instructions of a lock and of a drop are    *)
(* separate steps, so that an interrupt may come between any two.          *)
EXTENDS Naturals, Sequences

CONSTANTS Tasks, Mutexes, Handler, NoMutex, MaxDepth

MutexAssumption == Handler \notin Tasks /\ NoMutex \notin Mutexes

Contexts == Tasks \cup {Handler}
Sections == [mutex : Mutexes \cup {NoMutex}, saved : BOOLEAN]

VARIABLES
    IF_,            \* the interrupt flag of the processor
    locked,         \* the mutexes whose flag is set
    guards,         \* per context, its guards, the latest last
    call,           \* per context, the lock or the drop it is in the middle of
    running,        \* the task on the processor, or under the handler
    in_handler,     \* whether the handler runs
    rflags          \* per task, the flag in the context saved for it

vars == <<IF_, locked, guards, call, running, in_handler, rflags>>

Calls == [op : {"try_lock", "spin_lock"}, mutex : Mutexes, saved : BOOLEAN]
            \cup [op : {"drop"}, mutex : {NoMutex}, saved : BOOLEAN]
NoCall == [op |-> "none", mutex |-> NoMutex, saved |-> FALSE]

Current == IF in_handler THEN Handler ELSE running

MutexesOf(g) == {g[i].mutex : i \in 1 .. Len(g)} \ {NoMutex}
Held(c) == MutexesOf(guards[c])

Init ==
    /\ IF_ = TRUE /\ locked = {} /\ in_handler = FALSE
    /\ guards = [c \in Contexts |-> << >>]
    /\ call = [c \in Contexts |-> NoCall]
    /\ running \in Tasks
    /\ rflags = [t \in Tasks |-> TRUE]

Idle == call[Current] = NoCall
Unchanged == UNCHANGED <<running, in_handler, rflags>>

(* try_lock and spin_lock read the flags and turn the interrupts off.  A   *)
(* context does not spin for a mutex it holds itself.                      *)
read_with_cli(op, m) ==
    /\ Idle /\ Len(guards[Current]) < MaxDepth
    /\ op = "spin_lock" => m \notin Held(Current)
    /\ call' = [call EXCEPT ![Current] = [op |-> op, mutex |-> m, saved |-> IF_]]
    /\ IF_' = FALSE
    /\ UNCHANGED <<locked, guards>> /\ Unchanged

(* The compare_exchange that succeeds makes the guard.                     *)
acquire ==
    LET c == call[Current] IN
    /\ c.op \in {"try_lock", "spin_lock"} /\ c.mutex \notin locked
    /\ locked' = locked \cup {c.mutex}
    /\ guards' = [guards EXCEPT ![Current] = Append(@, [mutex |-> c.mutex, saved |-> c.saved])]
    /\ call' = [call EXCEPT ![Current] = NoCall]
    /\ UNCHANGED IF_ /\ Unchanged

(* One that fails ends try_lock, and lets spin_lock try again.             *)
fail ==
    LET c == call[Current] IN
    /\ c.op = "try_lock" /\ c.mutex \in locked
    /\ IF_' = c.saved
    /\ call' = [call EXCEPT ![Current] = NoCall]
    /\ UNCHANGED <<locked, guards>> /\ Unchanged

(* A guard that restores the flags before it releases the mutex.           *)
drop_FlagsFirst ==
    LET g == guards[Current] IN
    /\ Idle /\ g # << >> /\ g[Len(g)].mutex # NoMutex
    /\ IF_' = g[Len(g)].saved
    /\ UNCHANGED <<call, guards, locked>> /\ Unchanged

(* MutexGuard::drop stores false, then restores the flags.                 *)
drop ==
    LET g == guards[Current] IN
    /\ Idle /\ g # << >> /\ g[Len(g)].mutex # NoMutex
    /\ locked' = locked \ {g[Len(g)].mutex}
    /\ guards' = [guards EXCEPT ![Current] = SubSeq(g, 1, Len(g) - 1)]
    /\ call' = [call EXCEPT ![Current] =
                    [op |-> "drop", mutex |-> NoMutex, saved |-> g[Len(g)].saved]]
    /\ UNCHANGED IF_ /\ Unchanged

restore ==
    /\ call[Current].op = "drop"
    /\ IF_' = call[Current].saved
    /\ call' = [call EXCEPT ![Current] = NoCall]
    /\ UNCHANGED <<locked, guards>> /\ Unchanged

(* disabled_int around a closure, and read_with_cli in sched.              *)
disable ==
    /\ Idle /\ Len(guards[Current]) < MaxDepth
    /\ guards' = [guards EXCEPT ![Current] = Append(@, [mutex |-> NoMutex, saved |-> IF_])]
    /\ IF_' = FALSE
    /\ UNCHANGED <<locked, call>> /\ Unchanged

enable ==
    LET g == guards[Current] IN
    /\ Idle /\ g # << >> /\ g[Len(g)].mutex = NoMutex
    /\ IF_' = (IF_ \/ g[Len(g)].saved)
    /\ guards' = [guards EXCEPT ![Current] = SubSeq(g, 1, Len(g) - 1)]
    /\ UNCHANGED <<locked, call>> /\ Unchanged

(* The processor takes an interrupt through an interrupt gate.             *)
interrupt ==
    /\ IF_ /\ ~in_handler
    /\ in_handler' = TRUE /\ IF_' = FALSE
    /\ UNCHANGED <<locked, guards, call, running, rflags>>

HandlerDone == in_handler /\ Idle /\ guards[Handler] = << >>

(* The handler returns to the task it interrupted, whose flag was set, or  *)
(* preempt_sched stores that task's flags and leaves another one running.  *)
iretq ==
    /\ HandlerDone
    /\ in_handler' = FALSE /\ IF_' = TRUE
    /\ UNCHANGED <<locked, guards, call, running, rflags>>

preempt_sched(t) ==
    /\ HandlerDone /\ t # running
    /\ rflags' = [rflags EXCEPT ![running] = TRUE]
    /\ in_handler' = FALSE /\ running' = t /\ IF_' = rflags[t]
    /\ UNCHANGED <<locked, guards, call>>

(* switch_to, which sched and its kin call with the interrupts off, after  *)
(* the guard of the scheduler is dropped.                                  *)
switch_to(t) ==
    /\ ~in_handler /\ Idle /\ t # running
    /\ Held(running) = {} /\ guards[running] # << >>
    /\ rflags' = [rflags EXCEPT ![running] = IF_]
    /\ running' = t /\ IF_' = rflags[t]
    /\ UNCHANGED <<locked, guards, call, in_handler>>

(* A task waits for the next interrupt.                                    *)
stihlt ==
    /\ ~in_handler /\ Idle /\ guards[running] = << >>
    /\ IF_' = TRUE
    /\ UNCHANGED <<locked, guards, call>> /\ Unchanged

Next ==
    \/ \E m \in Mutexes : read_with_cli("try_lock", m) \/ read_with_cli("spin_lock", m)
    \/ acquire \/ fail \/ drop \/ restore \/ disable \/ enable
    \/ interrupt \/ iretq \/ stihlt
    \/ \E t \in Tasks : preempt_sched(t) \/ switch_to(t)

Spec == Init /\ [][Next]_vars

----------------------------------------------------------------------------
TypeOK ==
    /\ IF_ \in BOOLEAN /\ in_handler \in BOOLEAN
    /\ locked \subseteq Mutexes
    /\ guards \in [Contexts -> Seq(Sections)]
    /\ call \in [Contexts -> Calls \cup {NoCall}]
    /\ running \in Tasks
    /\ rflags \in [Tasks -> BOOLEAN]

(* A mutex that is locked is held by the context on the processor, which   *)
(* cannot be interrupted: no handler and no other task ever meets a lock   *)
(* of sync/mutex.rs in the middle of its critical section.                 *)
HeldHere ==
    /\ locked = Held(Current)
    /\ locked # {} => ~IF_
    /\ \A c \in Contexts \ {Current} : Held(c) = {} /\ call[c] = NoCall

(* spin_lock never spins, and try_lock returns Locked only to a context    *)
(* that holds the mutex itself.                                            *)
NeverSpins ==
    call[Current].op \in {"try_lock", "spin_lock"} /\ call[Current].mutex \in locked
        => call[Current].op = "try_lock" /\ call[Current].mutex \in Held(Current)

(* The flags come back: the sections a context is in have saved the flag   *)
(* in the order they were entered, so that leaving the last of them leaves *)
(* the interrupts as they were before the first one.  The task that was    *)
(* interrupted had them on.                                                *)
FlagsNest ==
    \A c \in Contexts :
        /\ \A i \in 2 .. Len(guards[c]) : ~guards[c][i].saved
        /\ c = Handler => ~call[c].saved /\ (guards[c] # << >> => ~guards[c][1].saved)
        /\ c = Current /\ (guards[c] # << >> \/ call[c].op # "none") => ~IF_
        /\ call[c].op # "none" /\ guards[c] # << >> => ~call[c].saved

(* No context holds two guards of a mutex, or spins for one it holds.      *)
Distinct ==
    \A c \in Contexts :
        /\ call[c].op = "spin_lock" => call[c].mutex \notin Held(c)
        /\ \A i, j \in 1 .. Len(guards[c]) :
              i # j /\ guards[c][i].mutex # NoMutex => guards[c][i].mutex # guards[c][j].mutex

(* A task that the handler interrupted, or that is resumed with the        *)
(* interrupts on, is in no section.                                        *)
Suspended ==
    /\ in_handler => ~IF_ /\ guards[running] = << >>
    /\ \A t \in Tasks \ {running} : rflags[t] => guards[t] = << >>

(* The inductive invariant behind HeldHere and NeverSpins.               *)
IInv == TypeOK /\ HeldHere /\ FlagsNest /\ Distinct /\ Suspended

(* The locks of sync/mutex.rs do what the critical sections of the kernel  *)
(* rely on: while a mutex is locked its holder runs and no interrupt       *)
(* comes, nobody else ever waits for it, and every section restores the    *)
(* interrupt flag it found.                                                *)
HolderRuns == HeldHere /\ NeverSpins /\ FlagsNest
=============================================================================
