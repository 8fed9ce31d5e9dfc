------------------------------- MODULE Paging -------------------------------
(* Address spaces (arch/x86_64/paging.rs) and the memory of user tasks     *)
(* (task/mod.rs, sys_sbrk and sys_free).  The kernel maps every frame to   *)
(* the address it has.  A user task begins with a copy of the kernel's top *)
(* table, and gets its own copy of a lower table before an entry of it is  *)
(* changed.  System calls run in the address space of the task that makes  *)
(* them: the kernel reaches a frame through that task's tables.            *)
(*                                                                         *)
(* Pages and frames are numbered; a table has FANOUT entries, and there    *)
(* are LEVELS of them (512 and 4 in the code).  An entry is [p, us, addr]; *)
(* all are writable.                                                       *)
EXTENDS Naturals, FiniteSets, FiniteSetsExt, Functions, SequencesExt

CONSTANTS
    FANOUT, LEVELS,
    NFrames,       \* frames 1 .. NFrames are handed out
    Tasks,         \* user tasks
    Programs,      \* what is loaded: sequences of segments [page, len]
    Lens           \* the frames of an sbrk

Pages == 0 .. FANOUT ^ LEVELS - 1
Frames == 1 .. NFrames

PagingAssumption ==
    /\ NFrames < FANOUT ^ LEVELS
    /\ \A prog \in Programs : \A i \in DOMAIN prog :
          prog[i].page > NFrames /\ prog[i].page + prog[i].len - 1 \in Pages

VARIABLES
    table,         \* frame -> its entries, for the frames that hold a table
    used,          \* the frames that are handed out
    task,          \* the resources of each user task
    current,       \* the task that runs: its tables are in CR3
    unmapped,      \* the pages each task has unmapped since it was made
    halted         \* how the kernel has stopped: "no", "fault" or "leaked"

vars == <<table, used, task, current, unmapped, halted>>

Kernel == "kernel"
Unborn == [state |-> "none", pml4 |-> 0, owned |-> {}, frames |-> {}, alloc |-> {}]

index(page, level) == (page \div FANOUT ^ level) % FANOUT

Absent == [p |-> FALSE, us |-> FALSE, addr |-> 0]
Zeroed == [i \in 0 .. FANOUT - 1 |-> Absent]

(* alloc_mem_frame: the first run of free frames, or 0.                    *)
Runs(taken, n) == {f \in Frames : f + n - 1 <= NFrames /\ (f .. f + n - 1) \cap taken = {}}
alloc_mem_frame(taken, n) == IF Runs(taken, n) = {} THEN 0 ELSE Min(Runs(taken, n))

----------------------------------------------------------------------------
(* What an operation works on: the tables, the frames handed out, the      *)
(* frames of the address space it changes (allocated_frames), the frames   *)
(* the kernel has written to, and whether no allocation has failed.        *)
Work(owned) ==
    [table |-> table, used |-> used, owned |-> owned, written |-> {}, ok |-> TRUE]

Set(m, t, i, entry) == [m EXCEPT !.table[t][i] = entry]

(* A new frame with the given entries, as a table of the address space.    *)
NewTable(m, entries) ==
    LET f == alloc_mem_frame(m.used, 1) IN
    IF f = 0 THEN [m EXCEPT !.ok = FALSE]
    ELSE [table |-> (f :> entries) @@ m.table, used |-> m.used \cup {f}, owned |-> m.owned \cup {f},
          written |-> m.written \cup {f}, ok |-> m.ok]

(* A table that is there is used, whoever's it is.                         *)
ensure_task_table_Shared(m, t, i) ==
    LET e == m.table[t][i]
        n == NewTable(m, Zeroed)
        f == alloc_mem_frame(m.used, 1)
    IN  IF ~m.ok THEN m
        ELSE IF e.p THEN Set(m, t, i, [e EXCEPT !.us = TRUE])
        ELSE IF n.ok THEN Set(n, t, i, [p |-> TRUE, us |-> TRUE, addr |-> f]) ELSE n

(* A table that is missing is made, one of another address space copied.   *)
ensure_task_table(m, t, i) ==
    LET e == m.table[t][i]
        n == NewTable(m, IF e.p THEN m.table[e.addr] ELSE Zeroed)
        f == alloc_mem_frame(m.used, 1)
    IN  IF ~m.ok THEN m
        ELSE IF e.p /\ e.addr \in m.owned THEN Set(m, t, i, [e EXCEPT !.us = TRUE])
        ELSE IF n.ok THEN Set(n, t, i, [p |-> TRUE, us |-> TRUE, addr |-> f]) ELSE n

(* One page of UserPageTable::map.                                         *)
map_page(m, root, page, frame) ==
    LET Down(acc, level) ==
            IF ~acc.m.ok THEN acc
            ELSE LET n == ensure_task_table(acc.m, acc.t, index(page, level)) IN
                 [m |-> n, t |-> IF n.ok THEN n.table[acc.t][index(page, level)].addr ELSE 0]
        end == FoldLeft(Down, [m |-> m, t |-> root], [k \in 1 .. LEVELS - 1 |-> LEVELS - k])
    IN  IF ~end.m.ok THEN end.m
        ELSE Set(end.m, end.t, index(page, 0), [p |-> TRUE, us |-> TRUE, addr |-> frame])

map(m, root, page, frame, len) ==
    FoldLeft(LAMBDA acc, k : map_page(acc, root, page + k, frame + k), m, [k \in 1 .. len |-> k - 1])

(* The entry of a page (lookup_pte), and whether every entry on the way to *)
(* it, itself included, lets user mode through.                            *)
walk(tables, root, page) ==
    LET Down(acc, level) ==
            LET e == tables[acc.e.addr][index(page, level)] IN
            IF ~acc.e.p THEN acc ELSE [e |-> e, us |-> acc.us /\ e.us]
    IN  FoldLeft(Down, [e |-> [p |-> TRUE, us |-> TRUE, addr |-> root], us |-> TRUE],
                 [k \in 1 .. LEVELS |-> LEVELS - k])

(* The kernel's own tables, in frames of their own that are never given    *)
(* back: kernel_init maps every frame but the first to itself.             *)
KernelTables ==
    LET Path(level, page) == page \div FANOUT ^ level
        nodes == UNION {{<<level, Path(level + 1, f)>> : f \in Frames} : level \in 0 .. LEVELS - 1}
        number(n) == NFrames + 1 + n[1] * FANOUT ^ LEVELS + n[2]
    IN  [t \in {number(n) : n \in nodes} |->
            LET n == CHOOSE x \in nodes : number(x) = t IN
            [i \in 0 .. FANOUT - 1 |->
                LET below == n[2] * FANOUT + i IN
                IF n[1] = 0 THEN IF below \in Frames THEN [p |-> TRUE, us |-> FALSE, addr |-> below]
                                 ELSE Absent
                ELSE IF <<n[1] - 1, below>> \in nodes
                     THEN [p |-> TRUE, us |-> FALSE, addr |-> number(<<n[1] - 1, below>>)]
                     ELSE Absent]]

kernel_page_table == NFrames + 1 + (LEVELS - 1) * FANOUT ^ LEVELS

cr3 == IF current = Kernel THEN kernel_page_table ELSE task[current].pml4

(* The kernel can write to these frames at their own addresses.            *)
Reached(fs) == \A f \in fs : walk(table, cr3, f).e = [p |-> TRUE, us |-> walk(table, cr3, f).e.us, addr |-> f]

Init ==
    /\ table = KernelTables
    /\ used = {}
    /\ task = [t \in Tasks |-> Unborn]
    /\ current = Kernel
    /\ unmapped = [t \in Tasks |-> {}]
    /\ halted = "no"

----------------------------------------------------------------------------
(* Task::new: the address space with a copy of the kernel's top table,     *)
(* then every segment, the stack and the arguments are given frames, which *)
(* are cleared, and mapped.  A frame that was taken before an allocation   *)
(* fails is dropped without being given back, and its drop panics; the     *)
(* page table gives back its own.                                          *)
Taken(acc, page, len, root) ==
    LET f == alloc_mem_frame(acc.m.used, len)
        at == IF page = 0 THEN f ELSE page
        run == f .. f + len - 1
        m == [acc.m EXCEPT !.used = @ \cup run, !.written = @ \cup run]
    IN  IF ~acc.m.ok THEN acc
        ELSE IF f = 0 THEN [acc EXCEPT !.m.ok = FALSE]
        ELSE [m |-> map(m, root, at, f, len), frames |-> acc.frames \cup run]

(* Segments, then the stack and the arguments, which stay at their address *)
Wanted(prog) == prog \o <<[page |-> 0, len |-> 1], [page |-> 0, len |-> 1]>>

spawn_user_task(t, prog) ==
    LET top == NewTable(Work({}), table[kernel_page_table])
        root == alloc_mem_frame(used, 1)
        end == FoldLeft(LAMBDA acc, s : Taken(acc, s.page, s.len, root),
                        [m |-> top, frames |-> {}], Wanted(prog))
    IN
    /\ halted = "no" /\ task[t].state = "none"
    /\ IF ~Reached(end.m.written)
       THEN halted' = "fault" /\ UNCHANGED <<table, used, task, unmapped>>
       ELSE IF end.m.ok
       THEN /\ table' = end.m.table /\ used' = end.m.used
            /\ task' = [task EXCEPT ![t] = [state |-> "ready", pml4 |-> root,
                                            owned |-> end.m.owned \ {root},
                                            frames |-> end.frames, alloc |-> {}]]
            /\ unmapped' = [unmapped EXCEPT ![t] = {}]
            /\ UNCHANGED halted
       ELSE /\ halted' = IF end.frames = {} THEN "no" ELSE "leaked"
            /\ UNCHANGED <<table, used, task, unmapped>>
    /\ UNCHANGED current

(* sys_sbrk: the frames are not cleared.  When a table cannot be had, the  *)
(* frames are dropped, too.                                                *)
sys_sbrk(n) ==
    LET t == current
        f == alloc_mem_frame(used, n)
        m == map([Work(task[t].owned) EXCEPT !.used = @ \cup (f .. f + n - 1)], task[t].pml4, f, f, n)
    IN
    /\ halted = "no" /\ current # Kernel
    /\ f # 0
    /\ IF ~Reached(m.written)
       THEN halted' = "fault" /\ UNCHANGED <<table, used, task, unmapped>>
       ELSE IF m.ok
       THEN /\ table' = m.table /\ used' = m.used
            /\ task' = [task EXCEPT ![t].owned = m.owned, ![t].alloc = @ \cup {[start |-> f, len |-> n]}]
            /\ unmapped' = [unmapped EXCEPT ![t] = @ \ (f .. f + n - 1)]
            /\ UNCHANGED halted
       ELSE halted' = "leaked" /\ UNCHANGED <<table, used, task, unmapped>>
    /\ UNCHANGED current

(* UserPageTable::unmap of a frame's own address clears the entry: the     *)
(* kernel's mapping of the frame does not come back.                       *)
unmap(tables, root, page) ==
    LET Down(acc, level) ==
            LET e == tables[acc][index(page, level)] IN IF e.p THEN e.addr ELSE 0
        t == FoldLeft(Down, root, [k \in 1 .. LEVELS - 1 |-> LEVELS - k])
    IN  [tables EXCEPT ![t][index(page, 0)] = Absent]

(* sys_free                                                                *)
sys_free(a) ==
    LET t == current
        run == a.start .. a.start + a.len - 1
    IN
    /\ halted = "no" /\ current # Kernel
    /\ a \in task[t].alloc
    /\ table' = FoldLeft(LAMBDA tables, k : unmap(tables, task[t].pml4, a.start + k), table,
                         [k \in 1 .. a.len |-> k - 1])
    /\ used' = used \ run
    /\ task' = [task EXCEPT ![t].alloc = @ \ {a}]
    /\ unmapped' = [unmapped EXCEPT ![t] = @ \cup run]
    /\ UNCHANGED <<current, halted>>

(* Another task runs.                                                      *)
sched(t) ==
    /\ halted = "no" /\ t # current
    /\ t # Kernel => task[t].state = "ready"
    /\ current' = t
    /\ UNCHANGED <<table, used, task, unmapped, halted>>

(* exit_current                                                            *)
sys_exit ==
    /\ halted = "no" /\ current # Kernel
    /\ task' = [task EXCEPT ![current].state = "exited"]
    /\ current' = Kernel
    /\ UNCHANGED <<table, used, unmapped, halted>>

AllocFrames(t) == UNION {a.start .. a.start + a.len - 1 : a \in task[t].alloc}
Tables(t) == task[t].owned \cup {task[t].pml4}

(* The page table is dropped with its top table only.                      *)
dropped_PmlOnly(t) == task[t].frames \cup AllocFrames(t) \cup {task[t].pml4}

(* What the drop of a TaskResource gives back, its page table's included   *)
dropped(t) == task[t].frames \cup AllocFrames(t) \cup Tables(t)

(* The task that runs next drops it.                                       *)
drop(t) ==
    /\ halted = "no" /\ task[t].state = "exited"
    /\ table' = [f \in DOMAIN table \ Tables(t) |-> table[f]]
    /\ used' = used \ dropped(t)
    /\ task' = [task EXCEPT ![t] = Unborn]
    /\ unmapped' = [unmapped EXCEPT ![t] = {}]
    /\ UNCHANGED <<current, halted>>

Next ==
    \/ \E t \in Tasks : drop(t) \/ \E prog \in Programs : spawn_user_task(t, prog)
    \/ \E t \in Tasks \cup {Kernel} : sched(t)
    \/ \E n \in Lens : sys_sbrk(n)
    \/ \E t \in Tasks : \E a \in task[t].alloc : t = current /\ sys_free(a)
    \/ sys_exit

----------------------------------------------------------------------------
Alive == {t \in Tasks : task[t].state # "none"}
Memory(t) == task[t].frames \cup AllocFrames(t)

(* The kernel's tables are never changed on behalf of a task, and a page   *)
(* that user mode reaches is a frame the task was given for itself: never  *)
(* a table, a frame of another task or one that was given back.            *)
SpacesApart ==
    /\ \A k \in DOMAIN KernelTables : table[k] = KernelTables[k]
    /\ \A t \in Alive : \A page \in Pages :
          LET w == walk(table, task[t].pml4, page) IN
          w.e.p /\ w.us => w.e.addr \in Memory(t)

(* Each frame handed out is in one place: memory or table of one task, and *)
(* all of a task's frames come back when it is dropped.                    *)
FramesAccounted ==
    /\ used = UNION {Memory(t) \cup Tables(t) : t \in Alive}
    /\ \A t \in Alive : /\ Memory(t) \cap Tables(t) = {}
                        /\ \A s \in Alive \ {t} : (Memory(t) \cup Tables(t)) \cap (Memory(s) \cup Tables(s)) = {}

(* In the address space of a task the kernel reaches every frame at its    *)
(* own address, but for those the task has freed; so that it faults only   *)
(* in a system call of a task that has.                                    *)
KernelReaches ==
    /\ \A t \in Alive : \A f \in Frames \ unmapped[t] :
          walk(table, task[t].pml4, f).e.p /\ walk(table, task[t].pml4, f).e.addr = f
    /\ halted = "fault" => current # Kernel /\ unmapped[current] # {}
=============================================================================
