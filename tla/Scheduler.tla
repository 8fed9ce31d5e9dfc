----------------------------- MODULE Scheduler -----------------------------
(***************************************************************************)
(* The preemptive scheduler of user tasks (kernel/src/task/scheduler.rs)   *)
(* with the life cycle of a task (kernel/src/task/mod.rs) and the system   *)
(* calls that drive it: sys_exec, sys_wait, sys_exit, the blocking sys_read*)
(* and the timer interrupt.                                                *)
(*                                                                         *)
(* The machine has one CPU.  Every scheduling function disables interrupts,*)
(* changes TASK_SCHED under its lock, drops the tasks it took out of       *)
(* exited_tasks and only then switches stacks.  The model keeps these      *)
(* apart: an action that changes TASK_SCHED sets `switching', and          *)
(* DropAndSwitch is the rest of the function.  Between the two the CPU is  *)
(* still on the stack of the previous task, `cpu'.                         *)
(*                                                                         *)
(* Interrupts stay enabled inside a system call (the flag mask is 0), so a *)
(* task can be preempted between any two steps of sys_exec or sys_wait;    *)
(* `pc' says where it resumes.                                             *)
(***************************************************************************)
EXTENDS Integers, Sequences, VecDeque

CONSTANTS
    MaxTaskId,  \* bound: tasks get the ids 1 .. MaxTaskId
    ExitCodes,  \* the exit codes tasks use
    NoCode      \* Option::None for an exit code

ASSUME MaxTaskIdAssumption == MaxTaskId \in Nat
ASSUME NoCodeAssumption == NoCode \notin ExitCodes

KERNEL == 0
NoTask == -1    \* Option::None for a task id
TaskId == 0 .. MaxTaskId
OptTaskId == TaskId \cup {NoTask}
OptCode == ExitCodes \cup {NoCode}

VARIABLES
    \* TaskScheduler
    ready_queue, current_task, sleeping_tasks, exited_tasks, exit_codes,
    \* the fields of every Task; state "None" before it is pushed to the
    \* ready queue, "Dropped" after its memory is released; exit_status is
    \* the payload of TaskState::Exited
    state, exit_status, parent, children, waiting_for,
    \* TaskId::new's counter
    next_id,
    \* where each task is in its system call, and the id that call holds
    pc, arg,
    \* the task whose stack the CPU is on; interrupts are off and the switch
    \* to current_task is pending; the local `stale' or `old' of the
    \* scheduling function; the kernel has panicked
    cpu, switching, stale, panicked

schedVars == <<ready_queue, current_task, sleeping_tasks, exited_tasks, exit_codes>>
taskVars == <<state, exit_status, parent, children, waiting_for>>
cpuVars == <<cpu, switching, stale, panicked>>
vars == <<schedVars, taskVars, next_id, pc, arg, cpuVars>>

----------------------------------------------------------------------------
(* What find_task_mut can find: it searches the current task, the ready   *)
(* queue and the sleeping tasks.                                           *)
Live == {t \in TaskId : state[t] \in {"Running", "Ready", "Sleeping"}}

Dead == {t \in TaskId : state[t] \in {"Exited", "Dropped"}}

(* The task that executes instructions with interrupts enabled.            *)
Executing(t) == t = current_task /\ ~switching /\ ~panicked

----------------------------------------------------------------------------
(* Definitions named after another one with a suffix (Init_NoKernelTask,   *)
(* RunNext_StaleState, ...) are faulty variants of it, kept to show that   *)
(* the properties notice the fault.  Nothing else uses them.               *)

(* The state scheduler::init leaves: the kernel task runs and nothing else *)
(* exists.                                                                 *)
InitWith(current) ==
    /\ ready_queue = <<>>
    /\ current_task = current
    /\ sleeping_tasks = <<>>
    /\ exited_tasks = {}
    /\ exit_codes = [t \in TaskId |-> NoCode]
    /\ state = [t \in TaskId |-> IF t = KERNEL THEN "Running" ELSE "None"]
    /\ exit_status = [t \in TaskId |-> NoCode]
    /\ parent = [t \in TaskId |-> NoTask]
    /\ children = [t \in TaskId |-> {}]
    /\ waiting_for = [t \in TaskId |-> NoTask]
    /\ next_id = 1
    /\ pc = [t \in TaskId |-> IF t = KERNEL THEN "boot" ELSE "run"]
    /\ arg = [t \in TaskId |-> NoTask]
    /\ cpu = KERNEL
    /\ switching = FALSE
    /\ stale = {}
    /\ panicked = FALSE

Init_NoKernelTask == InitWith(NoTask)

Init == InitWith(KERNEL)

----------------------------------------------------------------------------
(* TaskScheduler's own methods, on the state under the lock.               *)

(* pick_next_task: rotate the ready queue, or keep the current task when   *)
(* nobody else is ready.                                                   *)
pick_next_task_DropsPrev ==
    IF ready_queue = <<>>
    THEN UNCHANGED <<ready_queue, current_task, state>>
    ELSE /\ ready_queue' = Tail(ready_queue)
         /\ current_task' = Head(ready_queue)
         /\ state' = [state EXCEPT ![current_task] = "Ready",
                                   ![Head(ready_queue)] = "Running"]

pick_next_task_PushFront ==
    IF ready_queue = <<>>
    THEN UNCHANGED <<ready_queue, current_task, state>>
    ELSE /\ ready_queue' = push_front(Tail(ready_queue), current_task)
         /\ current_task' = Head(ready_queue)
         /\ state' = [state EXCEPT ![current_task] = "Ready",
                                   ![Head(ready_queue)] = "Running"]

pick_next_task ==
    IF ready_queue = <<>>
    THEN UNCHANGED <<ready_queue, current_task, state>>
    ELSE /\ ready_queue' = Append(Tail(ready_queue), current_task)
         /\ current_task' = Head(ready_queue)
         /\ state' = [state EXCEPT ![current_task] = "Ready",
                                   ![Head(ready_queue)] = "Running"]

(* The end of pick_next_task_on_exit and sleep_current_waiting_for: pop    *)
(* the front of the queue q and make it current; an empty queue fails the  *)
(* expect.  st is the tasks' states at that point.                         *)
RunNext_StaleState(q, st) ==
    /\ panicked' = (q = <<>>)
    /\ ready_queue' = IF q = <<>> THEN q ELSE Tail(q)
    /\ current_task' = IF q = <<>> THEN NoTask ELSE Head(q)
    /\ state' = st

RunNext(q, st) ==
    /\ panicked' = (q = <<>>)
    /\ ready_queue' = IF q = <<>> THEN q ELSE Tail(q)
    /\ current_task' = IF q = <<>> THEN NoTask ELSE Head(q)
    /\ state' = IF q = <<>> THEN st ELSE [st EXCEPT ![Head(q)] = "Running"]

(* The position of the first sleeping task that waits for id.              *)
IsFirstWaiter_Never(i, id) == i = 0 /\ id \in TaskId

IsFirstWaiter(i, id) ==
    /\ waiting_for[sleeping_tasks[i]] = id
    /\ \A j \in 1 .. (i - 1) : waiting_for[sleeping_tasks[j]] # id

(* pick_next_task_on_exit gives the children of the exiting task t to its  *)
(* parent (the kernel task when it has none) and takes t off the children  *)
(* of its parent.  The task itself is in no container by then.             *)
reparent_ParentOnly(t) ==
    LET np == IF parent[t] = NoTask THEN KERNEL ELSE parent[t]
    IN  /\ parent' = [c \in TaskId |-> IF c \in children[t] THEN np ELSE parent[c]]
        /\ children' = [c \in TaskId |->
                          CASE c = t -> {}
                            [] c = parent[t] /\ c # t -> children[c] \ {t}
                            [] OTHER -> children[c]]

reparent(t) ==
    LET found == Live \ {t}
        np == IF parent[t] = NoTask THEN KERNEL ELSE parent[t]
    IN  /\ parent' = [c \in TaskId |->
                        IF c \in children[t] \cap found THEN np ELSE parent[c]]
        /\ children' = [c \in TaskId |->
                          CASE c = t -> {}
                            [] c = np /\ c \in found ->
                                 (children[c] \ (IF c = parent[t] THEN {t} ELSE {}))
                                 \cup children[t]
                            [] OTHER -> children[c]]

(* pick_next_task_on_exit records the exit code in the task and in the map.*)
record_exit(t, code) ==
    /\ exit_status' = [exit_status EXCEPT ![t] = code]
    /\ exit_codes' = [exit_codes EXCEPT ![t] = code]

(* pick_next_task_on_exit takes the earlier exited tasks, to be dropped by *)
(* the caller, before it pushes the exiting one.                           *)
retire_TakesAll(t) == stale' = exited_tasks \cup {t} /\ exited_tasks' = {}

retire(t) == stale' = exited_tasks /\ exited_tasks' = {t}

(* sched and preempt_sched take the exited tasks, to be dropped.           *)
take_stale_Never == stale' = {} /\ exited_tasks' = exited_tasks

take_stale == stale' = exited_tasks /\ exited_tasks' = {}

(* pick_next_task_on_exit: the code is kept for a waiter, one waiter is    *)
(* moved to the front of the ready queue, and the front runs next.         *)
pick_next_task_on_exit(code) ==
    LET t == current_task
        st == [state EXCEPT ![t] = "Exited"]
    IN  /\ reparent(t)
        /\ retire(t)
        /\ record_exit(t, code)
        /\ \/ \E i \in 1 .. Len(sleeping_tasks) :
                /\ IsFirstWaiter(i, t)
                /\ LET w == sleeping_tasks[i]
                   IN  /\ sleeping_tasks' = remove(sleeping_tasks, i)
                       /\ waiting_for' = [waiting_for EXCEPT ![w] = NoTask]
                       /\ RunNext(push_front(ready_queue, w), [st EXCEPT ![w] = "Ready"])
           \/ /\ \A i \in 1 .. Len(sleeping_tasks) : ~IsFirstWaiter(i, t)
              /\ UNCHANGED <<sleeping_tasks, waiting_for>>
              /\ RunNext(ready_queue, st)

(* sleep_current_waiting_for.                                              *)
sleep_current_waiting_for(child_id) ==
    LET t == current_task
    IN  /\ waiting_for' = [waiting_for EXCEPT ![t] = child_id]
        /\ sleeping_tasks' = Append(sleeping_tasks, t)
        /\ RunNext(ready_queue, [state EXCEPT ![t] = "Sleeping"])

----------------------------------------------------------------------------
(* Steps of the current task and of the timer.                             *)

(* preempt_sched, the timer interrupt: the interrupted context is saved    *)
(* and the queue rotated; exited tasks are taken out to be dropped.  With  *)
(* an empty queue the interrupted task simply goes on.                     *)
preempt_sched ==
    /\ Executing(current_task)
    /\ pick_next_task
    /\ take_stale
    /\ switching' = TRUE
    /\ UNCHANGED <<sleeping_tasks, exit_codes, exit_status, parent, children,
                   waiting_for, next_id, pc, arg, cpu, panicked>>

(* sched, called by a user task whose blocking sys_read found nothing to   *)
(* read.  It panics when there is no other task.                           *)
sched(t) ==
    /\ Executing(t)
    /\ t # KERNEL
    /\ pc[t] = "run"
    /\ pick_next_task
    /\ panicked' = (ready_queue = <<>>)
    /\ take_stale
    /\ switching' = TRUE
    /\ UNCHANGED <<sleeping_tasks, exit_codes, exit_status, parent, children,
                   waiting_for, next_id, pc, arg, cpu>>

(* The rest of every scheduling function, with interrupts off: drop the    *)
(* tasks taken out of exited_tasks, then switch to the current task.       *)
DropAndSwitch ==
    /\ switching
    /\ ~panicked
    /\ state' = [t \in TaskId |-> IF t \in stale THEN "Dropped" ELSE state[t]]
    /\ stale' = {}
    /\ cpu' = current_task
    /\ switching' = FALSE
    /\ UNCHANGED <<schedVars, exit_status, parent, children, waiting_for,
                   next_id, pc, arg, panicked>>

(* sys_exec up to the end of Task::new: the id of the new task is taken.   *)
(* The kernel task does this once, for the init application.               *)
spawn_user_task_new(t) ==
    /\ Executing(t)
    /\ pc[t] = IF t = KERNEL THEN "boot" ELSE "run"
    /\ next_id <= MaxTaskId
    /\ next_id' = next_id + 1
    /\ arg' = [arg EXCEPT ![t] = next_id]
    /\ pc' = [pc EXCEPT ![t] = "spawn"]
    /\ UNCHANGED <<schedVars, taskVars, cpuVars>>

(* The critical section of spawn_user_task: the new task is pushed to the  *)
(* back of the ready queue and recorded as a child of the current task.    *)
spawn_user_task_push(t) ==
    LET id == arg[t]
    IN  /\ Executing(t)
        /\ pc[t] = "spawn"
        /\ ready_queue' = Append(ready_queue, id)
        /\ state' = [state EXCEPT ![id] = "Ready"]
        /\ parent' = [parent EXCEPT ![id] = t]
        /\ children' = [children EXCEPT ![t] = @ \cup {id}]
        /\ arg' = [arg EXCEPT ![t] = NoTask]
        /\ pc' = [pc EXCEPT ![t] = "run"]
        /\ UNCHANGED <<current_task, sleeping_tasks, exited_tasks, exit_codes,
                       exit_status, waiting_for, next_id, cpuVars>>

(* exit_current: sys_exit, a fault in user code, or ^C seen at the entry   *)
(* of a system call.                                                       *)
exit_current(t, code) ==
    /\ Executing(t)
    /\ t # KERNEL
    /\ pc[t] = "run"
    /\ pick_next_task_on_exit(code)
    /\ switching' = TRUE
    /\ UNCHANGED <<next_id, pc, arg, cpu>>

(* try_sleep_current_waiting_for sleeps only if the code is not there yet. *)
HasExitCode_Unchecked(pid) == pid \notin TaskId

HasExitCode(pid) == exit_codes[pid] # NoCode

(* sys_wait, first part: sleep_waiting_for.  The check for the exit code   *)
(* and the sleep are one critical section; a task that finds the code does *)
(* not sleep.                                                              *)
sleep_waiting_for(t, pid) ==
    /\ Executing(t)
    /\ t # KERNEL
    /\ pc[t] = "run"
    /\ pc' = [pc EXCEPT ![t] = "wait"]
    /\ arg' = [arg EXCEPT ![t] = pid]
    /\ \/ /\ HasExitCode(pid)
          /\ UNCHANGED <<ready_queue, current_task, sleeping_tasks, state,
                         waiting_for, switching, panicked>>
       \/ /\ ~HasExitCode(pid)
          /\ sleep_current_waiting_for(pid)
          /\ switching' = TRUE
    /\ UNCHANGED <<exited_tasks, exit_codes, exit_status, parent, children,
                   next_id, cpu, stale>>

(* sys_wait, second part: take_exit_code in a critical section of its own. *)
(* It fails with NotFound when the code is gone.                           *)
take_exit_code(t) ==
    /\ Executing(t)
    /\ pc[t] = "wait"
    /\ exit_codes' = [exit_codes EXCEPT ![arg[t]] = NoCode]
    /\ pc' = [pc EXCEPT ![t] = "run"]
    /\ arg' = [arg EXCEPT ![t] = NoTask]
    /\ UNCHANGED <<ready_queue, current_task, sleeping_tasks, exited_tasks,
                   taskVars, next_id, cpuVars>>

----------------------------------------------------------------------------
(* Everything but sys_wait, whose pid argument is left to the caller.      *)
Step(t) ==
    \/ sched(t)
    \/ spawn_user_task_new(t)
    \/ spawn_user_task_push(t)
    \/ \E code \in ExitCodes : exit_current(t, code)
    \/ take_exit_code(t)

(* Any pid may be passed to sys_wait: the code does not check it.          *)
Next ==
    \/ preempt_sched
    \/ DropAndSwitch
    \/ \E t \in TaskId : Step(t) \/ \E pid \in TaskId : sleep_waiting_for(t, pid)

Spec == Init /\ [][Next]_vars

(* The shell's discipline: a task waits only for a task it spawned itself  *)
(* (or inherited) and whose code nobody has taken.                         *)
Collected(id) == exit_status[id] # NoCode /\ exit_codes[id] = NoCode

ParentWaits(t, pid) ==
    /\ parent[pid] = t
    /\ ~Collected(pid)
    /\ sleep_waiting_for(t, pid)

NextParentWaits ==
    \/ preempt_sched
    \/ DropAndSwitch
    \/ \E t \in TaskId : Step(t) \/ \E pid \in TaskId : ParentWaits(t, pid)

(* The timer keeps firing and kernel code with interrupts off completes;   *)
(* the second half of sys_wait completes when its task gets the CPU.       *)
(* User code is not obliged to do anything.                                *)
Fairness ==
    /\ WF_vars(preempt_sched)
    /\ WF_vars(DropAndSwitch)
    /\ \A t \in TaskId : SF_vars(take_exit_code(t))

FairSpec == Spec /\ Fairness

ParentWaitsSpec == Init /\ [][NextParentWaits]_vars /\ Fairness

----------------------------------------------------------------------------
(* The fields of TaskScheduler and of every Task are well typed.           *)
TypeOK ==
    /\ ready_queue \in Seq(TaskId)
    /\ current_task \in OptTaskId
    /\ sleeping_tasks \in Seq(TaskId)
    /\ exited_tasks \in SUBSET TaskId
    /\ exit_codes \in [TaskId -> OptCode]
    /\ state \in [TaskId -> {"None", "Running", "Ready", "Sleeping", "Exited", "Dropped"}]
    /\ exit_status \in [TaskId -> OptCode]
    /\ parent \in [TaskId -> OptTaskId]
    /\ children \in [TaskId -> SUBSET TaskId]
    /\ waiting_for \in [TaskId -> OptTaskId]
    /\ next_id \in 1 .. (MaxTaskId + 1)
    /\ pc \in [TaskId -> {"boot", "run", "spawn", "wait"}]
    /\ arg \in [TaskId -> OptTaskId]
    /\ cpu \in TaskId
    /\ switching \in BOOLEAN
    /\ stale \in SUBSET TaskId
    /\ panicked \in BOOLEAN

(* Every task is in exactly one place and its state field says which: the  *)
(* pick_next_task functions move boxes between current_task, the two       *)
(* queues and exited_tasks and set the state separately, so /proc and      *)
(* find_task are right only if the two never drift apart.  Only a sleeping *)
(* task has waiting_for set.                                               *)
OneHome ==
    /\ \A t \in TaskId :
         /\ state[t] = "Running" <=> t = current_task
         /\ state[t] = "Ready" <=> contains(ready_queue, t)
         /\ state[t] = "Sleeping" <=> contains(sleeping_tasks, t)
         /\ state[t] = "Exited" <=> t \in exited_tasks \cup stale
         /\ state[t] = "Sleeping" <=> waiting_for[t] # NoTask
    /\ NoDuplicates(ready_queue)
    /\ NoDuplicates(sleeping_tasks)

(* No expect of the scheduler fails and sched never reaches its panic:     *)
(* whenever a user task exits, sleeps or yields there is a task to run.    *)
NoPanic == ~panicked

(* The live tasks form a tree rooted at the kernel task, seen the same     *)
(* from both ends (parent and children), although every exit moves the     *)
(* children of the exiting task.  Parents have smaller ids, so there is no *)
(* cycle.                                                                  *)
ProcessTree ==
    /\ KERNEL \in Live
    /\ \A t \in Live \ {KERNEL} :
         /\ parent[t] \in Live
         /\ parent[t] < t
         /\ t \in children[parent[t]]
    /\ \A t \in Live : \A c \in children[t] : c \in Live /\ parent[c] = t

(* The stack, page table and Context of the task the CPU is on are not     *)
(* released: exit_current keeps running on the stack of the exited task    *)
(* until switch_to, while it drops others.                                 *)
NoUseAfterFree ==
    /\ state[cpu] # "Dropped"
    /\ cpu \notin stale
    /\ state[current_task] # "Dropped"

(* The memory of exited tasks does not pile up: one can wait in            *)
(* exited_tasks while one more is about to be dropped.                     *)
ExitedMemoryBound ==
    /\ \A s, t \in exited_tasks : s = t
    /\ \A s, t \in stale : s = t

(* A code is kept only for a task that has exited, and it is the code that *)
(* task exited with.                                                       *)
ExitCodesSound ==
    \A t \in TaskId : exit_codes[t] # NoCode =>
        t \in Dead /\ exit_codes[t] = exit_status[t]

(* The inductive invariant behind the properties above.  What it adds: the *)
(* kernel task is always runnable, so a user task that gives up the CPU    *)
(* leaves somebody in the ready queue; an id taken by TaskId::new belongs  *)
(* to no task until the one spawn that holds it pushes it; only live tasks *)
(* have children; between scheduling functions the CPU is on the current   *)
(* task and no dropped task is pending.                                    *)
KernelRunnable == state[KERNEL] \in {"Running", "Ready"}

FreshIds ==
    /\ \A t \in TaskId : t >= next_id => state[t] = "None"
    /\ \A t \in TaskId : t \notin Live => children[t] = {}
    /\ \A t \in TaskId : pc[t] = "wait" => arg[t] \in TaskId
    /\ \A t \in TaskId : pc[t] = "spawn" =>
         /\ t \in Live
         /\ arg[t] \in TaskId
         /\ t < arg[t] /\ arg[t] < next_id
         /\ state[arg[t]] = "None"
    /\ \A s, t \in TaskId :
         pc[s] = "spawn" /\ pc[t] = "spawn" /\ arg[s] = arg[t] => s = t

SwitchOK ==
    /\ current_task \in TaskId
    /\ ~switching => cpu = current_task /\ stale = {}
    /\ exited_tasks \cap stale = {}

IInv ==
    /\ TypeOK
    /\ NoPanic
    /\ OneHome
    /\ KernelRunnable
    /\ FreshIds
    /\ SwitchOK
    /\ ProcessTree
    /\ NoUseAfterFree
    /\ ExitedMemoryBound
    /\ ExitCodesSound

(* With the shell's discipline nobody sleeps for a task that has already   *)
(* exited, because the check for the code and the sleep are one critical   *)
(* section and the exit wakes the waiter; and a sys_wait that has stopped  *)
(* waiting finds the code, although it takes it in a second critical       *)
(* section.                                                                *)
WaitSound ==
    \A t \in TaskId :
        /\ state[t] = "Sleeping" => waiting_for[t] \in Live
        /\ pc[t] = "wait" /\ state[t] \in {"Running", "Ready"} => exit_codes[arg[t]] # NoCode

(* What makes WaitSound inductive, with IInv: a task that waits for a pid  *)
(* is its parent and remains so, hence the only one that takes its code;   *)
(* the code it waits for has not been taken; and the exit status, which    *)
(* outlives the code, is there from the exit on.                           *)
WaitInv ==
    /\ \A t \in TaskId : state[t] = "Sleeping" => pc[t] = "wait" /\ waiting_for[t] = arg[t]
    /\ \A t \in TaskId : pc[t] = "wait" => t \in Live /\ parent[arg[t]] = t /\ ~Collected(arg[t])
    /\ \A t \in TaskId : exit_status[t] # NoCode <=> t \in Dead
    /\ \A t \in TaskId : parent[t] # NoTask => state[t] # "None"

(* Round robin: a ready task gets the CPU.                                 *)
ReadyRuns ==
    \A t \in TaskId : state[t] = "Ready" ~> state[t] = "Running"

(* The memory of an exited task is released.                               *)
ExitedDropped ==
    \A t \in TaskId : state[t] = "Exited" ~> state[t] = "Dropped"

(* No task waits forever for the scheduler, neither for the processor nor  *)
(* to be released.                                                         *)
TasksGoOn == ReadyRuns /\ ExitedDropped

(* A sys_wait for a task that exits returns (libc's README: "Waits for the *)
(* process with the given pid to exit").                                   *)
WaitReturns ==
    \A t, c \in TaskId :
        (pc[t] = "wait" /\ arg[t] = c /\ c \in Dead) ~> (pc[t] = "run")
=============================================================================
