--------------------------- MODULE AsyncExecutor ---------------------------
(***************************************************************************)
(* The cooperative executor of the kernel's own tasks (task/async_task.rs):*)
(* three queues of futures, polled from the main loop and from the timer   *)
(* interrupt.  Executor::poll is followed task by task: queue is the one   *)
(* its outer loop is at, left how often the inner loop still runs.  The    *)
(* executor is locked and interrupts are off until the call is over, so    *)
(* nothing else happens between its steps; the polled futures never spawn, *)
(* and how each of them answers is a free choice.                          *)
(***************************************************************************)
EXTENDS Naturals, Sequences, FiniteSets

CONSTANTS
    DriverTasks, \* the futures that are ever spawned
    priority,    \* the Priority each is spawned with
    CountWrap    \* the number of values of poll_count

Priority == {"High", "Normal", "Low"}

(* A usize has 2^64 values, a multiple of the divisors poll uses.          *)
ASSUME ExecutorAssumption ==
    /\ IsFiniteSet(DriverTasks)
    /\ priority \in [DriverTasks -> Priority]
    /\ CountWrap \in Nat \ {0} /\ CountWrap % 4 = 0

VARIABLES
    task_queues,  \* [Priority -> Seq(DriverTasks)]
    is_ready,
    poll_count,
    queue,        \* the queue that poll is at, "none" between two calls
    left,         \* runs of its inner loop that remain
    spawned,      \* history: tasks spawned so far
    done,         \* history: tasks whose future is complete
    age           \* history: calls of poll each task has waited through

execVars == <<task_queues, is_ready, poll_count, queue, left, spawned, done, age>>

ExecInit ==
    /\ task_queues = [p \in Priority |-> <<>>]
    /\ is_ready = FALSE
    /\ poll_count = 0
    /\ queue = "none" /\ left = 0
    /\ spawned = {}
    /\ done = {}
    /\ age = [t \in DriverTasks |-> 0]

(* try_lock succeeds: no call of poll is under way.                        *)
unlocked == queue = "none"

spawn(t) ==
    /\ unlocked
    /\ t \notin spawned
    /\ task_queues' = [task_queues EXCEPT ![priority[t]] = Append(@, t)]
    /\ spawned' = spawned \cup {t}
    /\ UNCHANGED <<is_ready, poll_count, queue, left, done, age>>

(* ready, called once when the first tasks are spawned.                    *)
ready ==
    /\ unlocked
    /\ ~is_ready
    /\ is_ready' = TRUE
    /\ poll_count' = 0
    /\ UNCHANGED <<task_queues, queue, left, spawned, done, age>>

(* poll_count.wrapping_add(1)                                              *)
next_count == (poll_count + 1) % CountWrap

Stride(p) == CASE p = "High" -> 1 [] p = "Normal" -> 2 [] p = "Low" -> 4

(* How many tasks of the queue of priority p the n-th call polls: none     *)
(* when it skips the queue, and pop_front of an empty queue gives none.    *)
count(p, n) ==
    LET len == Len(task_queues[p]) IN
    IF n % Stride(p) # 0 THEN 0
    ELSE IF p = "High" \/ len = 0 THEN len ELSE 1

(* A call of poll begins: every task that waits has waited one call more.  *)
poll ==
    /\ unlocked
    /\ is_ready
    /\ poll_count' = next_count
    /\ queue' = "High" /\ left' = count("High", next_count)
    /\ age' = [t \in DriverTasks |-> IF t \in spawned \ done THEN age[t] + 1 ELSE age[t]]
    /\ UNCHANGED <<task_queues, is_ready, spawned, done>>

requeued_InFront(waiting, t, pending) == IF pending THEN <<t>> \o waiting ELSE waiting

requeued_KeepsFinished(waiting, t, pending) == Append(waiting, t)

(* The task t was popped; if it is pending it is pushed to the back.       *)
requeued(waiting, t, pending) == IF pending THEN Append(waiting, t) ELSE waiting

(* One run of the inner loop.                                              *)
poll_task(pending) ==
    LET t == Head(task_queues[queue]) IN
    /\ ~unlocked
    /\ left > 0
    /\ task_queues' = [task_queues EXCEPT ![queue] = requeued(Tail(@), t, pending)]
    /\ left' = left - 1
    /\ done' = IF pending THEN done ELSE done \cup {t}
    /\ age' = [age EXCEPT ![t] = 0]
    /\ UNCHANGED <<is_ready, poll_count, queue, spawned>>

(* The inner loop is over: the next queue, or the end of the call.         *)
next_queue ==
    /\ ~unlocked
    /\ left = 0
    /\ queue' = CASE queue = "High" -> "Normal" [] queue = "Normal" -> "Low" [] OTHER -> "none"
    /\ left' = IF queue' = "none" THEN 0 ELSE count(queue', poll_count)
    /\ UNCHANGED <<task_queues, is_ready, poll_count, spawned, done, age>>

ExecNext ==
    \/ \E t \in DriverTasks : spawn(t)
    \/ ready
    \/ poll
    \/ \E pending \in BOOLEAN : poll_task(pending)
    \/ next_queue

ExecSpec == ExecInit /\ [][ExecNext]_execVars

----------------------------------------------------------------------------
ExecTypeOK ==
    /\ task_queues \in [Priority -> Seq(DriverTasks)]
    /\ is_ready \in BOOLEAN
    /\ poll_count \in 0 .. CountWrap - 1
    /\ queue \in Priority \cup {"none"}
    /\ left \in Nat
    /\ done \subseteq spawned /\ spawned \subseteq DriverTasks
    /\ age \in [DriverTasks -> Nat]

OfPriority(p) == {t \in DriverTasks : priority[t] = p}

(* Every task that is not done waits exactly once, in the queue of its     *)
(* priority: popping and pushing back neither loses nor doubles a future.  *)
EveryTaskOnce ==
    \A t \in DriverTasks, p \in Priority :
        Cardinality({i \in DOMAIN task_queues[p] : task_queues[p][i] = t})
            = IF p = priority[t] /\ t \in spawned \ done THEN 1 ELSE 0

(* No task starves: between two calls, one of high priority has been       *)
(* polled by the last call, and the tasks of the other priorities take     *)
(* turns every second or fourth call, also when poll_count wraps.          *)
NotStarved ==
    unlocked =>
        \A t \in spawned \ done :
            age[t] < Stride(priority[t]) *
                IF priority[t] = "High" THEN 1 ELSE Cardinality(OfPriority(priority[t]))

(* A spawned task that has not finished is in one queue, once, and         *)
(* Executor::poll reaches every task of a queue in turn.                   *)
TasksInTurn == ExecTypeOK /\ EveryTaskOnce /\ NotStarved

----------------------------------------------------------------------------
(* The inductive invariant: what TasksInTurn is proved from.               *)

(* The queue q of priority p holds the tasks of that priority that are in  *)
(* waiting, none twice.                                                    *)
Holds(q, p, waiting) ==
    /\ \A i \in 1 .. Len(q) : q[i] \in waiting /\ priority[q[i]] = p
    /\ \A i, j \in 1 .. Len(q) : q[i] = q[j] => i = j
    /\ \A t \in waiting : priority[t] = p => \E i \in 1 .. Len(q) : q[i] = t

QueuesHold == \A p \in Priority : Holds(task_queues[p], p, spawned \ done)

(* The call under way has still to come to, or to finish, the queue of p.  *)
ahead(p) ==
    \/ p = "High" /\ queue = "High"
    \/ p = "Normal" /\ (queue = "High" \/ (queue = "Normal" /\ left > 0))
    \/ p = "Low" /\ (queue \in {"High", "Normal"} \/ (queue = "Low" /\ left > 0))

(* The calls since poll last came to the queue of p, the one under way     *)
(* counted in while it is ahead.                                           *)
since(p) ==
    IF ahead(p) /\ poll_count % Stride(p) = 0 THEN Stride(p) ELSE poll_count % Stride(p)

(* The further a task is from the front, the less it has waited.           *)
WaitBounded ==
    \A p \in {"Normal", "Low"} : \A i \in 1 .. Len(task_queues[p]) :
        age[task_queues[p][i]] + i * Stride(p)
            <= Stride(p) * Cardinality(OfPriority(p)) + since(p)

(* In the queue of high priority only the tasks that the call has not      *)
(* come to have waited, for this call.                                     *)
HighPolled ==
    \A i \in 1 .. Len(task_queues["High"]) :
        age[task_queues["High"][i]] <= IF queue = "High" /\ i <= left THEN 1 ELSE 0

ExecInv ==
    /\ ExecTypeOK
    /\ QueuesHold
    /\ WaitBounded
    /\ HighPolled
    /\ ~is_ready => queue = "none" /\ poll_count = 0
    /\ queue = "none" => left = 0
    /\ queue # "none" => left <= Len(task_queues[queue])
    /\ queue \in {"Normal", "Low"} /\ left > 0 => left = 1 /\ poll_count % Stride(queue) = 0
    /\ \A t \in DriverTasks \ spawned : age[t] = 0
=============================================================================
