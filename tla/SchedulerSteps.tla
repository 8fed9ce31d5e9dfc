-------------------------- MODULE SchedulerSteps ---------------------------
(***************************************************************************)
(* What the operations of VecDeque do to the elements of a queue.          *)
(* Scheduling, spawning and the two halves of sys_wait keep the inductive  *)
(* invariant IInv of Scheduler, for every number of tasks and every set of *)
(* exit codes, and the process tree survives the exit of a task.  The exit *)
(* itself and the theorems are in SchedulerProofs.                         *)
(***************************************************************************)
EXTENDS Scheduler, TLAPS

(* What each operation does to the set of elements of a queue, and that it *)
(* keeps a queue free of repetitions: push_back.                           *)
LEMMA PushBack ==
    ASSUME NEW S, NEW q \in Seq(S), NoDuplicates(q), NEW x \in S, ~contains(q, x)
    PROVE  /\ Append(q, x) \in Seq(S)
           /\ NoDuplicates(Append(q, x))
           /\ \A t : contains(Append(q, x), t) <=> contains(q, t) \/ t = x
BY DEF NoDuplicates, contains

(* pop_front.                                                              *)
LEMMA PopFront ==
    ASSUME NEW S, NEW q \in Seq(S), NoDuplicates(q), q # <<>>
    PROVE  /\ Head(q) \in S
           /\ contains(q, Head(q))
           /\ Tail(q) \in Seq(S)
           /\ NoDuplicates(Tail(q))
           /\ \A t : contains(Tail(q), t) <=> contains(q, t) /\ t # Head(q)
<1>1. /\ Len(q) \in Nat \ {0}
      /\ Head(q) = q[1]
      /\ Tail(q) \in Seq(S)
      /\ Len(Tail(q)) = Len(q) - 1
      /\ \A i \in 1 .. Len(Tail(q)) : Tail(q)[i] = q[i + 1]
  OBVIOUS
<1>2. DOMAIN q = 1 .. Len(q) /\ DOMAIN Tail(q) = 1 .. Len(Tail(q))
  BY <1>1
<1>3. NoDuplicates(Tail(q))
  BY <1>1, <1>2 DEF NoDuplicates
<1>4. \A t : contains(Tail(q), t) => contains(q, t) /\ t # Head(q)
  BY <1>1, <1>2 DEF NoDuplicates, contains
<1>5. ASSUME NEW t, contains(q, t), t # Head(q)
      PROVE  contains(Tail(q), t)
  <2>1. PICK i \in 1 .. Len(q) : q[i] = t
    BY <1>5 DEF contains
  <2>2. i - 1 \in 1 .. Len(Tail(q)) /\ Tail(q)[i - 1] = t
    BY <1>1, <1>5, <2>1
  <2> QED
    BY <2>2 DEF contains
<1>6. Head(q) \in S /\ contains(q, Head(q))
  BY <1>1 DEF contains
<1> QED
  BY <1>1, <1>3, <1>4, <1>5, <1>6

(* Concatenation, on which remove is built.                                *)
LEMMA Concatenation ==
    ASSUME NEW S, NEW a \in Seq(S), NEW b \in Seq(S)
    PROVE  /\ a \o b \in Seq(S)
           /\ Len(a \o b) = Len(a) + Len(b)
           /\ \A j \in 1 .. Len(a) : (a \o b)[j] = a[j]
           /\ \A j \in 1 .. Len(b) : (a \o b)[Len(a) + j] = b[j]
<1>1. a \o b \in Seq(S)
  OBVIOUS
<1>2. Len(a \o b) = Len(a) + Len(b)
  OBVIOUS
<1>3. \A j \in 1 .. Len(a) : (a \o b)[j] = a[j]
  OBVIOUS
<1>4. \A j \in 1 .. Len(b) : (a \o b)[Len(a) + j] = b[j]
  OBVIOUS
<1> QED
  BY <1>1, <1>2, <1>3, <1>4

(* remove(i).                                                              *)
LEMMA RemoveIndex ==
    ASSUME NEW S, NEW q \in Seq(S), NoDuplicates(q), NEW i \in 1 .. Len(q)
    PROVE  /\ q[i] \in S
           /\ contains(q, q[i])
           /\ remove(q, i) \in Seq(S)
           /\ NoDuplicates(remove(q, i))
           /\ \A t : contains(remove(q, i), t) <=> contains(q, t) /\ t # q[i]
<1> DEFINE r == remove(q, i)
<1>1. /\ r \in Seq(S)
      /\ Len(r) = Len(q) - 1
      /\ \A j \in 1 .. Len(r) : r[j] = IF j < i THEN q[j] ELSE q[j + 1]
  <2> DEFINE a == SubSeq(q, 1, i - 1)
             b == SubSeq(q, i + 1, Len(q))
  <2>1. a \in Seq(S) /\ Len(a) = i - 1 /\ \A j \in 1 .. i - 1 : a[j] = q[j]
    OBVIOUS
  <2>2. b \in Seq(S) /\ Len(b) = Len(q) - i /\ \A j \in 1 .. Len(q) - i : b[j] = q[i + j]
    OBVIOUS
  <2>3. r = a \o b
    BY DEF remove
  <2> HIDE DEF a, b, r
  <2>4. /\ r \in Seq(S) /\ Len(r) = Len(q) - 1 /\ Len(q) \in Nat
        /\ \A j \in 1 .. i - 1 : r[j] = a[j]
        /\ \A j \in 1 .. Len(q) - i : r[i - 1 + j] = b[j]
    <3>1. /\ a \o b \in Seq(S)
          /\ Len(a \o b) = Len(a) + Len(b)
          /\ \A j \in 1 .. Len(a) : (a \o b)[j] = a[j]
          /\ \A j \in 1 .. Len(b) : (a \o b)[Len(a) + j] = b[j]
      <4>1. a \in Seq(S) /\ b \in Seq(S)
        BY <2>1, <2>2
      <4> QED
        BY <4>1, Concatenation
    <3> QED
      <4>1. Len(a) \in Nat /\ Len(b) \in Nat /\ Len(q) \in Nat
        BY <2>1, <2>2
      <4>2. r \in Seq(S) /\ Len(r) = Len(q) - 1
        BY <2>1, <2>2, <2>3, <3>1, <4>1
      <4>3. \A j \in 1 .. i - 1 : r[j] = a[j]
        BY <2>1, <2>3, <3>1
      <4>4. \A j \in 1 .. Len(q) - i : r[i - 1 + j] = b[j]
        BY <2>1, <2>2, <2>3, <3>1
      <4> QED
        BY <4>1, <4>2, <4>3, <4>4
  <2>5. ASSUME NEW j \in 1 .. Len(r), j < i
        PROVE  r[j] = q[j]
    BY <2>1, <2>4, <2>5
  <2>6. ASSUME NEW j \in 1 .. Len(r), ~(j < i)
        PROVE  r[j] = q[j + 1]
    <3>1. j - (i - 1) \in 1 .. Len(q) - i /\ r[j] = b[j - (i - 1)]
      <4> DEFINE k == j - (i - 1)
      <4>1. k \in 1 .. Len(q) - i /\ i - 1 + k = j
        BY <2>4, <2>6
      <4>2. r[i - 1 + k] = b[k]
        BY <2>4, <4>1
      <4> QED
        BY <4>1, <4>2
    <3>2. b[j - (i - 1)] = q[i + (j - (i - 1))]
      BY Zenon, <2>2, <3>1
    <3> QED
      BY <3>1, <3>2
  <2> QED
    BY <2>4, <2>5, <2>6
<1> HIDE DEF r
<1>2. NoDuplicates(r)
  <2>1. DOMAIN r = 1 .. Len(r) /\ DOMAIN q = 1 .. Len(q) /\ Len(q) \in Nat
    BY <1>1
  <2>2. SUFFICES ASSUME NEW j \in 1 .. Len(r), NEW k \in 1 .. Len(r), r[j] = r[k]
                 PROVE  j = k
    BY <2>1 DEF NoDuplicates
  <2>3. \A m, n \in 1 .. Len(q) : q[m] = q[n] => m = n
    BY <2>1 DEF NoDuplicates
  <2> DEFINE from(m) == IF m < i THEN m ELSE m + 1
  <2>4. r[j] = q[from(j)] /\ r[k] = q[from(k)]
    BY <1>1
  <2>5. from(j) \in 1 .. Len(q) /\ from(k) \in 1 .. Len(q)
    BY <1>1, <2>1
  <2>6. from(j) = from(k)
    <3> HIDE DEF from
    <3> QED
      BY Zenon, <2>2, <2>3, <2>4, <2>5
  <2> QED
    BY <2>6
<1>3. \A t : contains(r, t) => contains(q, t) /\ t # q[i]
  BY <1>1 DEF NoDuplicates, contains
<1>4. ASSUME NEW t, contains(q, t), t # q[i]
      PROVE  contains(r, t)
  <2>1. PICK j \in 1 .. Len(q) : q[j] = t
    BY <1>4 DEF contains
  <2>2. CASE j < i
    BY <1>1, <2>1, <2>2 DEF contains
  <2>3. CASE j > i
    <3>1. j - 1 \in 1 .. Len(r) /\ r[j - 1] = t
      BY <1>1, <2>1, <2>3
    <3> QED
      BY <3>1 DEF contains
  <2> QED
    BY <1>4, <2>1, <2>2, <2>3
<1>5. q[i] \in S /\ contains(q, q[i])
  BY DEF contains
<1> QED
  BY <1>1, <1>2, <1>3, <1>4, <1>5 DEF r

(* push_front, then pop_front.                                             *)
LEMMA PushFront ==
    ASSUME NEW S, NEW q \in Seq(S), NEW x \in S
    PROVE  push_front(q, x) # <<>> /\ Head(push_front(q, x)) = x /\ Tail(push_front(q, x)) = q
<1>1. /\ push_front(q, x) \in Seq(S)
      /\ Len(push_front(q, x)) = Len(q) + 1
      /\ push_front(q, x)[1] = x
      /\ \A j \in 1 .. Len(q) : push_front(q, x)[j + 1] = q[j]
  BY DEF push_front
<1>2. push_front(q, x) # <<>> /\ Head(push_front(q, x)) = x
  BY <1>1
<1>3. Tail(push_front(q, x)) \in Seq(S) /\ Len(Tail(push_front(q, x))) = Len(q)
  BY <1>1, <1>2
<1>4. \A j \in 1 .. Len(q) : Tail(push_front(q, x))[j] = q[j]
  BY <1>1, <1>2, <1>3
<1> QED
  BY <1>2, <1>3, <1>4

----------------------------------------------------------------------------

(* A user task that runs leaves the kernel task in the ready queue.        *)
LEMMA SomebodyReady ==
    ASSUME OneHome, KernelRunnable, current_task # KERNEL
    PROVE  ready_queue # <<>>
<1>1. KERNEL \in TaskId
  BY MaxTaskIdAssumption DEF KERNEL, TaskId
<1>2. contains(ready_queue, KERNEL)
  BY <1>1 DEF OneHome, KernelRunnable
<1> QED
  BY <1>2 DEF contains

(* What pick_next_task does to the two queues and the states.              *)
LEMMA PickNext ==
    ASSUME IInv, pick_next_task
    PROVE  /\ ready_queue' \in Seq(TaskId)
           /\ NoDuplicates(ready_queue')
           /\ current_task' \in TaskId
           /\ \A t \in TaskId : contains(ready_queue, t) =>
                contains(ready_queue', t) \/ t = current_task'
           /\ \A t \in TaskId : contains(ready_queue', t) <=> state'[t] = "Ready"
           /\ \A t \in TaskId : t = current_task' <=> state'[t] = "Running"
           /\ state' \in [TaskId -> {"None", "Running", "Ready", "Sleeping",
                                     "Exited", "Dropped"}]
           /\ \A t \in TaskId : \/ state'[t] = state[t]
                                \/ /\ state[t] \in {"Running", "Ready"}
                                   /\ state'[t] \in {"Running", "Ready"}
<1> USE DEF IInv, TypeOK, SwitchOK
<1>1. CASE ready_queue = <<>>
  BY <1>1 DEF pick_next_task, OneHome
<1>2. CASE ready_queue # <<>>
  <2> DEFINE h == Head(ready_queue)
             r == Tail(ready_queue)
  <2>1. /\ h \in TaskId
        /\ contains(ready_queue, h)
        /\ r \in Seq(TaskId)
        /\ NoDuplicates(r)
        /\ \A t : contains(r, t) <=> contains(ready_queue, t) /\ t # h
    BY <1>2, PopFront DEF OneHome
  <2>2. state[h] = "Ready" /\ state[current_task] = "Running" /\ h # current_task
    BY <2>1 DEF OneHome
  <2>3. ~contains(r, current_task)
    BY <2>1, <2>2 DEF OneHome
  <2> HIDE DEF h, r
  <2>4. /\ Append(r, current_task) \in Seq(TaskId)
        /\ NoDuplicates(Append(r, current_task))
        /\ \A t : contains(Append(r, current_task), t) <=> contains(r, t) \/ t = current_task
    BY <2>1, <2>3, PushBack
  <2>5. /\ ready_queue' = Append(r, current_task)
        /\ current_task' = h
        /\ state' = [state EXCEPT ![current_task] = "Ready", ![h] = "Running"]
    BY <1>2 DEF pick_next_task, h, r
  <2> QED
    BY <2>1, <2>2, <2>4, <2>5, Zenon DEF OneHome
<1> QED
  BY <1>1, <1>2

(* The part of the invariant about states is kept by a rotation of the     *)
(* ready queue that takes the exited tasks out: sched and preempt_sched.   *)
LEMMA Rotation ==
    ASSUME IInv, ~switching, pick_next_task, take_stale, switching' = TRUE,
           panicked' = FALSE,
           UNCHANGED <<sleeping_tasks, exit_codes, exit_status, parent, children,
                       waiting_for, next_id, pc, arg, cpu>>
    PROVE  IInv'
<1> USE DEF IInv
<1>1. stale' = exited_tasks /\ exited_tasks' = {} /\ stale = {} /\ cpu = current_task
  BY DEF take_stale, SwitchOK
<1>2. Live' = Live /\ Dead' = Dead
  BY PickNext DEF Live, Dead
<1>3. TypeOK'
  BY PickNext, <1>1, Zenon DEF TypeOK, OptTaskId
<1>4. NoPanic'
  BY DEF NoPanic
<1>5. OneHome'
  BY PickNext, <1>1 DEF OneHome, TypeOK
<1>6. KernelRunnable'
  <2>1. KERNEL \in TaskId
    BY MaxTaskIdAssumption DEF KERNEL, TaskId
  <2> QED
    BY PickNext, <2>1 DEF KernelRunnable
<1>7. FreshIds'
  <2>1. \A t \in TaskId : state[t] = "None" => state'[t] = "None"
    BY PickNext
  <2> QED
    BY <1>2, <2>1 DEF FreshIds, TypeOK
<1>8. SwitchOK'
  BY PickNext, <1>1 DEF SwitchOK
<1>9. ProcessTree'
  BY <1>2 DEF ProcessTree
<1>10. NoUseAfterFree'
  BY PickNext, <1>1 DEF NoUseAfterFree, SwitchOK, OneHome, TypeOK
<1>11. ExitedMemoryBound'
  BY <1>1 DEF ExitedMemoryBound
<1>12. ExitCodesSound'
  BY <1>2 DEF ExitCodesSound
<1> QED
  BY <1>3, <1>4, <1>5, <1>6, <1>7, <1>8, <1>9, <1>10, <1>11, <1>12

(* Dropping the stale tasks and switching stacks keeps the invariant.      *)
LEMMA Switch ==
    ASSUME IInv, DropAndSwitch
    PROVE  IInv'
<1> USE DEF IInv
<1>1. \A t \in TaskId : \/ state'[t] = state[t] /\ t \notin stale
                        \/ state'[t] = "Dropped" /\ state[t] = "Exited" /\ t \in stale
  BY DEF DropAndSwitch, OneHome
<1>2. Live' = Live /\ Dead' = Dead
  BY <1>1 DEF Live, Dead
<1>3. TypeOK'
  BY Zenon DEF DropAndSwitch, TypeOK, SwitchOK, schedVars
<1>4. NoPanic'
  BY DEF NoPanic, DropAndSwitch
<1>5. OneHome'
  BY <1>1 DEF OneHome, TypeOK, DropAndSwitch, schedVars, SwitchOK
<1>6. KernelRunnable'
  <2>1. KERNEL \in TaskId
    BY MaxTaskIdAssumption DEF KERNEL, TaskId
  <2> QED
    BY <1>1, <2>1 DEF KernelRunnable
<1>7. FreshIds'
  BY <1>1, <1>2 DEF FreshIds, TypeOK, DropAndSwitch
<1>8. SwitchOK'
  BY DEF SwitchOK, DropAndSwitch, schedVars
<1>9. ProcessTree'
  BY <1>2 DEF ProcessTree, DropAndSwitch
<1>10. NoUseAfterFree'
  BY <1>1 DEF NoUseAfterFree, SwitchOK, OneHome, TypeOK, DropAndSwitch, schedVars
<1>11. ExitedMemoryBound'
  BY SMTT(30) DEF ExitedMemoryBound, DropAndSwitch, schedVars
<1>12. ExitCodesSound'
  BY <1>2 DEF ExitCodesSound, DropAndSwitch, schedVars
<1> QED
  BY <1>3, <1>4, <1>5, <1>6, <1>7, <1>8, <1>9, <1>10, <1>11, <1>12

(* Taking a fresh id keeps the invariant.                                  *)
LEMMA SpawnNew ==
    ASSUME IInv, NEW t \in TaskId, spawn_user_task_new(t)
    PROVE  IInv'
<1> USE DEF IInv
<1>0. /\ ready_queue' = ready_queue /\ current_task' = current_task
      /\ sleeping_tasks' = sleeping_tasks /\ exited_tasks' = exited_tasks
      /\ exit_codes' = exit_codes /\ state' = state /\ exit_status' = exit_status
      /\ parent' = parent /\ children' = children /\ waiting_for' = waiting_for
      /\ cpu' = cpu /\ stale' = stale /\ UNCHANGED <<switching, panicked>>
      /\ arg' = [arg EXCEPT ![t] = next_id]
      /\ pc' = [pc EXCEPT ![t] = "spawn"]
  BY DEF spawn_user_task_new, schedVars, taskVars, cpuVars
<1>1. next_id \in TaskId /\ next_id' = next_id + 1 /\ t < next_id /\ t \in Live
  <2>1. state[t] = "Running" /\ t \in Live
    BY DEF spawn_user_task_new, Executing, OneHome, Live
  <2>2. next_id \in TaskId
    BY MaxTaskIdAssumption DEF spawn_user_task_new, TypeOK, TaskId
  <2> QED
    BY <2>1, <2>2 DEF spawn_user_task_new, FreshIds, TaskId
<1>2. Live' = Live /\ Dead' = Dead
  BY <1>0 DEF Live, Dead
<1>3. TypeOK'
  <2>1. next_id' \in 1 .. (MaxTaskId + 1)
    BY <1>1, MaxTaskIdAssumption DEF TaskId, spawn_user_task_new, TypeOK
  <2>2. /\ arg' \in [TaskId -> OptTaskId]
        /\ pc' \in [TaskId -> {"boot", "run", "spawn", "wait"}]
    BY <1>0, <1>1 DEF TypeOK, OptTaskId
  <2> QED
    BY <1>0, <2>1, <2>2 DEF TypeOK
<1>4. NoPanic' /\ OneHome' /\ KernelRunnable' /\ SwitchOK'
  BY <1>0 DEF NoPanic, OneHome, KernelRunnable, SwitchOK
<1>5. FreshIds'
  <2>1. \A s \in TaskId : s >= next_id' => state'[s] = "None"
    BY <1>0, <1>1 DEF FreshIds, TaskId
  <2>2. \A s \in TaskId : s # t => pc'[s] = pc[s] /\ arg'[s] = arg[s]
    BY <1>0 DEF TypeOK
  <2>3. pc'[t] = "spawn" /\ arg'[t] = next_id
    BY <1>0 DEF TypeOK
  <2>4. state[next_id] = "None"
    BY <1>1 DEF FreshIds, TaskId
  <2>5. \A s \in TaskId : s \notin Live' => children'[s] = {}
    BY <1>0, <1>2 DEF FreshIds
  <2>6. \A s \in TaskId : pc'[s] = "wait" => arg'[s] \in TaskId
    BY <2>2, <2>3 DEF FreshIds
  <2>7. \A s \in TaskId : pc'[s] = "spawn" =>
          s \in Live' /\ arg'[s] \in TaskId /\ s < arg'[s] /\ arg'[s] < next_id'
          /\ state'[arg'[s]] = "None"
    BY <1>0, <1>1, <1>2, <2>2, <2>3, <2>4 DEF FreshIds, TaskId
  <2>8. \A s \in TaskId : s # t /\ pc[s] = "spawn" => arg[s] # next_id
    BY <1>1 DEF FreshIds, TaskId
  <2>9. \A r, s \in TaskId :
          pc'[r] = "spawn" /\ pc'[s] = "spawn" /\ arg'[r] = arg'[s] => r = s
    BY <2>2, <2>3, <2>8 DEF FreshIds
  <2> QED
    BY <2>1, <2>5, <2>6, <2>7, <2>9, SMTT(30) DEF FreshIds
<1>6. ProcessTree' /\ NoUseAfterFree' /\ ExitedMemoryBound' /\ ExitCodesSound'
  BY <1>0, <1>2 DEF ProcessTree, NoUseAfterFree, ExitedMemoryBound, ExitCodesSound
<1> QED
  BY <1>3, <1>4, <1>5, <1>6

(* Pushing the new task to the ready queue keeps the invariant.            *)
LEMMA SpawnPush ==
    ASSUME IInv, NEW t \in TaskId, spawn_user_task_push(t)
    PROVE  IInv'
<1> USE DEF IInv
<1> DEFINE id == arg[t]
<1>0. /\ current_task' = current_task /\ sleeping_tasks' = sleeping_tasks
      /\ exited_tasks' = exited_tasks /\ exit_codes' = exit_codes
      /\ exit_status' = exit_status /\ waiting_for' = waiting_for /\ next_id' = next_id
      /\ cpu' = cpu /\ stale' = stale /\ UNCHANGED <<switching, panicked>>
  BY DEF spawn_user_task_push, cpuVars
<1>1. /\ t \in Live /\ id \in TaskId /\ t < id /\ id < next_id /\ state[id] = "None"
      /\ id \notin Live /\ id # t
  BY DEF spawn_user_task_push, FreshIds, Live
<1>2. /\ ready_queue' = Append(ready_queue, id)
      /\ state' = [state EXCEPT ![id] = "Ready"]
      /\ parent' = [parent EXCEPT ![id] = t]
      /\ children' = [children EXCEPT ![t] = @ \cup {id}]
      /\ arg' = [arg EXCEPT ![t] = NoTask]
      /\ pc' = [pc EXCEPT ![t] = "run"]
  BY DEF spawn_user_task_push
<1> HIDE DEF id
<1>3. ~contains(ready_queue, id)
  BY <1>1 DEF OneHome
<1>4. /\ ready_queue' \in Seq(TaskId)
      /\ NoDuplicates(ready_queue')
      /\ \A s : contains(ready_queue', s) <=> contains(ready_queue, s) \/ s = id
  BY <1>1, <1>2, <1>3, PushBack DEF TypeOK, OneHome
<1>5. /\ state' \in [TaskId -> {"None", "Running", "Ready", "Sleeping", "Exited", "Dropped"}]
      /\ state'[id] = "Ready"
      /\ \A s \in TaskId : s # id => state'[s] = state[s]
  BY <1>1, <1>2 DEF TypeOK
<1>6. Live' = Live \cup {id} /\ Dead' = Dead
  BY <1>1, <1>5, SMTT(30) DEF Live, Dead
<1>7. TypeOK'
  <2>1. /\ parent' \in [TaskId -> OptTaskId] /\ children' \in [TaskId -> SUBSET TaskId]
        /\ arg' \in [TaskId -> OptTaskId] /\ pc' \in [TaskId -> {"boot", "run", "spawn", "wait"}]
    BY <1>1, <1>2 DEF TypeOK, OptTaskId
  <2> QED
    BY <1>0, <1>4, <1>5, <2>1 DEF TypeOK
<1>8. NoPanic' /\ SwitchOK' /\ ExitedMemoryBound'
  BY <1>0 DEF NoPanic, SwitchOK, ExitedMemoryBound
<1>9. OneHome'
  BY <1>0, <1>1, <1>4, <1>5 DEF OneHome
<1>10. KernelRunnable'
  <2>1. KERNEL \in TaskId
    BY MaxTaskIdAssumption DEF KERNEL, TaskId
  <2> QED
    BY <1>1, <1>5, <2>1 DEF KernelRunnable
<1>11. FreshIds'
  <2>1. \A s \in TaskId : s >= next_id' => state'[s] = "None"
    BY <1>0, <1>1, <1>5 DEF FreshIds, TaskId, TypeOK
  <2>2. pc'[t] = "run" /\ \A s \in TaskId : s # t => pc'[s] = pc[s] /\ arg'[s] = arg[s]
    BY <1>2 DEF TypeOK
  <2>3. \A s \in TaskId : s \notin Live' => children'[s] = {}
    BY <1>1, <1>2, <1>6 DEF FreshIds, TypeOK
  <2>4. \A s \in TaskId : pc'[s] = "wait" => arg'[s] \in TaskId
    BY <2>2 DEF FreshIds
  <2>5. \A s \in TaskId : s # t /\ pc[s] = "spawn" => arg[s] # id
    BY DEF spawn_user_task_push, FreshIds, id
  <2>6. \A s \in TaskId : pc'[s] = "spawn" =>
          s \in Live' /\ arg'[s] \in TaskId /\ s < arg'[s] /\ arg'[s] < next_id'
          /\ state'[arg'[s]] = "None"
    BY <1>0, <1>5, <1>6, <2>2, <2>5 DEF FreshIds
  <2>7. \A r, s \in TaskId :
          pc'[r] = "spawn" /\ pc'[s] = "spawn" /\ arg'[r] = arg'[s] => r = s
    BY <2>2 DEF FreshIds
  <2> QED
    BY <2>1, <2>3, <2>4, <2>6, <2>7 DEF FreshIds
<1>12. ProcessTree'
  <2>1. parent'[id] = t /\ \A s \in TaskId : s # id => parent'[s] = parent[s]
    BY <1>1, <1>2 DEF TypeOK
  <2>2. /\ children'[t] = children[t] \cup {id}
        /\ \A s \in TaskId : s # t => children'[s] = children[s]
    BY <1>1, <1>2 DEF TypeOK
  <2>3. children[id] = {} /\ Live \subseteq TaskId
    BY <1>1 DEF FreshIds, Live
  <2> QED
    BY <1>1, <1>6, <2>1, <2>2, <2>3 DEF ProcessTree
<1>13. NoUseAfterFree'
  BY <1>0, <1>1, <1>5 DEF NoUseAfterFree, SwitchOK, TypeOK
<1>14. ExitCodesSound'
  BY <1>0, <1>6 DEF ExitCodesSound
<1> QED
  BY <1>7, <1>8, <1>9, <1>10, <1>11, <1>12, <1>13, <1>14

(* The second half of sys_wait keeps the invariant.                        *)
LEMMA TakeExitCode ==
    ASSUME IInv, NEW t \in TaskId, take_exit_code(t)
    PROVE  IInv'
<1> USE DEF IInv
<1>0. /\ ready_queue' = ready_queue /\ current_task' = current_task
      /\ sleeping_tasks' = sleeping_tasks /\ exited_tasks' = exited_tasks
      /\ state' = state /\ exit_status' = exit_status /\ parent' = parent
      /\ children' = children /\ waiting_for' = waiting_for /\ next_id' = next_id
      /\ cpu' = cpu /\ stale' = stale /\ UNCHANGED <<switching, panicked>>
      /\ exit_codes' = [exit_codes EXCEPT ![arg[t]] = NoCode]
      /\ pc' = [pc EXCEPT ![t] = "run"]
      /\ arg' = [arg EXCEPT ![t] = NoTask]
  BY DEF take_exit_code, taskVars, cpuVars
<1>1. Live' = Live /\ Dead' = Dead
  BY <1>0 DEF Live, Dead
<1>2. arg[t] \in TaskId
  BY DEF FreshIds, take_exit_code
<1>3. TypeOK'
  BY <1>0, <1>2 DEF TypeOK, OptTaskId, OptCode
<1>4. NoPanic' /\ OneHome' /\ KernelRunnable' /\ SwitchOK'
  BY <1>0, Zenon DEF NoPanic, OneHome, KernelRunnable, SwitchOK
<1>5. FreshIds'
  <2>1. pc'[t] = "run" /\ \A s \in TaskId : s # t => pc'[s] = pc[s] /\ arg'[s] = arg[s]
    BY <1>0 DEF TypeOK
  <2>2. \A s \in TaskId : pc'[s] \in {"wait", "spawn"} =>
           pc'[s] = pc[s] /\ arg'[s] = arg[s]
    BY <2>1, Zenon
  <2>3. next_id' = next_id /\ state' = state /\ children' = children /\ FreshIds
    BY <1>0
  <2> HIDE DEF IInv
  <2> QED
    BY <1>1, <2>2, <2>3 DEF FreshIds
<1>6. ProcessTree' /\ NoUseAfterFree' /\ ExitedMemoryBound'
  BY Zenon, <1>0, <1>1 DEF ProcessTree, NoUseAfterFree, ExitedMemoryBound
<1>7. ExitCodesSound'
  BY <1>0, <1>1, <1>2 DEF ExitCodesSound, TypeOK
<1> QED
  BY <1>3, <1>4, <1>5, <1>6, <1>7

(* sleep_waiting_for touches pc and arg of its own task only.              *)
LEMMA WaitFreshIds ==
    ASSUME FreshIds, NEW t \in TaskId, NEW pid \in TaskId,
           pc'[t] = "wait", arg'[t] = pid,
           \A s \in TaskId : s # t => pc'[s] = pc[s] /\ arg'[s] = arg[s],
           \A s \in TaskId : state[s] = "None" => state'[s] = "None",
           Live' = Live, children' = children, next_id' = next_id
    PROVE  FreshIds'
<1>1. /\ \A s \in TaskId : s >= next_id' => state'[s] = "None"
      /\ \A s \in TaskId : s \notin Live' => children'[s] = {}
  BY DEF FreshIds
<1>2. \A s \in TaskId : pc'[s] = "wait" => arg'[s] \in TaskId
  BY DEF FreshIds
<1>3. \A s \in TaskId : pc'[s] = "spawn" =>
        s # t /\ pc[s] = "spawn" /\ arg'[s] = arg[s]
  OBVIOUS
<1>4. \A s \in TaskId : pc'[s] = "spawn" =>
        /\ s \in Live'
        /\ arg'[s] \in TaskId
        /\ s < arg'[s] /\ arg'[s] < next_id'
        /\ state'[arg'[s]] = "None"
  BY <1>3 DEF FreshIds
<1>5. \A r, s \in TaskId :
        pc'[r] = "spawn" /\ pc'[s] = "spawn" /\ arg'[r] = arg'[s] => r = s
  BY <1>3 DEF FreshIds
<1> QED
  BY <1>1, <1>2, <1>4, <1>5 DEF FreshIds

(* The first half of sys_wait keeps the invariant.                         *)
LEMMA SleepWaitingFor ==
    ASSUME IInv, NEW t \in TaskId, NEW pid \in TaskId, sleep_waiting_for(t, pid)
    PROVE  IInv'
<1> USE DEF IInv
<1>1. /\ t = current_task /\ t # KERNEL /\ ~switching /\ pc[t] = "run"
      /\ pc' = [pc EXCEPT ![t] = "wait"]
      /\ arg' = [arg EXCEPT ![t] = pid]
      /\ UNCHANGED <<exited_tasks, exit_codes, exit_status, parent, children,
                     next_id, cpu, stale>>
  BY DEF sleep_waiting_for, Executing
<1>2. /\ pc'[t] = "wait" /\ arg'[t] = pid
      /\ \A s \in TaskId : s # t => pc'[s] = pc[s] /\ arg'[s] = arg[s]
  BY <1>1 DEF TypeOK
<1>3. CASE UNCHANGED <<ready_queue, current_task, sleeping_tasks, state,
                       waiting_for, switching, panicked>>
  <2>1. Live' = Live /\ Dead' = Dead
    BY <1>3 DEF Live, Dead
  <2>2. TypeOK'
    BY <1>1, <1>3 DEF TypeOK, OptTaskId
  <2>3. FreshIds'
    <3>1. \A s \in TaskId : state[s] = "None" => state'[s] = "None"
      BY <1>3
    <3>2. Live' = Live /\ children' = children /\ next_id' = next_id
      BY <1>1, <2>1
    <3> QED
      BY <1>2, <3>1, <3>2, WaitFreshIds
  <2>4. NoPanic' /\ OneHome' /\ KernelRunnable' /\ SwitchOK'
    BY <1>1, <1>3 DEF NoPanic, OneHome, KernelRunnable, SwitchOK
  <2>5. ProcessTree' /\ NoUseAfterFree' /\ ExitedMemoryBound' /\ ExitCodesSound'
    BY <1>1, <1>3, <2>1 DEF ProcessTree, NoUseAfterFree, ExitedMemoryBound, ExitCodesSound
  <2> QED
    BY <2>2, <2>3, <2>4, <2>5
<1>4. CASE sleep_current_waiting_for(pid) /\ switching' = TRUE
  <2> DEFINE h == Head(ready_queue)
  <2>1. ready_queue # <<>>
    BY <1>1, SomebodyReady
  <2>2. /\ h \in TaskId
        /\ contains(ready_queue, h)
        /\ Tail(ready_queue) \in Seq(TaskId)
        /\ NoDuplicates(Tail(ready_queue))
        /\ \A s : contains(Tail(ready_queue), s) <=> contains(ready_queue, s) /\ s # h
    BY <2>1, PopFront DEF OneHome, TypeOK
  <2>3. state[t] = "Running" /\ state[h] = "Ready" /\ h # t /\ ~contains(sleeping_tasks, t)
    BY <1>1, <2>2, Zenon DEF OneHome
  <2>4. /\ sleeping_tasks' = Append(sleeping_tasks, t)
        /\ waiting_for' = [waiting_for EXCEPT ![t] = pid]
        /\ panicked' = FALSE
        /\ ready_queue' = Tail(ready_queue)
        /\ current_task' = h
        /\ state' = [[state EXCEPT ![t] = "Sleeping"] EXCEPT ![h] = "Running"]
    BY <1>1, <1>4, <2>1, Zenon DEF sleep_current_waiting_for, RunNext
  <2>5. /\ sleeping_tasks' \in Seq(TaskId)
        /\ NoDuplicates(sleeping_tasks')
        /\ \A s : contains(sleeping_tasks', s) <=> contains(sleeping_tasks, s) \/ s = t
    BY <2>3, <2>4, PushBack DEF TypeOK, OneHome
  <2> HIDE DEF h
  <2>6. /\ state' \in [TaskId -> {"None", "Running", "Ready", "Sleeping", "Exited", "Dropped"}]
        /\ state'[t] = "Sleeping" /\ state'[h] = "Running"
        /\ \A s \in TaskId : s # t /\ s # h => state'[s] = state[s]
    BY <2>2, <2>3, <2>4, Zenon DEF TypeOK
  <2>7. Live' = Live /\ Dead' = Dead
    BY <2>2, <2>3, <2>6 DEF Live, Dead
  <2>8. /\ waiting_for' \in [TaskId -> OptTaskId]
        /\ waiting_for'[t] = pid /\ pid # NoTask
        /\ \A s \in TaskId : s # t => waiting_for'[s] = waiting_for[s]
    <3>1. pid # NoTask
      BY DEF NoTask, TaskId
    <3> QED
      BY <2>4, <3>1 DEF TypeOK, OptTaskId
  <2>9. TypeOK'
    BY <1>1, <1>4, <2>2, <2>4, <2>5, <2>6, <2>8, Zenon DEF TypeOK, OptTaskId
  <2>10. NoPanic' /\ ExitedMemoryBound'
    BY <1>1, <2>4 DEF NoPanic, ExitedMemoryBound
  <2>11. OneHome'
    BY <1>1, <2>2, <2>3, <2>4, <2>5, <2>6, <2>8 DEF OneHome
  <2>12. KernelRunnable'
    <3>1. KERNEL \in TaskId
      BY MaxTaskIdAssumption DEF KERNEL, TaskId
    <3> QED
      BY <1>1, <2>6, <3>1 DEF KernelRunnable
  <2>13. FreshIds'
    <3>1. \A s \in TaskId : state[s] = "None" => state'[s] = "None"
      BY <2>3, <2>6
    <3>2. Live' = Live /\ children' = children /\ next_id' = next_id
      BY <1>1, <2>7
    <3> QED
      BY <1>2, <3>1, <3>2, WaitFreshIds
  <2>14. SwitchOK'
    BY <1>1, <1>4, <2>2, <2>4 DEF SwitchOK
  <2>15. ProcessTree' /\ ExitCodesSound'
    BY <1>1, <2>7 DEF ProcessTree, ExitCodesSound
  <2>16. NoUseAfterFree'
    BY <1>1, <2>4, <2>6 DEF NoUseAfterFree, SwitchOK, TypeOK
  <2> QED
    BY <2>9, <2>10, <2>11, <2>12, <2>13, <2>14, <2>15, <2>16
<1> QED
  BY <1>3, <1>4, Zenon DEF sleep_waiting_for

(* The process tree survives the exit of a user task t, whatever else      *)
(* happens, as long as exactly t leaves the live tasks.                    *)
LEMMA Reparent ==
    ASSUME TypeOK, ProcessTree, FreshIds,
           NEW t \in Live, t # KERNEL, reparent(t), Live' = Live \ {t}
    PROVE  /\ ProcessTree'
           /\ parent' \in [TaskId -> OptTaskId]
           /\ children' \in [TaskId -> SUBSET TaskId]
           /\ \A s \in TaskId : s \notin Live' => children'[s] = {}
<1> DEFINE np == parent[t]
<1>1. /\ t \in TaskId /\ Live \subseteq TaskId
      /\ np \in Live /\ np < t /\ np # t /\ t \in children[np]
      /\ \A c \in children[t] : c \in Live /\ parent[c] = t /\ c # t
  BY DEF ProcessTree, Live, TaskId
<1>2. np # NoTask
  BY <1>1 DEF NoTask, TaskId
<1>3. \A c \in TaskId : parent'[c] = IF c \in children[t] THEN np ELSE parent[c]
  BY <1>1, <1>2 DEF reparent
<1>4. \A c \in TaskId : children'[c] =
        IF c = t THEN {} ELSE IF c = np THEN (children[np] \ {t}) \cup children[t]
                                        ELSE children[c]
  BY <1>1, <1>2, SMTT(30) DEF reparent
<1>5. parent' \in [TaskId -> OptTaskId]
  <2>1. DOMAIN parent' = TaskId /\ parent' = [c \in TaskId |-> parent'[c]]
    BY DEF reparent
  <2>2. \A c \in TaskId : parent'[c] \in OptTaskId
    BY <1>1, <1>3 DEF TypeOK, OptTaskId
  <2> QED
    BY <2>1, <2>2
<1>6. children' \in [TaskId -> SUBSET TaskId]
  <2>1. children' = [c \in TaskId |-> children'[c]]
    BY DEF reparent
  <2>2. \A c \in TaskId : children'[c] \in SUBSET TaskId
    BY <1>1, <1>4 DEF TypeOK
  <2> QED
    BY <2>1, <2>2
<1>7. \A s \in TaskId : s \notin Live' => children'[s] = {}
  BY <1>1, <1>4, Zenon DEF FreshIds
<1>8. ProcessTree'
  <2> HIDE DEF np
  <2>1. KERNEL \in Live'
    BY DEF ProcessTree
  <2>2. ASSUME NEW s \in Live' \ {KERNEL}
        PROVE  parent'[s] \in Live' /\ parent'[s] < s /\ s \in children'[parent'[s]]
    <3>1. s \in Live /\ s # t /\ s \in TaskId
      BY <1>1
    <3>2. parent[s] \in Live /\ parent[s] < s /\ s \in children[parent[s]]
      BY <2>2, <3>1 DEF ProcessTree
    <3>3. CASE s \in children[t]
      <4>1. parent[s] = t /\ parent'[s] = np
        BY <1>1, <1>3, <3>1, <3>3
      <4>2. np < s
        <5>1. np \in TaskId /\ np < t /\ t < s
          BY <1>1, <3>2, <4>1
        <5> QED
          BY <1>1, <3>1, <5>1, MaxTaskIdAssumption DEF TaskId
      <4> QED
        BY <1>1, <1>4, <3>3, <4>1, <4>2
    <3>4. CASE s \notin children[t]
      <4>1. parent'[s] = parent[s] /\ parent[s] # t
        BY <1>3, <3>1, <3>2, <3>4
      <4> QED
        BY <1>1, <1>4, <3>1, <3>2, <4>1
    <3> QED
      BY <3>3, <3>4
  <2>3. ASSUME NEW s \in Live', NEW c \in children'[s]
        PROVE  c \in Live' /\ parent'[c] = s
    <3>1. s \in Live /\ s # t /\ s \in TaskId
      BY <1>1
    <3>2. CASE c \in children[t]
      <4>1. c \in Live' /\ parent[c] = t /\ parent'[c] = np
        BY <1>1, <1>3, <3>2
      <4>2. s = np
        BY <1>4, <2>3, <3>1, <4>1 DEF ProcessTree
      <4> QED
        BY <4>1, <4>2
    <3>3. CASE c \notin children[t]
      <4>1. c \in children[s] /\ (s = np => c # t)
        BY <1>4, <2>3, <3>1, <3>3
      <4>2. c \in Live /\ parent[c] = s
        BY <3>1, <4>1 DEF ProcessTree
      <4>3. c # t
        BY <4>1, <4>2 DEF np
      <4> QED
        BY <1>1, <1>3, <3>3, <4>2, <4>3
    <3> QED
      BY <3>2, <3>3
  <2> QED
    BY Zenon, <2>1, <2>2, <2>3 DEF ProcessTree
<1> QED
  BY <1>5, <1>6, <1>7, <1>8
=============================================================================
