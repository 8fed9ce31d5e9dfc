-------------------------- MODULE SchedulerProofs --------------------------
(***************************************************************************)
(* Proofs about Scheduler for every number of tasks and every set of exit  *)
(* codes.                                                                  *)
(***************************************************************************)
EXTENDS SchedulerSteps

(* What happens when h is the task that runs after the exit of t: it was   *)
(* waiting for t or was the first in the ready queue.                      *)
RunsNext(t, h) ==
    /\ h # t /\ state[h] \in {"Ready", "Sleeping"}
    /\ panicked' = FALSE /\ current_task' = h
    /\ ready_queue' \in Seq(TaskId) /\ NoDuplicates(ready_queue')
    /\ \A s \in TaskId : contains(ready_queue', s) <=> contains(ready_queue, s) /\ s # h
    /\ sleeping_tasks' \in Seq(TaskId) /\ NoDuplicates(sleeping_tasks')
    /\ \A s \in TaskId : contains(sleeping_tasks', s) <=> contains(sleeping_tasks, s) /\ s # h
    /\ waiting_for' \in [TaskId -> OptTaskId]
    /\ waiting_for'[h] = NoTask
    /\ \A s \in TaskId : s # h => waiting_for'[s] = waiting_for[s]
    /\ state' \in [TaskId -> {"None", "Running", "Ready", "Sleeping", "Exited", "Dropped"}]
    /\ state'[t] = "Exited" /\ state'[h] = "Running"
    /\ \A s \in TaskId : s # t /\ s # h => state'[s] = state[s]
    /\ IF state[h] = "Sleeping" THEN waiting_for[h] = t
       ELSE \A i \in 1 .. Len(sleeping_tasks) : ~IsFirstWaiter(i, t)

(* The exit of a user task always finds the next task to run.              *)
LEMMA ExitRunsNext ==
    ASSUME IInv, NEW t \in TaskId, NEW code \in ExitCodes, pick_next_task_on_exit(code),
           t = current_task, t # KERNEL
    PROVE  \E h \in TaskId : RunsNext(t, h)
<1> USE DEF IInv
<1>1. state[t] = "Running"
  BY DEF OneHome
<1>2. ready_queue # <<>>
  BY SomebodyReady
<1> DEFINE st == [state EXCEPT ![t] = "Exited"]
<1>3. /\ st \in [TaskId -> {"None", "Running", "Ready", "Sleeping", "Exited", "Dropped"}]
      /\ st[t] = "Exited"
      /\ \A s \in TaskId : s # t => st[s] = state[s]
  BY DEF TypeOK
<1>4. ASSUME NEW i \in 1 .. Len(sleeping_tasks), IsFirstWaiter(i, t),
             sleeping_tasks' = remove(sleeping_tasks, i),
             waiting_for' = [waiting_for EXCEPT ![sleeping_tasks[i]] = NoTask],
             RunNext(push_front(ready_queue, sleeping_tasks[i]),
                     [st EXCEPT ![sleeping_tasks[i]] = "Ready"])
      PROVE  \E h \in TaskId : RunsNext(t, h)
  <2> DEFINE w == sleeping_tasks[i]
  <2>1. /\ w \in TaskId
        /\ contains(sleeping_tasks, w)
        /\ remove(sleeping_tasks, i) \in Seq(TaskId)
        /\ NoDuplicates(remove(sleeping_tasks, i))
        /\ \A s : contains(remove(sleeping_tasks, i), s) <=>
                  contains(sleeping_tasks, s) /\ s # w
    BY RemoveIndex DEF TypeOK, OneHome
  <2>2. state[w] = "Sleeping" /\ w # t /\ ~contains(ready_queue, w)
    BY <1>1, <2>1 DEF OneHome
  <2>3. /\ push_front(ready_queue, w) # <<>>
        /\ Head(push_front(ready_queue, w)) = w
        /\ Tail(push_front(ready_queue, w)) = ready_queue
    BY <2>1, PushFront, Zenon DEF TypeOK
  <2>4. /\ panicked' = FALSE /\ current_task' = w /\ ready_queue' = ready_queue
        /\ state' = [[st EXCEPT ![w] = "Ready"] EXCEPT ![w] = "Running"]
    BY <1>4, <2>3, Zenon DEF RunNext
  <2> HIDE DEF w, st
  <2>5. /\ state' \in [TaskId -> {"None", "Running", "Ready", "Sleeping", "Exited", "Dropped"}]
        /\ state'[t] = "Exited" /\ state'[w] = "Running"
        /\ \A s \in TaskId : s # t /\ s # w => state'[s] = state[s]
    BY <1>3, <2>1, <2>2, <2>4
  <2>6. /\ waiting_for' \in [TaskId -> OptTaskId]
        /\ waiting_for'[w] = NoTask
        /\ \A s \in TaskId : s # w => waiting_for'[s] = waiting_for[s]
    BY <1>4, <2>1 DEF TypeOK, OptTaskId, w
  <2>7. \A s \in TaskId : contains(ready_queue', s) <=> contains(ready_queue, s) /\ s # w
    BY <2>2, <2>4
  <2>8. /\ ready_queue' \in Seq(TaskId) /\ NoDuplicates(ready_queue')
        /\ sleeping_tasks' \in Seq(TaskId) /\ NoDuplicates(sleeping_tasks')
        /\ \A s \in TaskId : contains(sleeping_tasks', s) <=> contains(sleeping_tasks, s) /\ s # w
    BY <1>4, <2>1, <2>4 DEF TypeOK, OneHome
  <2>9. waiting_for[w] = t
    BY <1>4 DEF IsFirstWaiter, w
  <2> QED
    BY <2>1, <2>2, <2>4, <2>5, <2>6, <2>7, <2>8, <2>9 DEF RunsNext
<1>5. ASSUME \A i \in 1 .. Len(sleeping_tasks) : ~IsFirstWaiter(i, t),
             UNCHANGED <<sleeping_tasks, waiting_for>>, RunNext(ready_queue, st)
      PROVE  \E h \in TaskId : RunsNext(t, h)
  <2> DEFINE h == Head(ready_queue)
  <2>1. /\ h \in TaskId
        /\ contains(ready_queue, h)
        /\ Tail(ready_queue) \in Seq(TaskId)
        /\ NoDuplicates(Tail(ready_queue))
        /\ \A s : contains(Tail(ready_queue), s) <=> contains(ready_queue, s) /\ s # h
    BY <1>2, PopFront DEF OneHome, TypeOK
  <2>2. /\ state[h] = "Ready" /\ h # t /\ ~contains(sleeping_tasks, h)
        /\ waiting_for[h] = NoTask
    BY <1>1, <2>1 DEF OneHome
  <2>3. /\ panicked' = FALSE /\ current_task' = h /\ ready_queue' = Tail(ready_queue)
        /\ state' = [st EXCEPT ![h] = "Running"]
    BY <1>2, <1>5, Zenon DEF RunNext
  <2> HIDE DEF h, st
  <2>4. /\ state' \in [TaskId -> {"None", "Running", "Ready", "Sleeping", "Exited", "Dropped"}]
        /\ state'[t] = "Exited" /\ state'[h] = "Running"
        /\ \A s \in TaskId : s # t /\ s # h => state'[s] = state[s]
    BY <1>3, <2>1, <2>2, <2>3
  <2>5. /\ sleeping_tasks' \in Seq(TaskId) /\ NoDuplicates(sleeping_tasks')
        /\ waiting_for' \in [TaskId -> OptTaskId] /\ waiting_for'[h] = NoTask
    BY <1>5, <2>1, <2>2 DEF TypeOK, OneHome
  <2>6. /\ \A s \in TaskId : contains(sleeping_tasks', s) <=> contains(sleeping_tasks, s) /\ s # h
        /\ \A s \in TaskId : waiting_for'[s] = waiting_for[s]
    BY <1>5, <2>2
  <2> QED
    BY <1>5, <2>1, <2>2, <2>3, <2>4, <2>5, <2>6 DEF RunsNext
<1>6. \/ \E i \in 1 .. Len(sleeping_tasks) :
           /\ IsFirstWaiter(i, t)
           /\ sleeping_tasks' = remove(sleeping_tasks, i)
           /\ waiting_for' = [waiting_for EXCEPT ![sleeping_tasks[i]] = NoTask]
           /\ RunNext(push_front(ready_queue, sleeping_tasks[i]),
                      [st EXCEPT ![sleeping_tasks[i]] = "Ready"])
      \/ /\ \A i \in 1 .. Len(sleeping_tasks) : ~IsFirstWaiter(i, t)
         /\ UNCHANGED <<sleeping_tasks, waiting_for>> /\ RunNext(ready_queue, st)
  BY Zenon DEF pick_next_task_on_exit
<1> HIDE DEF st
<1> QED
  BY <1>4, <1>5, <1>6, Zenon

(* The exit of a user task keeps the invariant.                            *)
LEMMA ExitCurrent ==
    ASSUME IInv, NEW t \in TaskId, NEW code \in ExitCodes, exit_current(t, code)
    PROVE  IInv'
<1> USE DEF IInv
<1>1. pick_next_task_on_exit(code) /\ t = current_task /\ t # KERNEL /\ ~switching
  BY DEF exit_current, Executing
<1>2. switching' = TRUE /\ UNCHANGED <<next_id, pc, arg, cpu>>
  BY DEF exit_current
<1>3. /\ state[t] = "Running" /\ t \in Live /\ t \notin exited_tasks
      /\ stale = {} /\ cpu = t
  BY <1>1 DEF SwitchOK, OneHome, Live
<1>4. stale' = exited_tasks /\ exited_tasks' = {t}
  BY <1>1 DEF pick_next_task_on_exit, retire
<1>5. /\ exit_codes' \in [TaskId -> OptCode] /\ exit_status' \in [TaskId -> OptCode]
      /\ exit_codes'[t] = code /\ exit_status'[t] = code
      /\ \A s \in TaskId : s # t => /\ exit_codes'[s] = exit_codes[s]
                                    /\ exit_status'[s] = exit_status[s]
  <2>1. /\ exit_status' = [exit_status EXCEPT ![t] = code]
        /\ exit_codes' = [exit_codes EXCEPT ![t] = code]
    BY <1>1 DEF pick_next_task_on_exit, record_exit
  <2> QED
    BY <2>1 DEF TypeOK, OptCode
<1>6. PICK h \in TaskId : RunsNext(t, h)
  BY <1>1, ExitRunsNext
<1>7. /\ h # t /\ state[h] \in {"Ready", "Sleeping"}
      /\ panicked' = FALSE /\ current_task' = h
      /\ state'[t] = "Exited" /\ state'[h] = "Running"
      /\ \A s \in TaskId : s # t /\ s # h => state'[s] = state[s]
  BY <1>6 DEF RunsNext
<1>8. Live' = Live \ {t} /\ Dead' = Dead \cup {t}
  BY <1>3, <1>7 DEF Live, Dead
<1>9. /\ ProcessTree'
      /\ parent' \in [TaskId -> OptTaskId]
      /\ children' \in [TaskId -> SUBSET TaskId]
      /\ \A s \in TaskId : s \notin Live' => children'[s] = {}
  <2>1. reparent(t)
    BY <1>1 DEF pick_next_task_on_exit
  <2> QED
    BY <1>1, <1>3, <1>8, <2>1, Reparent
<1>10. TypeOK'
  <2>1. /\ stale' \in SUBSET TaskId /\ exited_tasks' \in SUBSET TaskId
        /\ switching' = TRUE /\ panicked' = FALSE
    BY <1>2, <1>4, <1>7 DEF TypeOK
  <2>2. /\ ready_queue' \in Seq(TaskId) /\ sleeping_tasks' \in Seq(TaskId)
        /\ current_task' \in OptTaskId
        /\ state' \in [TaskId -> {"None", "Running", "Ready", "Sleeping", "Exited", "Dropped"}]
        /\ waiting_for' \in [TaskId -> OptTaskId]
    BY <1>6 DEF OptTaskId, RunsNext
  <2>3. /\ next_id' \in 1 .. (MaxTaskId + 1) /\ cpu' \in TaskId
        /\ pc' \in [TaskId -> {"boot", "run", "spawn", "wait"}]
        /\ arg' \in [TaskId -> OptTaskId]
    BY <1>2 DEF TypeOK
  <2> QED
    BY <1>5, <1>9, <2>1, <2>2, <2>3, Zenon DEF TypeOK
<1>11. NoPanic' /\ ExitedMemoryBound'
  BY <1>4, <1>7 DEF NoPanic, ExitedMemoryBound
<1>12. OneHome'
  <2>1. \A s \in TaskId :
          /\ state'[s] = "Running" <=> s = current_task'
          /\ state'[s] = "Exited" <=> s \in exited_tasks' \cup stale'
    BY <1>3, <1>4, <1>7 DEF OneHome
  <2>2. \A s \in TaskId : state'[s] = "Ready" <=> contains(ready_queue', s)
    BY <1>3, <1>6, <1>7 DEF OneHome, RunsNext
  <2>3. \A s \in TaskId :
          /\ state'[s] = "Sleeping" <=> contains(sleeping_tasks', s)
          /\ state'[s] = "Sleeping" <=> waiting_for'[s] # NoTask
    BY <1>3, <1>6, <1>7 DEF OneHome, RunsNext
  <2>4. NoDuplicates(ready_queue') /\ NoDuplicates(sleeping_tasks')
    BY <1>6 DEF RunsNext
  <2> QED
    BY <2>1, <2>2, <2>3, <2>4 DEF OneHome
<1>13. KernelRunnable'
  <2>1. KERNEL \in TaskId
    BY MaxTaskIdAssumption DEF KERNEL, TaskId
  <2> QED
    BY <1>1, <1>7, <2>1 DEF KernelRunnable
<1>14. FreshIds'
  <2>1. \A s \in TaskId : state[s] = "None" => state'[s] = "None"
    BY <1>3, <1>7
  <2>2. \A s \in TaskId : pc'[s] = "spawn" => s \in Live'
    <3>1. pc[t] = "run" /\ pc' = pc
      BY <1>2 DEF exit_current, Executing
    <3> QED
      BY <1>8, <3>1 DEF FreshIds
  <2>3. next_id' = next_id /\ pc' = pc /\ arg' = arg
    BY <1>2
  <2> QED
    BY <1>9, <2>1, <2>2, <2>3 DEF FreshIds
<1>15. SwitchOK'
  BY <1>2, <1>3, <1>4, <1>7 DEF SwitchOK
<1>16. NoUseAfterFree'
  BY <1>2, <1>3, <1>4, <1>7 DEF NoUseAfterFree, OneHome
<1>17. ExitCodesSound'
  BY <1>5, <1>8 DEF ExitCodesSound
<1> QED
  BY <1>9, <1>10, <1>11, <1>12, <1>13, <1>14, <1>15, <1>16, <1>17

(* Initially the invariant holds.                                          *)
LEMMA InitIInv == Init => IInv
<1>1. SUFFICES ASSUME Init PROVE IInv
  OBVIOUS
<1> USE DEF Init, InitWith
<1>2. KERNEL \in TaskId /\ 1 \in 1 .. (MaxTaskId + 1) /\ <<>> \in Seq(TaskId)
  BY MaxTaskIdAssumption DEF KERNEL, TaskId
<1>3. Live = {KERNEL} /\ Dead = {}
  BY <1>1, <1>2 DEF Live, Dead
<1>4. TypeOK
  BY <1>1, <1>2, Zenon DEF TypeOK, OptTaskId, OptCode
<1>5. OneHome
  BY <1>1, <1>2 DEF OneHome, contains, NoDuplicates
<1>6. FreshIds
  BY <1>1, <1>2, <1>3 DEF FreshIds, TaskId, KERNEL
<1>7. NoPanic /\ KernelRunnable /\ SwitchOK /\ NoUseAfterFree
  BY <1>1, <1>2 DEF NoPanic, KernelRunnable, SwitchOK, NoUseAfterFree
<1>8. ProcessTree /\ ExitedMemoryBound /\ ExitCodesSound
  BY <1>1, <1>2, <1>3 DEF ProcessTree, ExitedMemoryBound, ExitCodesSound
<1> QED
  BY <1>4, <1>5, <1>6, <1>7, <1>8 DEF IInv

(* Every step of the scheduler keeps the invariant.                        *)
LEMMA NextIInv == IInv /\ [Next]_vars => IInv'
<1>1. SUFFICES ASSUME IInv, [Next]_vars PROVE IInv'
  OBVIOUS
<1>2. CASE preempt_sched
  <2>1. panicked' = FALSE
    BY <1>1, <1>2 DEF preempt_sched, IInv, NoPanic, TypeOK
  <2> QED
    BY <1>1, <1>2, <2>1, Rotation, Zenon DEF preempt_sched, Executing
<1>3. CASE DropAndSwitch
  BY <1>1, <1>3, Switch
<1>4. ASSUME NEW t \in TaskId, sched(t)
      PROVE  IInv'
  <2>1. ready_queue # <<>>
    BY <1>1, <1>4, SomebodyReady DEF sched, Executing, IInv
  <2> QED
    BY <1>1, <1>4, <2>1, Rotation, ZenonT(30) DEF sched, Executing
<1>5. ASSUME NEW t \in TaskId, Step(t), ~sched(t)
      PROVE  IInv'
  BY <1>1, <1>5, SpawnNew, SpawnPush, ExitCurrent, TakeExitCode DEF Step
<1>6. ASSUME NEW t \in TaskId, NEW pid \in TaskId, sleep_waiting_for(t, pid)
      PROVE  IInv'
  BY <1>1, <1>6, SleepWaitingFor
<1>7. CASE UNCHANGED vars
  <2>1. Live' = Live /\ Dead' = Dead
    BY <1>7 DEF vars, schedVars, taskVars, Live, Dead
  <2>2. TypeOK' /\ NoPanic' /\ OneHome'
    BY <1>1, <1>7 DEF vars, schedVars, taskVars, cpuVars, IInv, TypeOK, NoPanic, OneHome
  <2>3. KernelRunnable' /\ SwitchOK' /\ NoUseAfterFree' /\ ExitedMemoryBound'
    BY <1>1, <1>7 DEF vars, schedVars, taskVars, cpuVars, IInv, KernelRunnable, SwitchOK,
       NoUseAfterFree, ExitedMemoryBound
  <2>4. FreshIds'
    BY <1>1, <1>7, <2>1 DEF vars, schedVars, taskVars, cpuVars, IInv, FreshIds
  <2>5. ProcessTree' /\ ExitCodesSound'
    BY <1>1, <1>7, <2>1 DEF vars, schedVars, taskVars, IInv, ProcessTree, ExitCodesSound
  <2> QED
    BY <2>2, <2>3, <2>4, <2>5 DEF IInv
<1> QED
  BY <1>1, <1>2, <1>3, <1>4, <1>5, <1>6, <1>7 DEF Next

(* The scheduler keeps its inductive invariant in every execution.         *)
THEOREM Invariance == Spec => []IInv
<1> QED
  BY InitIInv, NextIInv, PTL DEF Spec

(* Type correctness of the scheduler's state.                              *)
THEOREM TypeCorrect == Spec => []TypeOK
<1>1. IInv => TypeOK
  BY DEF IInv
<1> QED
  BY <1>1, Invariance, PTL

(* Every task is in exactly one container, the one its state names.        *)
THEOREM TasksHaveOneHome == Spec => []OneHome
<1>1. IInv => OneHome
  BY DEF IInv
<1> QED
  BY <1>1, Invariance, PTL

(* No expect or panic of the scheduler is reached, for any number of tasks *)
(* and any use of sys_wait.                                                *)
THEOREM SchedulerNeverPanics == Spec => []NoPanic
<1>1. IInv => NoPanic
  BY DEF IInv
<1> QED
  BY <1>1, Invariance, PTL

(* The live tasks always form one tree rooted at the kernel task.          *)
THEOREM LiveTasksFormATree == Spec => []ProcessTree
<1>1. IInv => ProcessTree
  BY DEF IInv
<1> QED
  BY <1>1, Invariance, PTL

(* No task is dropped while the CPU is on its stack or about to be.        *)
THEOREM RunningTaskIsNotFreed == Spec => []NoUseAfterFree
<1>1. IInv => NoUseAfterFree
  BY DEF IInv
<1> QED
  BY <1>1, Invariance, PTL

(* At most two exited tasks hold memory; kept codes are the right ones.    *)
THEOREM ExitedTasksBounded == Spec => [](ExitedMemoryBound /\ ExitCodesSound)
<1>1. IInv => ExitedMemoryBound /\ ExitCodesSound
  BY DEF IInv
<1> QED
  BY <1>1, Invariance, PTL

----------------------------------------------------------------------------
(* sys_wait under the shell's discipline.                                  *)

(* A step that only passes the processor on or drops exited tasks.         *)
LEMMA WaitQuiet ==
    ASSUME WaitInv, WaitSound,
           UNCHANGED <<exit_codes, exit_status, parent, waiting_for, pc, arg>>,
           \A s \in TaskId :
              /\ state'[s] = "Sleeping" <=> state[s] = "Sleeping"
              /\ state'[s] = "None" <=> state[s] = "None"
              /\ state'[s] \in {"Running", "Ready"} <=> state[s] \in {"Running", "Ready"}
              /\ state'[s] \in {"Exited", "Dropped"} <=> state[s] \in {"Exited", "Dropped"}
    PROVE  WaitInv' /\ WaitSound'
<1>1. Live' = Live /\ Dead' = Dead
  BY DEF Live, Dead
<1> QED
  BY <1>1 DEF WaitInv, WaitSound, Collected

(* TaskId::new: only the place of the caller changes.                      *)
LEMMA WaitSpawnNew ==
    ASSUME IInv, WaitInv, WaitSound, NEW t \in TaskId, spawn_user_task_new(t)
    PROVE  WaitInv' /\ WaitSound'
<1>1. /\ pc[t] # "wait" /\ t = current_task
      /\ state' = state /\ exit_codes' = exit_codes /\ exit_status' = exit_status
      /\ parent' = parent /\ waiting_for' = waiting_for
      /\ pc' = [pc EXCEPT ![t] = "spawn"] /\ arg' = [arg EXCEPT ![t] = next_id]
  BY DEF spawn_user_task_new, schedVars, taskVars, Executing, IInv, TypeOK
<1>2. state[t] = "Running"
  BY <1>1 DEF IInv, OneHome
<1>3. /\ pc'[t] = "spawn"
      /\ \A s \in TaskId : s # t => pc'[s] = pc[s] /\ arg'[s] = arg[s]
  BY <1>1 DEF IInv, TypeOK
<1>4. Live' = Live /\ Dead' = Dead
  BY <1>1 DEF Live, Dead
<1> QED
  BY <1>1, <1>2, <1>3, <1>4 DEF WaitInv, WaitSound, Collected

(* The new task is nobody's to wait for before it is pushed.               *)
LEMMA WaitSpawnPush ==
    ASSUME IInv, WaitInv, WaitSound, NEW t \in TaskId, spawn_user_task_push(t)
    PROVE  WaitInv' /\ WaitSound'
<1> DEFINE id == arg[t]
<1>1. /\ pc[t] = "spawn"
      /\ exit_codes' = exit_codes /\ exit_status' = exit_status /\ waiting_for' = waiting_for
      /\ state' = [state EXCEPT ![id] = "Ready"]
      /\ parent' = [parent EXCEPT ![id] = t]
      /\ pc' = [pc EXCEPT ![t] = "run"] /\ arg' = [arg EXCEPT ![t] = NoTask]
  BY DEF spawn_user_task_push
<1>2. id \in TaskId /\ state[id] = "None"
  BY <1>1 DEF IInv, FreshIds
<1>3. /\ pc'[t] = "run" /\ parent'[id] = t /\ state'[id] = "Ready"
      /\ \A s \in TaskId : s # t => pc'[s] = pc[s] /\ arg'[s] = arg[s]
      /\ \A s \in TaskId : s # id => parent'[s] = parent[s] /\ state'[s] = state[s]
  BY <1>1, <1>2 DEF IInv, TypeOK
<1> HIDE DEF id
<1>4. Live' = Live \cup {id} /\ Dead' = Dead /\ id \notin Live
  BY <1>2, <1>3 DEF Live, Dead
<1>5. \A s \in TaskId : pc[s] = "wait" => arg[s] \in TaskId /\ arg[s] # id /\ s # id
  <2>1. \A s \in TaskId : pc[s] = "wait" => arg[s] \in TaskId /\ parent[arg[s]] = s /\ s # NoTask
    BY DEF IInv, FreshIds, WaitInv, TaskId, NoTask
  <2> QED
    BY <1>2, <1>4, <2>1 DEF WaitInv
<1>6. \A s \in TaskId : pc'[s] = "wait" => s # t /\ pc[s] = "wait" /\ arg'[s] = arg[s]
  BY <1>3
<1>7. state[t] = "Running"
  BY DEF IInv, OneHome, spawn_user_task_push, Executing
<1>8. WaitInv'
  <2>1. \A s \in TaskId : state'[s] = "Sleeping" => pc'[s] = "wait" /\ waiting_for'[s] = arg'[s]
    BY <1>1, <1>3, <1>7 DEF WaitInv
  <2>2. \A s \in TaskId : pc'[s] = "wait" =>
          s \in Live' /\ parent'[arg'[s]] = s /\ ~Collected(arg[s])' /\ arg'[s] = arg[s]
    BY <1>1, <1>3, <1>4, <1>5, <1>6 DEF WaitInv, Collected
  <2>3. \A s \in TaskId : exit_status'[s] # NoCode <=> s \in Dead'
    BY <1>1, <1>4 DEF WaitInv
  <2>4. \A s \in TaskId : parent'[s] # NoTask => state'[s] # "None"
    BY <1>3 DEF WaitInv
  <2> QED
    BY <2>1, <2>2, <2>3, <2>4 DEF WaitInv, Collected
<1>9. WaitSound'
  BY <1>1, <1>2, <1>3, <1>4, <1>5, <1>6, <1>7 DEF WaitSound
<1> QED
  BY <1>8, <1>9

(* Only the parent takes the code of a task.                               *)
LEMMA WaitTake ==
    ASSUME IInv, WaitInv, WaitSound, NEW t \in TaskId, take_exit_code(t)
    PROVE  WaitInv' /\ WaitSound'
<1> DEFINE id == arg[t]
<1>1. /\ pc[t] = "wait"
      /\ state' = state /\ exit_status' = exit_status /\ parent' = parent
      /\ waiting_for' = waiting_for
      /\ exit_codes' = [exit_codes EXCEPT ![id] = NoCode]
      /\ pc' = [pc EXCEPT ![t] = "run"] /\ arg' = [arg EXCEPT ![t] = NoTask]
  BY DEF take_exit_code, taskVars
<1>2. id \in TaskId
  BY <1>1 DEF IInv, FreshIds
<1>3. /\ pc'[t] = "run"
      /\ \A s \in TaskId : s # t => pc'[s] = pc[s] /\ arg'[s] = arg[s]
      /\ \A s \in TaskId : s # id => exit_codes'[s] = exit_codes[s]
  BY <1>1, <1>2 DEF IInv, TypeOK
<1>4. Live' = Live /\ Dead' = Dead
  BY <1>1 DEF Live, Dead
<1>5. \A s \in TaskId : s # t /\ pc[s] = "wait" => arg[s] \in TaskId /\ arg[s] # id
  BY <1>1 DEF IInv, FreshIds, WaitInv
<1>6. state[t] = "Running"
  BY DEF IInv, OneHome, take_exit_code, Executing
<1> HIDE DEF id
<1>7. WaitInv'
  <2>1. \A s \in TaskId : pc'[s] = "wait" =>
          s \in Live' /\ parent'[arg'[s]] = s /\ ~Collected(arg[s])' /\ arg'[s] = arg[s]
    BY <1>1, <1>3, <1>4, <1>5 DEF WaitInv, Collected
  <2> QED
    BY <1>1, <1>3, <1>4, <1>6, <2>1 DEF WaitInv, Collected
<1>8. WaitSound'
  BY <1>1, <1>3, <1>4, <1>5, <1>6 DEF WaitSound
<1> QED
  BY <1>7, <1>8

(* The check and the sleep are one critical section: who sleeps waits for  *)
(* a task that is alive.                                                   *)
LEMMA WaitSleep ==
    ASSUME IInv, WaitInv, WaitSound, NEW t \in TaskId, NEW pid \in TaskId, ParentWaits(t, pid)
    PROVE  WaitInv' /\ WaitSound'
<1>1. /\ parent[pid] = t /\ ~Collected(pid)
      /\ t = current_task /\ t # KERNEL /\ pc[t] = "run"
      /\ exit_codes' = exit_codes /\ exit_status' = exit_status /\ parent' = parent
      /\ pc' = [pc EXCEPT ![t] = "wait"] /\ arg' = [arg EXCEPT ![t] = pid]
  BY DEF ParentWaits, sleep_waiting_for, Executing
<1>2. /\ pc'[t] = "wait" /\ arg'[t] = pid
      /\ \A s \in TaskId : s # t => pc'[s] = pc[s] /\ arg'[s] = arg[s]
  BY <1>1 DEF IInv, TypeOK
<1>3. state[t] = "Running" /\ t \in Live /\ t # NoTask
  BY <1>1 DEF IInv, OneHome, Live, TaskId, NoTask
<1>4. state[pid] # "None"
  BY <1>1, <1>3 DEF WaitInv
<1>5. CASE HasExitCode(pid) /\ UNCHANGED <<state, waiting_for>>
  <2>1. Live' = Live /\ Dead' = Dead
    BY <1>5 DEF Live, Dead
  <2>2. WaitInv'
    BY <1>1, <1>2, <1>3, <1>5, <2>1 DEF WaitInv, Collected
  <2>3. WaitSound'
    BY <1>1, <1>2, <1>3, <1>5, <2>1 DEF WaitSound, HasExitCode
  <2> QED
    BY <2>2, <2>3
<1>6. CASE ~HasExitCode(pid) /\ sleep_current_waiting_for(pid)
  <2> DEFINE h == Head(ready_queue)
  <2>1. ready_queue # <<>>
    BY <1>1, SomebodyReady DEF IInv
  <2>2. h \in TaskId /\ contains(ready_queue, h)
    BY <2>1, PopFront DEF IInv, OneHome, TypeOK
  <2>3. state[h] = "Ready" /\ h # t
    BY <1>3, <2>2 DEF IInv, OneHome
  <2>4. /\ waiting_for' = [waiting_for EXCEPT ![t] = pid]
        /\ state' = [[state EXCEPT ![t] = "Sleeping"] EXCEPT ![h] = "Running"]
    BY <1>1, <1>6, <2>1, Zenon DEF sleep_current_waiting_for, RunNext
  <2> HIDE DEF h
  <2>5. /\ state'[t] = "Sleeping" /\ state'[h] = "Running"
        /\ \A s \in TaskId : s # t /\ s # h => state'[s] = state[s]
        /\ waiting_for'[t] = pid
        /\ \A s \in TaskId : s # t => waiting_for'[s] = waiting_for[s]
    BY <2>2, <2>3, <2>4 DEF IInv, TypeOK
  <2>6. Live' = Live /\ Dead' = Dead
    BY <1>3, <2>2, <2>3, <2>5 DEF Live, Dead
  <2>7. pid \in Live
    <3>1. exit_status[pid] = NoCode
      BY <1>1, <1>6 DEF Collected, HasExitCode
    <3>2. pid \notin Dead
      BY <3>1 DEF WaitInv
    <3>3. state[pid] \in {"None", "Running", "Ready", "Sleeping", "Exited", "Dropped"}
      BY DEF IInv, TypeOK
    <3> QED
      BY <1>4, <3>2, <3>3 DEF Live, Dead
  <2>8. WaitInv'
    <3>1. \A s \in TaskId : state'[s] = "Sleeping" => pc'[s] = "wait" /\ waiting_for'[s] = arg'[s]
      BY <1>2, <2>3, <2>5 DEF WaitInv
    <3>2. (\A s \in TaskId : pc[s] = "wait" => s \in Live /\ parent[arg[s]] = s /\ ~Collected(arg[s]))'
      <4> SUFFICES ASSUME NEW s \in TaskId, pc'[s] = "wait"
          PROVE  /\ s \in Live' /\ parent'[arg'[s]] = s
                 /\ ~(exit_status'[arg'[s]] # NoCode /\ exit_codes'[arg'[s]] = NoCode)
        BY DEF Collected
      <4>1. CASE s = t
        BY <1>1, <1>2, <1>3, <2>6, <4>1, Zenon DEF Collected
      <4>2. CASE s # t
        <5>1. pc[s] = "wait" /\ arg'[s] = arg[s]
          BY <1>2, <4>2
        <5>2. s \in Live /\ parent[arg[s]] = s /\ ~Collected(arg[s])
          BY <5>1 DEF WaitInv
        <5> QED
          BY <1>1, <2>6, <5>1, <5>2, Zenon DEF Collected
      <4> QED
        BY <4>1, <4>2
    <3>3. \A s \in TaskId : exit_status'[s] # NoCode <=> s \in Dead'
      BY <1>1, <2>6 DEF WaitInv
    <3>4. \A s \in TaskId : parent'[s] # NoTask => state'[s] # "None"
      BY <1>1, <1>3, <2>3, <2>5 DEF WaitInv
    <3> QED
      BY <3>1, <3>2, <3>3, <3>4 DEF WaitInv
  <2>9. WaitSound'
    BY <1>1, <1>2, <1>3, <2>3, <2>5, <2>6, <2>7 DEF WaitSound
  <2> QED
    BY <2>8, <2>9
<1> QED
  BY <1>5, <1>6 DEF ParentWaits, sleep_waiting_for

(* The exit wakes the one task that sleeps for the exiting one, although   *)
(* pick_next_task_on_exit looks for a single waiter only.                  *)
LEMMA ExitWakes ==
    ASSUME IInv, WaitInv, NEW t \in TaskId, NEW h \in TaskId, RunsNext(t, h)
    PROVE  \A s \in TaskId : state[s] = "Sleeping" /\ waiting_for[s] = t => s = h
<1>1. SUFFICES ASSUME NEW s \in TaskId, state[s] = "Sleeping", waiting_for[s] = t PROVE s = h
  OBVIOUS
<1>2. \A r \in TaskId : state[r] = "Sleeping" /\ waiting_for[r] = t => r = parent[t]
  BY DEF WaitInv
<1>3. CASE state[h] = "Sleeping"
  BY <1>1, <1>2, <1>3 DEF RunsNext
<1>4. CASE state[h] # "Sleeping"
  <2>1. PICK i \in 1 .. Len(sleeping_tasks) : sleeping_tasks[i] = s
    BY <1>1 DEF IInv, OneHome, contains
  <2>2. ASSUME NEW j \in 1 .. (i - 1), waiting_for[sleeping_tasks[j]] = t PROVE FALSE
    <3>1. j \in 1 .. Len(sleeping_tasks) /\ j # i
      BY DEF IInv, TypeOK
    <3>2. sleeping_tasks[j] \in TaskId /\ contains(sleeping_tasks, sleeping_tasks[j])
      BY <3>1 DEF IInv, TypeOK, contains
    <3>3. state[sleeping_tasks[j]] = "Sleeping"
      BY <3>2 DEF IInv, OneHome
    <3>4. sleeping_tasks[j] = s
      BY <1>1, <1>2, <2>2, <3>2, <3>3
    <3> QED
      BY <2>1, <3>1, <3>4 DEF IInv, OneHome, NoDuplicates
  <2>3. IsFirstWaiter(i, t)
    BY <1>1, <2>1, <2>2 DEF IsFirstWaiter
  <2> QED
    BY <1>4, <2>3 DEF RunsNext
<1> QED
  BY <1>3, <1>4

(* A task that exits leaves its code to the one that waits for it.         *)
LEMMA WaitExit ==
    ASSUME IInv, WaitInv, WaitSound,
           NEW t \in TaskId, NEW code \in ExitCodes, exit_current(t, code)
    PROVE  WaitInv' /\ WaitSound'
<1>1. /\ pick_next_task_on_exit(code) /\ t = current_task /\ t # KERNEL
      /\ pc[t] = "run" /\ pc' = pc /\ arg' = arg
  BY DEF exit_current, Executing
<1>2. state[t] = "Running" /\ t \in Live
  BY <1>1 DEF IInv, OneHome, Live
<1>3. /\ exit_codes'[t] = code /\ exit_status'[t] = code /\ code # NoCode
      /\ \A s \in TaskId : s # t => /\ exit_codes'[s] = exit_codes[s]
                                    /\ exit_status'[s] = exit_status[s]
  <2>1. /\ exit_status' = [exit_status EXCEPT ![t] = code]
        /\ exit_codes' = [exit_codes EXCEPT ![t] = code]
    BY <1>1 DEF pick_next_task_on_exit, record_exit
  <2> QED
    BY <2>1, NoCodeAssumption DEF IInv, TypeOK
<1>4. PICK h \in TaskId : RunsNext(t, h)
  BY <1>1, ExitRunsNext
<1>5. /\ h # t /\ state[h] \in {"Ready", "Sleeping"}
      /\ state'[t] = "Exited" /\ state'[h] = "Running"
      /\ \A s \in TaskId : s # t /\ s # h => state'[s] = state[s]
      /\ \A s \in TaskId : s # h => waiting_for'[s] = waiting_for[s]
      /\ state[h] = "Sleeping" => waiting_for[h] = t
  BY <1>4 DEF RunsNext
<1>6. Live' = Live \ {t} /\ Dead' = Dead \cup {t}
  BY <1>2, <1>5 DEF Live, Dead
<1>7. \A s \in TaskId : pc[s] = "wait" => s # t /\ arg[s] \in TaskId /\ parent[arg[s]] = s
  BY <1>1 DEF IInv, FreshIds, WaitInv
<1>8. \A c \in TaskId : parent'[c] = parent[c] \/ (c \in Live /\ parent[c] = t)
  <2>1. parent' = [c \in TaskId |->
                     IF c \in children[t] \cap (Live \ {t})
                     THEN IF parent[t] = NoTask THEN KERNEL ELSE parent[t] ELSE parent[c]]
    BY <1>1 DEF pick_next_task_on_exit, reparent
  <2>2. \A c \in children[t] : parent[c] = t
    BY <1>2 DEF IInv, ProcessTree
  <2> QED
    BY <2>1, <2>2
<1>9. \A s \in TaskId : pc[s] = "wait" =>
        s \in Live' /\ parent'[arg[s]] = s /\ ~(exit_status'[arg[s]] # NoCode /\ exit_codes'[arg[s]] = NoCode)
  <2> SUFFICES ASSUME NEW s \in TaskId, pc[s] = "wait"
               PROVE  /\ s \in Live' /\ parent'[arg[s]] = s
                      /\ ~(exit_status'[arg[s]] # NoCode /\ exit_codes'[arg[s]] = NoCode)
    OBVIOUS
  <2>1. s # t /\ arg[s] \in TaskId /\ parent[arg[s]] = s
    BY <1>7
  <2>2. s \in Live /\ ~Collected(arg[s])
    BY DEF WaitInv
  <2>3. s \in Live' /\ parent'[arg[s]] = s
    BY <1>6, <1>8, <2>1, <2>2
  <2>4. ~(exit_status'[arg[s]] # NoCode /\ exit_codes'[arg[s]] = NoCode)
    BY <1>3, <2>1, <2>2 DEF Collected
  <2> QED
    BY <2>3, <2>4
<1>10. \A s \in TaskId : exit_status'[s] # NoCode <=> s \in Dead'
  BY <1>3, <1>6 DEF WaitInv
<1>11. \A s \in TaskId : parent'[s] # NoTask => state'[s] # "None"
  <2> SUFFICES ASSUME NEW s \in TaskId, parent'[s] # NoTask PROVE state'[s] # "None"
    OBVIOUS
  <2>1. state[s] # "None"
    BY <1>8 DEF WaitInv, Live
  <2> QED
    BY <1>5, <2>1
<1>12. \A s \in TaskId : state'[s] = "Sleeping" =>
         s # h /\ s # t /\ state[s] = "Sleeping" /\ waiting_for'[s] = waiting_for[s]
  BY <1>5
<1>13. WaitInv'
  <2>1. \A s \in TaskId : state'[s] = "Sleeping" => pc'[s] = "wait" /\ waiting_for'[s] = arg'[s]
    BY <1>1, <1>12, Zenon DEF WaitInv
  <2>2. (\A s \in TaskId : pc[s] = "wait" => s \in Live /\ parent[arg[s]] = s /\ ~Collected(arg[s]))'
    BY <1>1, <1>9 DEF Collected
  <2> QED
    BY <1>10, <1>11, <2>1, <2>2, Zenon DEF WaitInv
<1>14. \A s \in TaskId : state'[s] = "Sleeping" => waiting_for'[s] \in Live'
  <2> SUFFICES ASSUME NEW s \in TaskId, state'[s] = "Sleeping" PROVE waiting_for'[s] \in Live'
    OBVIOUS
  <2>1. s # h /\ state[s] = "Sleeping" /\ waiting_for'[s] = waiting_for[s]
    BY <1>12
  <2>2. waiting_for[s] \in Live
    BY <2>1 DEF WaitSound
  <2>3. waiting_for[s] # t
    BY <1>4, <2>1, ExitWakes
  <2> QED
    BY <1>6, <2>1, <2>2, <2>3
<1>15. \A s \in TaskId : pc'[s] = "wait" /\ state'[s] \in {"Running", "Ready"} =>
         exit_codes'[arg'[s]] # NoCode
  <2>1. ASSUME NEW s \in TaskId, pc[s] = "wait", state'[s] \in {"Running", "Ready"}
        PROVE  arg[s] = t \/ exit_codes[arg[s]] # NoCode
    BY <1>5, <2>1 DEF WaitInv, WaitSound
  <2> QED
    BY <1>1, <1>3, <1>7, <2>1
<1> QED
  BY <1>13, <1>14, <1>15 DEF WaitSound

(* Every step under the shell's discipline keeps the two.                  *)
LEMMA NextWait ==
    IInv /\ WaitInv /\ WaitSound /\ [NextParentWaits]_vars => IInv' /\ WaitInv' /\ WaitSound'
<1>1. SUFFICES ASSUME IInv, WaitInv, WaitSound, [NextParentWaits]_vars
               PROVE  IInv' /\ WaitInv' /\ WaitSound'
  OBVIOUS
<1>2. [Next]_vars
  BY <1>1 DEF NextParentWaits, Next, ParentWaits
<1>3. IInv'
  BY <1>1, <1>2, NextIInv
<1>4. ASSUME pick_next_task,
             UNCHANGED <<exit_codes, exit_status, parent, waiting_for, pc, arg>>
      PROVE  WaitInv' /\ WaitSound'
  <2>1. \A s \in TaskId : \/ state'[s] = state[s]
                          \/ /\ state[s] \in {"Running", "Ready"}
                             /\ state'[s] \in {"Running", "Ready"}
    BY <1>1, <1>4, PickNext
  <2> QED
    BY <1>1, <1>4, <2>1, WaitQuiet
<1>5. CASE preempt_sched
  BY <1>3, <1>4, <1>5 DEF preempt_sched
<1>6. CASE DropAndSwitch
  <2>1. /\ state' = [t \in TaskId |-> IF t \in stale THEN "Dropped" ELSE state[t]]
        /\ UNCHANGED <<exit_codes, exit_status, parent, waiting_for, pc, arg>>
    BY <1>6 DEF DropAndSwitch, schedVars
  <2>2. \A s \in TaskId : state'[s] = state[s] \/ (state[s] = "Exited" /\ state'[s] = "Dropped")
    BY <1>1, <2>1 DEF IInv, OneHome
  <2> QED
    BY <1>1, <1>3, <2>1, <2>2, WaitQuiet
<1>7. ASSUME NEW t \in TaskId, sched(t) PROVE WaitInv' /\ WaitSound'
  BY <1>4, <1>7 DEF sched
<1>8. ASSUME NEW t \in TaskId, Step(t), ~sched(t) PROVE WaitInv' /\ WaitSound'
  BY <1>1, <1>8, WaitSpawnNew, WaitSpawnPush, WaitExit, WaitTake DEF Step
<1>9. ASSUME NEW t \in TaskId, NEW pid \in TaskId, ParentWaits(t, pid)
      PROVE  WaitInv' /\ WaitSound'
  BY <1>1, <1>9, WaitSleep
<1>10. CASE UNCHANGED vars
  BY <1>1, <1>3, <1>10, WaitQuiet DEF vars, schedVars, taskVars
<1> QED
  BY <1>1, <1>3, <1>5, <1>6, <1>7, <1>8, <1>9, <1>10 DEF NextParentWaits

(* Under the shell's discipline no task sleeps for one that has exited, and*)
(* a sys_wait that stopped waiting finds the code of its child: no wakeup  *)
(* is lost between the two critical sections of sys_wait and the exit.     *)
THEOREM WaitersAreWoken == ParentWaitsSpec => []WaitSound
<1>1. Init => IInv /\ WaitInv /\ WaitSound
  <2>1. SUFFICES ASSUME Init PROVE WaitInv /\ WaitSound
    BY InitIInv
  <2>2. \A t \in TaskId :
          /\ state[t] \notin {"Sleeping", "Exited", "Dropped"} /\ pc[t] # "wait"
          /\ exit_status[t] = NoCode /\ parent[t] = NoTask
    BY <2>1 DEF Init, InitWith
  <2> QED
    BY <2>2 DEF WaitInv, WaitSound, Dead
<1> QED
  BY <1>1, NextWait, PTL DEF ParentWaitsSpec
=============================================================================
