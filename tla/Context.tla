------------------------------ MODULE Context ------------------------------
(* The registers of a task through the two ways the processor changes      *)
(* tasks: switch_context (arch/x86_64/context.rs), called by the task      *)
(* itself, and the timer interrupt, which pushes what the processor and    *)
(* preempt_timer_isr push, lets timer_preempt_handler choose the next task *)
(* and restores that one's context.  The kernel is built without floating  *)
(* point, so that a handler leaves the fpu and the segment bases alone.    *)
(* A register of a task holds the latest value the task gave it.           *)
EXTENDS Naturals

CONSTANTS
    CpuTasks,       \* the tasks that share the processor
    Junk            \* what a handler leaves in a register

ContextAssumption == Junk \notin {0, 1}

(* rip, rsp, rflags, cs and ss; the others; fs, gs and cr3; the fpu.       *)
Registers == {"frame", "general", "system", "fpu"}
Pushed == {"frame", "general"}
Files == [Registers -> {0, 1, Junk}]

VARIABLES
    cpu,            \* the registers of the processor
    context,        \* per task, the context saved for it
    interrupted,    \* what the interrupt has pushed, while the handler runs
    on_cpu,         \* the task on the processor, or under the handler
    in_isr,         \* whether the timer's handler runs
    own             \* per task, the value it last gave each register

contextVars == <<cpu, context, interrupted, on_cpu, in_isr, own>>

(* Context::init gives a new task the values it starts with.               *)
ContextInit ==
    /\ own = [t \in CpuTasks |-> [r \in Registers |-> 0]]
    /\ context = own
    /\ cpu = [r \in Registers |-> 0]
    /\ interrupted = [r \in Pushed |-> Junk]
    /\ on_cpu \in CpuTasks /\ in_isr = FALSE

execute(r) ==
    /\ ~in_isr
    /\ cpu' = [cpu EXCEPT ![r] = 1 - own[on_cpu][r]]
    /\ own' = [own EXCEPT ![on_cpu][r] = 1 - @]
    /\ UNCHANGED <<context, interrupted, on_cpu, in_isr>>

(* The next context is loaded before the fpu of the current one is saved.  *)
switch_context_FpuLate(next) ==
    /\ ~in_isr /\ next # on_cpu
    /\ context' = [context EXCEPT ![on_cpu] = [cpu EXCEPT !["fpu"] = context[next]["fpu"]]]
    /\ cpu' = context[next]
    /\ on_cpu' = next
    /\ UNCHANGED <<interrupted, in_isr, own>>

switch_context(next) ==
    /\ ~in_isr /\ next # on_cpu
    /\ context' = [context EXCEPT ![on_cpu] = cpu]
    /\ cpu' = context[next]
    /\ on_cpu' = next
    /\ UNCHANGED <<interrupted, in_isr, own>>

(* The pushes of the processor and of preempt_timer_isr, then the handler, *)
(* which uses the registers as any call does.                              *)
preempt_timer_isr ==
    /\ ~in_isr
    /\ interrupted' = [r \in Pushed |-> cpu[r]]
    /\ cpu' = [r \in Registers |-> IF r \in Pushed THEN Junk ELSE cpu[r]]
    /\ in_isr' = TRUE
    /\ UNCHANGED <<context, on_cpu, own>>

(* A null context: the registers are popped and the task goes on.          *)
pop_and_iretq ==
    /\ in_isr
    /\ cpu' = [r \in Registers |-> IF r \in Pushed THEN interrupted[r] ELSE cpu[r]]
    /\ interrupted' = [r \in Pushed |-> Junk]
    /\ in_isr' = FALSE
    /\ UNCHANGED <<context, on_cpu, own>>

(* preempt_sched fills the context of the current task from what was       *)
(* pushed and from the processor.                                          *)
SavedContext == [r \in Registers |-> IF r \in Pushed THEN interrupted[r] ELSE cpu[r]]

(* restore_context_and_iret loads the context of the next one, which is    *)
(* the current one when no other is ready.                                 *)
restore_context_and_iret(next) ==
    /\ in_isr
    /\ context' = [context EXCEPT ![on_cpu] = SavedContext]
    /\ cpu' = context'[next]
    /\ interrupted' = [r \in Pushed |-> Junk]
    /\ on_cpu' = next /\ in_isr' = FALSE
    /\ UNCHANGED own

ContextNext ==
    \/ \E r \in Registers : execute(r)
    \/ preempt_timer_isr \/ pop_and_iretq
    \/ \E t \in CpuTasks : switch_context(t) \/ restore_context_and_iret(t)

ContextSpec == ContextInit /\ [][ContextNext]_contextVars

----------------------------------------------------------------------------
ContextTypeOK ==
    /\ cpu \in Files /\ context \in [CpuTasks -> Files]
    /\ interrupted \in [Pushed -> {0, 1, Junk}]
    /\ on_cpu \in CpuTasks /\ in_isr \in BOOLEAN
    /\ own \in [CpuTasks -> [Registers -> {0, 1}]]

(* A task always finds its registers as it left them, whatever the tasks   *)
(* and handlers that ran in between did to the processor, and whichever of *)
(* the two ways it was switched out and in again.                          *)
RegistersKept ==
    /\ ContextTypeOK
    /\ ~in_isr => cpu = own[on_cpu]
    /\ in_isr => SavedContext = own[on_cpu]
    /\ \A t \in CpuTasks \ {on_cpu} : context[t] = own[t]
=============================================================================
