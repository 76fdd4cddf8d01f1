------------------------------ MODULE KernelFp ------------------------------
(***************************************************************************)
(* Lazy switching of the floating point context (HARD_FLOAT): the kernel of *)
(* module Kernel together with fp_ctx_holder and the contexts saved on task *)
(* stacks.  A context is known by the TID of the task that computed it.     *)
(***************************************************************************)
EXTENDS Kernel

CONSTANT StaleFlags   \* descriptors whose uninitialised fpu_ctx_on_stack reads
                      \* as 1: struct kern is an automatic variable, and
                      \* neither kern_init nor task_create sets the field
ASSUME StaleAssumption == StaleFlags \subseteq Ix

VARIABLES
    fp_ctx_holder,      \* struct kern
    fpu_ctx_on_stack,   \* the descriptors where it is set
    fpu_regs,           \* what the descriptor's saved context is
    fpu,                \* what the FPU's registers hold
    left                \* the descriptors that a task has left, by history

fpVars == <<fp_ctx_holder, fpu_ctx_on_stack, fpu_regs, fpu>>

FpInit == /\ Init
          /\ fp_ctx_holder = NoTask
          /\ fpu_ctx_on_stack = StaleFlags
          /\ fpu_regs = [t \in Ix |-> NoTid]
          /\ fpu = NoTid
          /\ left = {}

\* vfp_save_state for the holder, if there is one
Saved == IF fp_ctx_holder = NoTask THEN fpu_regs
         ELSE [fpu_regs EXCEPT ![fp_ctx_holder] = fpu]

\* Mutant: the old holder is not marked.
FlaggedNone == fpu_ctx_on_stack

\* The descriptors marked once the holder's context is saved
Flagged == fpu_ctx_on_stack \cup ({fp_ctx_holder} \ {NoTask})

\* Mutant: the holder's registers are overwritten before they are saved.
RestoreFpuNoSave(t) ==
    IF t \in fpu_ctx_on_stack
    THEN /\ fpu' = fpu_regs[t]
         /\ fpu_regs' = [fpu_regs EXCEPT ![t] = NoTid]
         /\ fpu_ctx_on_stack' = Flagged \ {t}
         /\ fp_ctx_holder' = t
    ELSE UNCHANGED fpVars

\* kern_main has scheduled t: its saved context, if any, takes the place of
\* the holder's.
RestoreFpu(t) ==
    IF t \in fpu_ctx_on_stack
    THEN /\ fpu' = Saved[t]
         /\ fpu_regs' = [Saved EXCEPT ![t] = NoTid]
         /\ fpu_ctx_on_stack' = Flagged \ {t}
         /\ fp_ctx_holder' = t
    ELSE UNCHANGED fpVars

FpSchedule == /\ Schedule
              /\ IF phase' = "user" THEN RestoreFpu(active') ELSE UNCHANGED fpVars

\* kern_handle_undef for a task that is not the holder: a fresh context
FpTake == /\ FpuTrap
          /\ fp_ctx_holder # active
          /\ fpu' = TASK_TID(active)
          /\ fpu_regs' = Saved
          /\ fpu_ctx_on_stack' = Flagged
          /\ fp_ctx_holder' = active

FpKill == KillUndef /\ fp_ctx_holder = active /\ UNCHANGED fpVars

FpStep == \/ FpSchedule
          \/ FpTake
          \/ FpKill
          \/ /\ \/ SkipSchedule \/ Halt \/ SysCall \/ Terminated
                \/ \E i \in Irqs : DeviceAssert(i) \/ Irq(i)
             /\ UNCHANGED fpVars

Leaving == {t \in Ix : state[t] # "FREE" /\ state'[t] = "FREE"}

FpNext == FpStep /\ left' = left \cup Leaving

FpSpec == FpInit /\ [][FpNext]_<<vars, fpVars, left>>

-----------------------------------------------------------------------------
(* Properties *)

\* Every variable of the floating point context switch has its type.
FpTypeOK == /\ TypeOK
            /\ fp_ctx_holder \in Ix \cup {NoTask}
            /\ fpu_ctx_on_stack \in SUBSET Ix
            /\ fpu_regs \in [Ix -> Tids \cup {NoTid}]
            /\ fpu \in Tids \cup {NoTid}
            /\ left \in SUBSET Ix

\* A task that runs with the FPU enabled, as the holder, finds its own context
\* in it: the registers it computed before it was preempted, or fresh ones.
FpuPrivate == phase = "user" /\ fp_ctx_holder = active => fpu = TASK_TID(active)

\* The same of tasks that are the first to have their descriptor
FirstOwnerPrivate ==
    phase = "user" /\ fp_ctx_holder = active /\ active \notin left =>
        fpu = TASK_TID(active)

\* A context that the marks of the kernel still count, on the stack of a task
\* or in the FPU, was computed by a task of that descriptor: no save or
\* restore crosses descriptors, whatever exits and is created in between.
ContextsInPlace ==
    /\ fp_ctx_holder # NoTask => fpu.ix = fp_ctx_holder
    /\ fp_ctx_holder \notin fpu_ctx_on_stack
    /\ \A t \in fpu_ctx_on_stack : fpu_regs[t].ix = t

\* No task ever computes with registers of another: neither the running one nor
\* one whose registers wait on a stack.
ContextsPrivate == FirstOwnerPrivate /\ ContextsInPlace

\* "The first time a task tries to use FPU instructions" (kern.c) is the only
\* time it gets fresh registers: no context is ever thrown away, for tasks that
\* are the first to have their descriptor.
FreshOnce ==
    [][phase = "user" /\ phase' = "retry" /\ active \notin left =>
          TASK_TID(active) \notin {fpu, fpu_regs[active]}]_<<vars, fpVars, left>>
=============================================================================
