---------------------------- MODULE ContextSwitch ----------------------------
(***************************************************************************)
(* From a task to the kernel and back: ctx_switch.S instruction by          *)
(* instruction, the vectors of exc_vec.c that lead to it, and the frame that *)
(* task_create leaves for a task's first run.  Memory is in words.  r1       *)
(* stands for r1 and r2, r4 for r4 to r11; a program status is its mode and  *)
(* one bit for all of its flags.                                            *)
(***************************************************************************)
EXTENDS Integers, Sequences

CONSTANTS Tasks,     \* how many tasks there are
          Room,      \* words of each stack that the task itself uses
          MaxSteps   \* bound: instructions of the tasks

\* What is assumed of the constants.
ContextSwitchAssumption ==
    Tasks \in Nat \ {0} /\ Room \in Nat /\ MaxSteps \in Nat

Task     == 1 .. Tasks
Common   == {"r0", "r1", "r3", "r4", "r12"}
UserRegs == <<"r0", "r1", "r3", "r4", "r12", "sp", "lr">>
Modes    == {"usr", "svc", "irq", "und"}

\* struct task_regs: spsr and pc below the registers
FrameWords == Len(UserRegs) + 2

KernelTop   == 3                                    \* where the kernel's stack begins
TdAddr(t)   == KernelTop + t - 1                    \* td->regs, in struct task_desc
StackTop(t) == KernelTop + Tasks + t * (FrameWords + Room)
Entry(t)    == 100 * t
Wrapper     == 10    \* the function of u_syscall.S that a task calls: swi; mov pc, lr
ExitAddr    == 20
KernelCode  == 30    \* where the kernel called ctx_switch from
UsrPsr(f)   == 40 + f
Psr         == {UsrPsr(0), UsrPsr(1)}
INTR        == [kern_entry_swi |-> 51, kern_entry_irq |-> 52, kern_entry_undef |-> 53]

VARIABLES reg,      \* the registers, those of each mode apart
          cpsr,     \* mode, and the flags of a task that runs
          spsr,     \* of each mode
          memory,
          routine,  \* what runs: "user", "kernel", or a function of ctx_switch.S
          pc,       \* in the task, or the next instruction of the routine
          running,  \* the task that was last switched to
          left,     \* what each task was when it was left, with the result since given
          steps

csVars == <<reg, cpsr, spsr, memory, routine, pc, running, left, steps>>

-----------------------------------------------------------------------------
(* Instructions *)

Stm(base, list)     == [op |-> "stm", base |-> base, list |-> list, writeback |-> FALSE]
StmWb(base, list)   == [op |-> "stm", base |-> base, list |-> list, writeback |-> TRUE]
LdmWb(base, list)   == [op |-> "ldm", base |-> base, list |-> list]
LdmPc(base, list)   == [op |-> "ldmpc", base |-> base, list |-> list]  \* list and pc
LdmUser(base, list) == [op |-> "ldmuser", base |-> base, list |-> list]
Ldr(rd, base)       == [op |-> "ldr", rd |-> rd, base |-> base]
Pop(rd, base)       == [op |-> "pop", rd |-> rd, base |-> base]
Str(rs, base)       == [op |-> "str", rs |-> rs, base |-> base]
Mov(rd, value)      == [op |-> "mov", rd |-> rd, value |-> value]
Sub(rd, rn, value)  == [op |-> "sub", rd |-> rd, rn |-> rn, value |-> value]
Mode(mode)          == [op |-> "mode", mode |-> mode]
ReadSpsr(rd)        == [op |-> "mrs", rd |-> rd]
WriteSpsr(rs)       == [op |-> "msr", rs |-> rs]
MovsPcLr            == [op |-> "movs"]

ctx_switch == <<
    StmWb("sp", <<"r0", "r4", "lr">>),
    Ldr("r12", "r0"),
    LdmWb("r12", <<"r3", "lr">>),
    WriteSpsr("r3"),
    LdmUser("r12", UserRegs),
    MovsPcLr >>

\* The entries differ in their mode and in what they answer.
SaveTask(mode, code) == <<
    Mode("sys"),
    Stm("sp", UserRegs),
    Sub("r12", "sp", Len(UserRegs)),
    Mode(mode),
    ReadSpsr("r3"),
    StmWb("r12", <<"r3", "lr">>),
    Mode("svc"),
    Pop("r0", "sp"),
    Str("r12", "r0"),
    Mov("r0", code),
    LdmPc("sp", <<"r4">>) >>

kern_entry_swi   == SaveTask("svc", INTR["kern_entry_swi"])
kern_entry_irq   == <<Sub("lr", "lr", 1)>> \o SaveTask("irq", INTR["kern_entry_irq"])
kern_entry_undef == <<Sub("lr", "lr", 1)>> \o SaveTask("und", INTR["kern_entry_undef"])

\* Mutant: the entry for IRQs reads the registers of the kernel's mode.
EntryIrqInSvc(r) ==
    CASE r = "ctx_switch"       -> ctx_switch
      [] r = "kern_entry_swi"   -> kern_entry_swi
      [] r = "kern_entry_irq"   -> <<Sub("lr", "lr", 1)>> \o SaveTask("svc", INTR[r])
      [] r = "kern_entry_undef" -> kern_entry_undef

Code(r) == CASE r = "ctx_switch"       -> ctx_switch
             [] r = "kern_entry_swi"   -> kern_entry_swi
             [] r = "kern_entry_irq"   -> kern_entry_irq
             [] r = "kern_entry_undef" -> kern_entry_undef

\* The table: offsets, in words from two instructions on, of the words that
\* the vectors load; then the words.
vecTbl == [offset |-> [i \in {0, 1, 2, 3, 4, 6, 7} |-> IF i < 6 THEN 6 ELSE 5],
           word   |-> [k \in {9, 10, 13} |-> CASE k = 9  -> "kern_entry_undef"
                                               [] k = 10 -> "kern_entry_swi"
                                               [] k = 13 -> "kern_entry_irq"]]

Vector(i) == vecTbl.word[i + 2 + vecTbl.offset[i]]
-----------------------------------------------------------------------------
(* The processor *)

\* Which register name r is in a mode
Phys(r, mode) ==
    IF r \in Common THEN <<r, "all">> ELSE <<r, IF mode = "sys" THEN "usr" ELSE mode>>

Get(r) == reg[Phys(r, cpsr.mode)]

\* The registers of a list read from the words at address a on, in a mode
Loaded(list, a, mode) ==
    [p \in DOMAIN reg |->
        IF \E i \in DOMAIN list : Phys(list[i], mode) = p
        THEN memory[a + (CHOOSE i \in DOMAIN list : Phys(list[i], mode) = p) - 1]
        ELSE reg[p]]

Stored(list, a) ==
    [x \in DOMAIN memory |-> IF x \in a .. a + Len(list) - 1 THEN Get(list[x - a + 1]) ELSE memory[x]]

SetReg(r, value) == reg' = [reg EXCEPT ![Phys(r, cpsr.mode)] = value]

GoesOn == pc' = pc + 1 /\ UNCHANGED <<routine, running, left, steps>>

StoreMultiple(i) ==
    LET a == Get(i.base) - Len(i.list) IN
    /\ memory' = Stored(i.list, a)
    /\ IF i.writeback THEN SetReg(i.base, a) ELSE UNCHANGED reg
    /\ GoesOn /\ UNCHANGED <<cpsr, spsr>>

\* With pc as the last of the list it returns.
LoadMultiple(i) ==
    LET a      == Get(i.base)
        above  == a + Len(i.list)
        loaded == Loaded(i.list, a, cpsr.mode)
    IN
    /\ \/ /\ i.op = "ldm" /\ GoesOn
          /\ reg' = [loaded EXCEPT ![Phys(i.base, cpsr.mode)] = above]
       \/ /\ i.op = "ldmpc"
          /\ reg' = [loaded EXCEPT ![Phys(i.base, cpsr.mode)] = above + 1]
          /\ routine' = "kernel" /\ pc' = memory[above]
          /\ UNCHANGED <<running, left, steps>>
    /\ UNCHANGED <<cpsr, spsr, memory>>

OneRegister(i) ==
    /\ \/ i.op = "ldr" /\ SetReg(i.rd, memory[Get(i.base)])
       \/ i.op = "pop" /\ reg' = [Loaded(<<i.rd>>, Get(i.base), cpsr.mode) EXCEPT
                                    ![Phys(i.base, cpsr.mode)] = @ + 1]
       \/ i.op = "mov" /\ SetReg(i.rd, i.value)
       \/ i.op = "sub" /\ SetReg(i.rd, Get(i.rn) - i.value)
       \/ i.op = "mrs" /\ SetReg(i.rd, spsr[cpsr.mode])
       \/ i.op = "ldmuser" /\ reg' = Loaded(i.list, Get(i.base), "usr")
    /\ GoesOn /\ UNCHANGED <<cpsr, spsr, memory>>

StatusOrStore(i) ==
    /\ \/ i.op = "mode" /\ cpsr' = [cpsr EXCEPT !.mode = i.mode] /\ UNCHANGED <<spsr, memory>>
       \/ i.op = "msr" /\ spsr' = [spsr EXCEPT ![cpsr.mode] = Get(i.rs)]
          /\ UNCHANGED <<cpsr, memory>>
       \/ i.op = "str" /\ memory' = [memory EXCEPT ![Get(i.base)] = Get(i.rs)]
          /\ UNCHANGED <<cpsr, spsr>>
    /\ GoesOn /\ UNCHANGED reg

\* movs pc, lr, with the status in spsr
ReturnToTask(i) ==
    /\ i.op = "movs"
    /\ cpsr' = [mode |-> "usr", flags |-> spsr[cpsr.mode] - UsrPsr(0)]
    /\ pc' = Get("lr")
    /\ routine' = IF spsr[cpsr.mode] \in Psr THEN "user" ELSE "lost"
    /\ UNCHANGED <<reg, spsr, memory, running, left, steps>>

Instruction ==
    /\ routine \in DOMAIN INTR \cup {"ctx_switch"}
    /\ LET i == Code(routine)[pc] IN
       \/ i.op = "stm" /\ StoreMultiple(i)
       \/ LoadMultiple(i) \/ OneRegister(i) \/ StatusOrStore(i) \/ ReturnToTask(i)

-----------------------------------------------------------------------------
(* The tasks *)

\* The words that a task has on its stack
Words(t, sp) == [k \in 1 .. Room |-> IF StackTop(t) - k >= sp THEN memory[StackTop(t) - k] ELSE 0]

\* What a task sees
View == [regs  |-> [i \in DOMAIN UserRegs |-> reg[Phys(UserRegs[i], "usr")]],
         flags |-> cpsr.flags,
         pc    |-> pc,
         words |-> Words(running, reg[<<"sp", "usr">>])]

\* A value that no register has had
Fresh == 1000 + steps

Own == routine = "user" /\ steps < MaxSteps /\ steps' = steps + 1
       /\ UNCHANGED <<spsr, routine, running, left>>

Compute ==
    /\ Own /\ pc # Wrapper /\ pc # Wrapper + 1
    /\ pc' = pc + 1
    /\ \/ \E r \in Common \cup {"lr"} : SetReg(r, Fresh) /\ UNCHANGED <<cpsr, memory>>
       \/ cpsr' = [cpsr EXCEPT !.flags = 1 - @] /\ UNCHANGED <<reg, memory>>
       \/ /\ Get("sp") > StackTop(running) - Room
          /\ SetReg("sp", Get("sp") - 1)
          /\ memory' = [memory EXCEPT ![Get("sp") - 1] = Fresh]
          /\ UNCHANGED cpsr

CallKernel ==
    /\ Own /\ pc # Wrapper /\ pc # Wrapper + 1
    /\ SetReg("lr", pc + 1)
    /\ pc' = Wrapper
    /\ UNCHANGED <<cpsr, memory>>

WrapperReturns ==
    /\ Own /\ pc = Wrapper + 1
    /\ pc' = Get("lr")
    /\ UNCHANGED <<reg, cpsr, memory>>

\* The mode the processor takes an exception in, by its vector
TrapMode(v) == CASE v = 1 -> "und" [] v = 2 -> "svc" [] v = 6 -> "irq"

\* swi at the wrapper; an undefined instruction, of the FPU, elsewhere; an IRQ
\* at any time.  The processor keeps the address behind the instruction.
Trap ==
    /\ routine = "user"
    /\ \E v \in {1, 2, 6} :
          /\ v = 2 <=> pc = Wrapper /\ v # 6
          /\ v = 1 => pc # Wrapper + 1
          /\ cpsr' = [cpsr EXCEPT !.mode = TrapMode(v)]
          /\ spsr' = [spsr EXCEPT ![TrapMode(v)] = UsrPsr(cpsr.flags)]
          /\ reg' = [reg EXCEPT ![<<"lr", TrapMode(v)>>] = pc + 1]
          /\ routine' = Vector(v)
          /\ pc' = 1
          /\ left' = [left EXCEPT ![running] =
                 [kind |-> v, view |-> [View EXCEPT !.pc = IF v = 2 THEN pc + 1 ELSE pc]]]
    /\ UNCHANGED <<memory, running, steps>>

-----------------------------------------------------------------------------
(* The kernel *)

\* td->regs->r0 of a task that waits in a system call
SetResult(t) ==
    /\ routine = "kernel"
    /\ left[t].kind = 2
    /\ memory' = [memory EXCEPT ![memory[TdAddr(t)] + 2] = 60]
    /\ left' = [left EXCEPT ![t].view.regs[1] = 60, ![t].kind = 0]
    /\ UNCHANGED <<reg, cpsr, spsr, routine, pc, running, steps>>

\* The kernel calls ctx_switch, with values of its own in the registers.
kern_activate(t) ==
    /\ routine = "kernel"
    /\ reg' = [p \in DOMAIN reg |->
                 CASE p = <<"r0", "all">> -> TdAddr(t)
                   [] p = <<"r4", "all">> -> 70
                   [] p = <<"lr", "svc">> -> KernelCode
                   [] p[2] = "all" /\ p[1] \notin {"r0", "r4"} -> 71
                   [] OTHER -> reg[p]]
    /\ running' = t
    /\ routine' = "ctx_switch"
    /\ pc' = 1
    /\ UNCHANGED <<cpsr, spsr, memory, left, steps>>

-----------------------------------------------------------------------------

\* task_create: spsr, pc, sp and lr of the frame; nothing sets the others.
InitialFrame(t) == <<UsrPsr(0), Entry(t), 0, 0, 0, 0, 0, StackTop(t), ExitAddr>>

CsInit ==
    /\ reg = [p \in {<<r, "all">> : r \in Common} \cup ({"sp", "lr"} \X Modes) |->
                IF p = <<"sp", "svc">> THEN KernelTop ELSE 0]
    /\ cpsr = [mode |-> "svc", flags |-> 0]
    /\ spsr = [m \in Modes |-> 0]
    /\ memory = [a \in 0 .. StackTop(Tasks) |->
                LET t == 1 + (a - KernelTop - Tasks) \div (FrameWords + Room) IN
                IF a < KernelTop THEN 0
                ELSE IF a < KernelTop + Tasks
                THEN StackTop(a - KernelTop + 1) - FrameWords
                ELSE IF t <= Tasks /\ a >= StackTop(t) - FrameWords
                     THEN InitialFrame(t)[a - StackTop(t) + FrameWords + 1] ELSE 0]
    /\ routine = "kernel"
    /\ pc = KernelCode
    /\ running = 1
    /\ left = [t \in Task |->
                 [kind |-> 0,
                  view |-> [regs  |-> [i \in DOMAIN UserRegs |-> InitialFrame(t)[i + 2]],
                            flags |-> 0, pc |-> Entry(t), words |-> [k \in 1 .. Room |-> 0]]]]
    /\ steps = 0

CsNext == \/ Instruction \/ Compute \/ CallKernel \/ WrapperReturns \/ Trap
          \/ \E t \in Task : SetResult(t) \/ kern_activate(t)

CsSpec == CsInit /\ [][CsNext]_csVars

-----------------------------------------------------------------------------
(* Properties *)

\* A task that is switched to finds its registers, flags and stack as it left
\* them, wherever an IRQ or an undefined instruction stopped it, and goes on
\* with the instruction that was stopped; after a system call only r0 may
\* differ, and is the result.  And the kernel finds the registers that a callee
\* keeps, its stack, and why the task stopped, and goes on behind its call.
SwitchPreserves ==
    /\ routine = "ctx_switch" /\ routine' # routine =>
          routine' = "user" /\ View' = left[running].view
    /\ routine \in DOMAIN INTR /\ routine' # routine =>
          /\ routine' = "kernel" /\ pc' = KernelCode
          /\ reg'[<<"r4", "all">>] = 70 /\ reg'[<<"sp", "svc">>] = KernelTop
          /\ reg'[<<"r0", "all">>] = INTR[routine]
          /\ cpsr'.mode = "svc"

RegistersPreserved == [][SwitchPreserves]_csVars
=============================================================================
