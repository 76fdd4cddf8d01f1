--------------------------------- MODULE Intc ---------------------------------
(***************************************************************************)
(* The interrupt controller, its driver interrupt.c, and intr.c on top of   *)
(* it, as the kernel's event.c uses them.  An IRQ number is a register and  *)
(* a bit in it; devices raise and lower their lines at any time.            *)
(***************************************************************************)
EXTENDS Integers, Sequences

CONSTANTS Banks,     \* registers that the IRQ numbers are spread over, 4
          BankBits,  \* bits of each, 32
          MaxIntc    \* how often anything but an interrupt happens

\* What is assumed of the constants.
IntcAssumption ==
    Banks \in Nat \ {0} /\ BankBits \in Nat \ {0} /\ MaxIntc \in Nat

Irq    == 0 .. Banks * BankBits - 1
NoneIn == -1
Priorities == {0, 1}

VARIABLES intc,     \* the registers: sets of bits by bank, flags, and ILR by IRQ
          lines,    \* IRQs that their devices raise
          latched,  \* the IRQ signalled to the processor, in SIR_IRQ, or NoneIn
          cpsr,     \* the processor's interrupt masks, a subset of {"I", "F"}
          at,       \* user; kernel; irq, masked, served: in kern_handle_irq;
                    \* resetting; over
          cur,      \* what evt_cur returned
          awaiting, \* IRQs whose task waits in AwaitEvent
          owned,    \* IRQs that a task has registered, with intr_config's priority
          nested,   \* what IntDisable returned, latest last, to those who still hold it
          set,      \* what the other calls so far should have come to
          intcCalls

intcVars == <<intc, lines, latched, cpsr, at, cur, awaiting, owned, nested, set, intcCalls>>

-----------------------------------------------------------------------------
(* The functions of interrupt.c: the registers afterwards *)

Bank(intrNum) == intrNum \div BankBits
Bit(intrNum)  == intrNum % BankBits
Bits(irqs, b) == {Bit(i) : i \in {j \in irqs : Bank(j) = b}}

\* External: what INTC_SYSCONFIG's reset leaves
IntcReset == [MIR |-> [b \in 0 .. Banks - 1 |-> 0 .. BankBits - 1],
              ISR |-> [b \in 0 .. Banks - 1 |-> {}],
              ILR |-> [i \in Irq |-> [prio |-> 0, fiq |-> FALSE]],
              SYSCONFIG |-> {}, PROTECTION |-> {}, IDLE |-> {}, THRESHOLD |-> 255]

\* The threshold is disabled, which is its value after the reset too.
IntAINTCInit == [IntcReset EXCEPT !.THRESHOLD = 255]

IntPrioritySet(i, priority, route) ==
    [intc EXCEPT !.ILR[i] = [prio |-> priority, fiq |-> route = "FIQ"]]

IntSystemEnable(i)  == [intc EXCEPT !.MIR[Bank(i)] = @ \ {Bit(i)}]
IntSystemDisable(i) == [intc EXCEPT !.MIR[Bank(i)] = @ \cup {Bit(i)}]

IntSoftwareIntSet(i)   == [intc EXCEPT !.ISR[Bank(i)] = @ \cup {Bit(i)}]
IntSoftwareIntClear(i) == [intc EXCEPT !.ISR[Bank(i)] = @ \ {Bit(i)}]

IntIfClkFreeRunSet     == [intc EXCEPT !.SYSCONFIG = @ \ {"AUTOIDLE"}]
IntIfClkAutoGateSet    == [intc EXCEPT !.SYSCONFIG = @ \cup {"AUTOIDLE"}]
IntProtectionEnable    == [intc EXCEPT !.PROTECTION = {"PROTECTION"}]
IntProtectionDisable   == [intc EXCEPT !.PROTECTION = @ \ {"PROTECTION"}]
IntSyncClkFreeRunSet   == [intc EXCEPT !.IDLE = @ \ {"TURBO"}]
IntSyncClkAutoGateSet  == [intc EXCEPT !.IDLE = @ \cup {"TURBO"}]
IntFuncClkFreeRunSet   == [intc EXCEPT !.IDLE = @ \cup {"FUNCIDLE"}]
IntFuncClkAutoGateSet  == [intc EXCEPT !.IDLE = @ \ {"FUNCIDLE"}]
IntPriorityThresholdSet(threshold) == [intc EXCEPT !.THRESHOLD = threshold]
IntPriorityThresholdGet == intc.THRESHOLD

\* External: ITR, the lines and software interrupts; PENDING_IRQ, those not masked
ITR(b)         == Bits(lines, b) \cup intc.ISR[b]
PENDING_IRQ(b) == ITR(b) \ intc.MIR[b]

IntRawStatusGet(i) == Bit(i) \in ITR(Bank(i))

\* The shift is by "(intrNum & REG_BIT_MASK) & 0x01", and what remains of the
\* whole register is compared with 0.
IntPendingIrqMaskedStatusGet(i) == \E n \in PENDING_IRQ(Bank(i)) : n >= Bit(i) % 2

\* The lowest seven bits of SIR_IRQ, and the bits that say that they are stale
IntActiveIrqNumGet == IF latched = NoneIn THEN 0 ELSE latched
IntSpurIrqFlagGet  == latched = NoneIn

\* cpu.c
CPUirqd == cpsr \cup {"I"}
CPUirqe == cpsr \ {"I"}
CPUfiqd == cpsr \cup {"F"}
CPUfiqe == cpsr \ {"F"}
CPUIntStatus == cpsr

\* Mutant: IRQs are on after any section.
EnableAlways(status) == CPUirqe

IntEnable(status) == IF "I" \notin status THEN CPUirqe ELSE cpsr

-----------------------------------------------------------------------------
(* The device: it signals the most urgent IRQ, and keeps to it until it is  *)
(* told that the processor has taken it                                     *)

Unmasked == {i \in Irq : Bit(i) \notin intc.MIR[Bank(i)]}

Eligible == {i \in Unmasked : /\ IntRawStatusGet(i)
                              /\ ~ intc.ILR[i].fiq
                              /\ intc.ILR[i].prio < intc.THRESHOLD}

Sort ==
    /\ latched = NoneIn
    /\ \E i \in Eligible :
          /\ \A j \in Eligible : intc.ILR[i].prio <= intc.ILR[j].prio
          /\ latched' = i
    /\ UNCHANGED <<intc, lines, cpsr, at, cur, awaiting, owned, nested, set, intcCalls>>

MayCall == intcCalls < MaxIntc /\ intcCalls' = intcCalls + 1

Raise == \E i \in owned \ lines :
    /\ MayCall
    /\ lines' = lines \cup {i}
    /\ UNCHANGED <<intc, latched, cpsr, at, cur, awaiting, owned, nested, set>>

-----------------------------------------------------------------------------
(* The kernel *)

\* ctx_switch gives the task's CPSR to the processor, an exception masks IRQs.
ToUser == /\ at = "kernel" /\ nested = << >>
          /\ at' = "user" /\ cpsr' = CPUirqe
          /\ UNCHANGED <<intc, lines, latched, cur, awaiting, owned, nested, set, intcCalls>>

Trap == /\ at = "user"
        /\ at' = "kernel" /\ cpsr' = CPUirqd
        /\ UNCHANGED <<intc, lines, latched, cur, awaiting, owned, nested, set, intcCalls>>

\* RegisterEvent, through intr_config, and AwaitEvent, through intr_enable
Register == \E i \in Irq \ owned :
    /\ at = "kernel" /\ "I" \in cpsr /\ nested = << >> /\ MayCall
    /\ intc' = IntPrioritySet(i, 1, "IRQ")
    /\ owned' = owned \cup {i}
    /\ UNCHANGED <<lines, latched, cpsr, at, cur, awaiting, nested, set>>

Await == \E i \in owned \ awaiting :
    /\ at = "kernel" /\ "I" \in cpsr /\ nested = << >>
    /\ intc' = IntSystemEnable(i)
    /\ awaiting' = awaiting \cup {i}
    /\ UNCHANGED <<lines, latched, cpsr, at, cur, owned, nested, set, intcCalls>>

\* evt_unregister, when a task that owns an IRQ exits; it is not waiting then.
Unregister == \E i \in owned \ awaiting :
    /\ at = "kernel" /\ "I" \in cpsr /\ nested = << >>
    /\ intc' = IntSystemDisable(i)
    /\ owned' = owned \ {i}
    /\ UNCHANGED <<lines, latched, cpsr, at, cur, awaiting, nested, set, intcCalls>>

\* kern_handle_irq begins with evt_cur; the callback then serves the device.
TakeIrq ==
    /\ at = "user" /\ latched # NoneIn /\ "I" \notin cpsr
    /\ at' = "irq" /\ cpsr' = CPUirqd
    /\ cur' = IntActiveIrqNumGet
    /\ lines' = lines \ {cur'}
    /\ UNCHANGED <<intc, latched, awaiting, owned, nested, set, intcCalls>>

\* Mutant: the controller goes on before the IRQ is masked.
AcknowledgeFirst ==
    /\ \/ at = "irq" /\ latched' = NoneIn /\ intc' = intc /\ at' = "masked"
       \/ at = "masked" /\ intc' = IntSystemDisable(cur) /\ at' = "served"
                        /\ latched' = latched
    /\ UNCHANGED <<lines, cpsr, cur, awaiting, owned, nested, set, intcCalls>>

\* evt_disable, then evt_acknowledge; the devices go on meanwhile.
MaskAndAcknowledge ==
    /\ \/ at = "irq" /\ intc' = IntSystemDisable(cur) /\ at' = "masked"
                     /\ latched' = latched
       \/ at = "masked" /\ latched' = NoneIn /\ intc' = intc /\ at' = "served"
    /\ UNCHANGED <<lines, cpsr, cur, awaiting, owned, nested, set, intcCalls>>

\* The task that waited is ready again.
Woken ==
    /\ at = "served"
    /\ at' = "kernel"
    /\ awaiting' = awaiting \ {cur}
    /\ UNCHANGED <<intc, lines, latched, cpsr, cur, owned, nested, set, intcCalls>>

\* intr_reset when the kernel ends (kern_cleanup): IntMasterIRQEnable, then
\* IntAINTCInit
intr_reset ==
    \/ /\ at = "kernel" /\ nested = << >>
       /\ at' = "resetting" /\ cpsr' = CPUirqe
       /\ UNCHANGED <<intc, lines, latched, cur, awaiting, owned, nested, set, intcCalls>>
    \/ /\ at = "resetting"
       /\ at' = "over" /\ intc' = IntAINTCInit /\ latched' = NoneIn
       /\ UNCHANGED <<lines, cpsr, cur, awaiting, owned, nested, set, intcCalls>>

-----------------------------------------------------------------------------
(* Other calls, from the kernel *)

Configure(regs, meaning) ==
    /\ at = "kernel" /\ MayCall
    /\ intc' = regs
    /\ set' = meaning
    /\ UNCHANGED <<lines, latched, cpsr, at, cur, awaiting, owned, nested>>

OtherCall ==
    \/ Configure(IntIfClkFreeRunSet, [set EXCEPT !.autoidle = FALSE])
    \/ Configure(IntIfClkAutoGateSet, [set EXCEPT !.autoidle = TRUE])
    \/ Configure(IntProtectionEnable, [set EXCEPT !.protection = TRUE])
    \/ Configure(IntProtectionDisable, [set EXCEPT !.protection = FALSE])
    \/ Configure(IntSyncClkFreeRunSet, [set EXCEPT !.turbo = FALSE])
    \/ Configure(IntSyncClkAutoGateSet, [set EXCEPT !.turbo = TRUE])
    \/ Configure(IntFuncClkFreeRunSet, [set EXCEPT !.funcidle = TRUE])
    \/ Configure(IntFuncClkAutoGateSet, [set EXCEPT !.funcidle = FALSE])
    \/ \E n \in {2, 255} :
          Configure(IntPriorityThresholdSet(n), [set EXCEPT !.threshold = n])
    \/ \E i \in owned :
          \/ Configure(IntSoftwareIntSet(i), [set EXCEPT !.soft = @ \cup {i}])
          \/ Configure(IntSoftwareIntClear(i), [set EXCEPT !.soft = @ \ {i}])

\* Critical sections, which may be nested
Section ==
    /\ at = "kernel"
    /\ \/ /\ MayCall
          /\ nested' = Append(nested, CPUIntStatus)
          /\ cpsr' = CPUirqd
       \/ /\ nested # << >>
          /\ cpsr' = IntEnable(nested[Len(nested)])
          /\ nested' = SubSeq(nested, 1, Len(nested) - 1)
          /\ UNCHANGED intcCalls
    /\ UNCHANGED <<intc, lines, latched, at, cur, awaiting, owned, set>>

\* IntMasterFIQEnable and IntMasterFIQDisable
MasterFiq ==
    /\ at = "kernel" /\ nested = << >> /\ MayCall
    /\ cpsr' \in {CPUfiqe, CPUfiqd}
    /\ UNCHANGED <<intc, lines, latched, at, cur, awaiting, owned, nested, set>>

\* After evt_init: reset, and IRQs enabled in the processor
IntcInit ==
    /\ intc = IntAINTCInit
    /\ lines = {} /\ latched = NoneIn
    /\ cpsr \in {{}, {"F"}}
    /\ at = "kernel" /\ cur = NoneIn
    /\ awaiting = {} /\ owned = {} /\ nested = << >>
    /\ set = [autoidle |-> FALSE, protection |-> FALSE, turbo |-> FALSE,
              funcidle |-> FALSE, threshold |-> 255, soft |-> {}]
    /\ intcCalls = 0

IntcNext ==
    \/ Sort \/ Raise
    \/ ToUser \/ Trap \/ Register \/ Await \/ Unregister
    \/ TakeIrq \/ MaskAndAcknowledge \/ Woken
    \/ intr_reset \/ OtherCall \/ Section \/ MasterFiq

IntcSpec == IntcInit /\ [][IntcNext]_intcVars

-----------------------------------------------------------------------------
(* Properties *)

\* kern_handle_irq finds a registered task that waits (its asserts), because
\* each IRQ is unmasked for as long as its task waits and for no longer, in
\* whichever register its bit is, and because it is masked before the
\* controller may choose the next one.  No IRQ comes while the kernel runs:
\* with IRQs enabled, as it runs before its first task, nothing is signalled.
IrqsFindWaiters ==
    /\ at = "irq" => cur \in awaiting
    /\ at \in {"user", "kernel", "irq"} => Unmasked = awaiting
    /\ at = "user" /\ latched # NoneIn => latched \in awaiting
    /\ at \in {"kernel", "irq", "masked", "served"} /\ "I" \notin cpsr => latched = NoneIn

\* The other calls come to what they ask for and leave the masks alone, and
\* sections from IntDisable to IntEnable may be nested: IRQs are off until the
\* outermost ends, which leaves them as the first found them.
IntcAsAsked ==
    /\ at # "over" =>
          set = [autoidle |-> "AUTOIDLE" \in intc.SYSCONFIG,
                 protection |-> intc.PROTECTION # {},
                 turbo |-> "TURBO" \in intc.IDLE, funcidle |-> "FUNCIDLE" \in intc.IDLE,
                 threshold |-> IntPriorityThresholdGet,
                 soft |-> {i \in Irq : Bit(i) \in intc.ISR[Bank(i)]}]
    /\ nested # << >> => "I" \in cpsr /\ (\A n \in 2 .. Len(nested) : "I" \in nested[n])
=============================================================================
