# HeatheRTOS in TLA+

HeatheRTOS is a small message-passing real-time kernel for the BeagleBone Black. A loop in `kern_main`
schedules a task, switches to it and handles the trap that brings the processor back. Tasks talk by
`Send`, `Receive` and `Reply`, and wait for interrupts with `AwaitEvent`; a name server, a clock server
and an LED blinker run as ordinary tasks on top, over the drivers of the board. This directory models
that system from the context switch to the servers, checks it with TLC on small instances and proves,
with TLAPS, the kernel's safety properties, that it implements plain message passing, that its queues
keep their order and floating point contexts never mix; that the library's queues, priority queues,
memory copies and conversions of numbers are what their headers promise; the safety of the name, clock
and blink servers; and that the drivers for pins, serial lines, timers and the interrupt controller do as
they are asked and the clocks they need come up. What is left to TLC alone is liveness.

Contents: [1 the system](#1-the-system) · [2 the modules](#2-the-modules-and-how-they-follow-the-code) ·
[3 the runs](#3-the-runs) · [4 fairness](#4-fairness) · [5 the proofs](#5-the-proofs) ·
[6 findings](#6-findings) · [7 not modelled](#7-not-modelled) · [8 plan](#8-plan)

To repeat everything: `tlc -workers 2 -config X.cfg M` for each run of section 3, and `tlapm M.tla` for
`KernelProofs`, `KernelSafetyProofs`, `MessagePassingProofs`, `ClockServerProofs`, `NameServerProofs`,
`RoutinesProofs`, `BoardProofs` and `TimerProofs`.

## 1 The system

| component | state | operations | hard behaviour | what makes it correct |
|---|---|---|---|---|
| kernel loop, system calls (`kern.c`) | `struct kern`: ready queues and bitmap, `rdy_count`, `evblk_count`, free list, `shutdown` | `kern_main`, `kern_handle_swi/irq/undef`, `kern_cleanup` | the loop condition rests on hand-kept counters; FPU traps skip the scheduler; handlers fail half-way | exits only when it may; no assert fails; counters exact |
| tasks and scheduler (`task.c`) | `struct task_desc`: state, priority, `next_ix`, `tid_seq`, cleanup, irq | `get_task`, `task_create`, `task_ready`, `task_schedule`, `task_free` | one `next_ix` serves four kinds of list; descriptors are reused; TIDs come round | each task in exactly the right list once; highest priority runs; equal ones in turn |
| messages (`ipc.c`) | send queues, register `r0` of blocked senders | `ipc_send_start`, `ipc_receive_start`, `ipc_reply_start`, `rendezvous` | receiver exits with senders queued, stale TIDs, replies from third parties | in order, once, to the incarnation addressed; no lost wake-up |
| events (`event.c`) | event table | register, enable, disable, acknowledge, unregister | a task dies with its IRQ enabled and pending; a callback refuses | an IRQ is unmasked exactly while its live owner awaits it |
| floating point contexts (`kern.c`, `task.c`, `vfp.S`) | `fp_ctx_holder`, `fpu_ctx_on_stack`, saved contexts | save, restore and fresh load on two paths | lazy: the registers belong to a task that may be preempted or dead | a task computes on with its own registers |
| context switch (`ctx_switch.S`, `exc_vec.c`, `u_syscall.S`) | registers, banked ones, the two stacks | switch, three exception entries, system calls | an IRQ between any two instructions; the saved address differs per exception | both sides find their registers again |
| interrupt controller (`intr.c`, `interrupt.c`, `cpu.c`) | masks, lines, the IRQ that is signalled, the I bit | reset, config, mask, acknowledge, priorities, nested disabling | a new IRQ is chosen the moment the old one is acknowledged | an IRQ that is taken has a task that waits |
| priority queue (`pqueue.c`) | `nodes[]` with entries by slot and positions by value | add, decreasekey, peekmin, popmin; ring and heap builds | two arrays in one; ties; wrap-around | a least key comes out, the oldest of equals in the ring |
| queue (`queue.c`), ring buffer (`ringbuf.c`) | memory, indices, counts | enqueue, dequeue, peek, put, get, write | wrap-around, writes cut in two | first in, first out |
| memory copy (`xmemcpy.S`) | addresses and what is left | `memcpy`, `memset` | five loops whose bounds meet | each byte once, none outside |
| numbers (`bwio.c`, `ringbuf.c`, `xstring.c`, `bithack.h`) | none | number to text and back, alignment, trailing zeros | buffer sizes, zero, divisors that overflow | what is written reads back |
| name server (`ns.c`) | name records, stacks of waiting tasks, node free list | `RegisterAs`, `WhoIs` | answers tasks one by one while they run on | exact tables, the right TID, everybody answered |
| clock server (`clock_srv.c`) | `ms_ticks`, delays, TIDs by low byte | `Time`, `Delay`, `DelayUntil`, tick | notifier, timer and server start up and race | never early, never fast, no tick lost once flagged |
| blink server (`blnk_srv.c`) | pin, wake-up times, minute counter | the loop | late wake-ups; a counter that restarts at 2 | in step with the clock, double blink at the minute |
| UART driver (`drv_uart.c`, `bwio.c`) | thirty registers at shared offsets | modes, framing, FIFO, flow control, interrupts, set-up | which register an access reaches depends on three others | only the named field changes; modes are put back |
| GPIO driver (`gpio.c`) | registers of an instance that tasks share | direction, write, interrupts, save and restore | preemption between load and store | a pin is as its owner left it |
| timer driver (`dmtimer.c`, `timer.c`) | counter, reload, match, mode, flags | configure, start, stop, save and restore | the timer counts between two accesses | overflows one millisecond apart |
| clock set-up (`pll.c`, `clock_srv.c`) | registers of the clock module | `pll_setup`, `DMTimer3ModuleClkConfig` | thirty waits without a timeout | every wait ends |

How they interact. User tasks trap into the kernel; devices raise IRQs; the kernel calls the callback of
the task that registered the IRQ. The servers are reached by messages only: `WhoIs("clock")` asks the
name server for the clock server, whose notifier task turns timer IRQs into messages to it. Handlers of
the kernel run with interrupts masked, so a trap is one step; all concurrency is between tasks, and
between tasks and devices, and it can shift at every trap.

## 2 The modules and how they follow the code

| module | models | state | actions |
|---|---|---|---|
| `Kernel` | `kern.c`, `task.c`, `ipc.c`, `event.c`, `intr.c` | `struct kern`, `struct task_desc`, the event table, the interrupt controller; `phase` is where `kern_main` is | `Schedule`, `SkipSchedule` (the round after an FPU trap), `Halt`; one action per system call and outcome; `IrqWakes`, `IrqIgnored`; `KillUndef`, `FpuTrap`; `DeviceAssert` is the device |
| `KernelFp` | the floating point switch of `kern_main` and `kern_handle_undef` | adds `fp_ctx_holder`, `fpu_ctx_on_stack`, the saved contexts and the FPU to `Kernel`; `left` is history | the same steps, each with what it does to the contexts |
| `MessagePassing` | what Send, Receive and Reply promise | what each task is doing, its incarnation, its inbox, whom it waits for | one action per call and outcome; no scheduler, no lists |
| `KernelIpc` | the refinement mapping of `Kernel` to `MessagePassing` | | |
| `PriorityQueue`, `Fifo` | what `pqueue.h`, and what `queue.h` and `ringbuf.h` promise | a function from values to keys, and the front; a sequence | one per operation |
| `PQueue`, `ItemQueue`, `RingBuffer` | `pqueue.c` (both builds, chosen by `build`), `queue.c`, `ringbuf.c` | their structs and memory | one per operation and outcome |
| `MemoryCopy`, `Numbers` | `xmemcpy.S`; conversions of `bwio.c`, `ringbuf.c`, `xstring.c`, `bithack.h` | addresses and count; what the loops count with, the digits written and read | one per turn of a loop, one per return |
| `ContextSwitch` | `ctx_switch.S`, `exc_vec.c`, `u_syscall.S`, the first frame of `task.c` | registers with their banks, status registers, memory, `pc` in the code | one instruction of the kernel's code; an instruction, a call, an IRQ or an undefined instruction of the task |
| `NameServer` | `ns.c` and its clients, on top of `MessagePassing` | `records`, free nodes, the request that is handled | one per round of the server between two kernel calls |
| `ClockServer` | `clock_srv.c`, notifier, timer and clients, on top of `MessagePassing`, with a `PriorityQueue` | `ms_ticks`, the queue, `tids`, the timer's flag, where server and notifier are | likewise |
| `BlinkServer` | `blnksrv_main` | its variables and the time | one per pass of the loop |
| `RegisterAccess` | loads and stores of device registers | | |
| `Uart` | `drv_uart.c`, the set-up in `bwio.c` | the registers as sets of bits | a function of the driver is an operator from registers to registers |
| `Gpio`, `DMTimer` | `gpio.c`; `dmtimer.c`, `timer.c` and the timer part of `clock_srv.c` | device registers, the accesses a call has still to do | one per access; the device counts, overflows, is served |
| `Intc` | `interrupt.c`, `cpu.c`, and `intr.c` as `event.c` and `kern.c` use it | masks, lines, latched IRQ, I bit, place in the kernel | one per access that matters to the controller, one per call |
| `ClockTree` | `pll.c`, `DMTimer3ModuleClkConfig` | the clock module's registers, the rest of the script | a write, a wait that ends, a step of the module |
| `MCRoutines`, `MCBoard` | extend, for TLC only, modules that share no state: `part` says which of them runs | | |
| other `MC*` | extend a module for TLC | | |
| `*Proofs` | theorems | | |

Composition. `NameServer` and `ClockServer` extend `MessagePassing`, and `KernelSafetyProofs` proves that
the kernel implements it: what holds of the servers with tasks that all run at once holds of them on the
kernel, which only picks fewer interleavings. `ClockServer` instantiates `PriorityQueue`, which `PQueue`
implements; its timer is one flag, and `DMTimer` shows that the registers it is set up with raise it each
millisecond. `Kernel` takes the interrupt controller for a set of unmasked and pending IRQs, and
`Intc` shows that the driver keeps that set in its banked registers. `Kernel` takes a switch for one step, and `ContextSwitch` shows it loses no register. So a server
is never checked together with the details of the kernel or of a device.

Abstractions that recur:

- A descriptor is its index, a TID a record of index and sequence number that wraps after `SeqCount`
  incarnations (256 in the code, 2 in the runs, so that stale TIDs do come round again).
- A list through `next_ix` is a sequence; `in_queue[t]` is what `next_ix` says of t, kept separately, so
  that the asserts of `task_enqueue` and the lists can disagree in the model as they could in the code.
- A failing assert of the kernel is the step `AssertFailure` to phase `"assert"`; of a server, `failed`.
- Message bytes, lengths, return codes and user registers are left out of the kernel, but for the register
  in which a blocked sender keeps the TID it sent to, on which `task_create` and `Reply` do not depend and
  `NoMisdelivery` does. An event callback is what it answers.
- The task of an action is the active one; its arguments come from small sets. `TidArgs` holds every TID,
  stale and future ones included, and one out of range.
- The servers' steps end where the code calls the kernel, since other tasks run only then. `Reply` and
  the private assignments that follow it are one step: nobody else sees them apart.
- A device register is the set of its bits, or of the pins or IRQs, that are 1; `|=` is a union, `&= ~` a
  difference. Where another task or the device can come between, a load and a store are two steps.
- A word of memory is what was put there: a byte of `ItemQueue` knows its item and its place in it, a
  byte that `memcpy` writes the address it was read from, a register whose value it is.

Definitions named `...Keeps`, `...Stale` and the like under a comment "Mutant" are wrong variants of the
definition that follows. No specification uses them; each replaces its original once to confirm that the
property it is listed with notices.

## 3 The runs

| run | module | checks | bounds, and why they are enough |
|---|---|---|---|
| `kernel_ipc` | `MCKernelIpc` | `QueueDiscipline`, `NoMisdelivery`, `NoLostWakeup`, `DeliveredToAddressee`, `FirstComeFirstServed`, `ImplementsMessagePassing` | idle, init and two more tasks of two priorities; two incarnations. Two senders can queue on a third that exits and is replaced, under its old TID too. Deadlock is checked |
| `kernel_all` | `MCKernel` | `TypeOK`, `NoAssertFails`, `CountersExact`, `EventOwnership`, `RunsHighest`, `HaltJustified` | every system call, two IRQs, three tasks: an IRQ for a task that runs, waits, or died; callbacks that wake and that ignore; the free list runs out |
| `kernel_live` | `MCKernel` | `NoStarvation`, `IrqServed` | three user tasks of two priorities: equal priorities take turns while a higher one comes and goes; callbacks answer |
| `fpu_contexts` | `MCKernelFp` | `ContextsPrivate`, `FreshOnce` | three tasks share the FPU, preempted by IRQs, exiting and killed, so that holder, saved context and fresh user meet in every order |
| `routines` | `MCRoutines` | `PositionsExact`, `OldestFirst`, `ImplementsPriorityQueue`; `RingImplementsFifo`; `QueueImplementsFifo`; `CopiesExactly`; `NumbersReadBack`; `RegistersPreserved` | four values give a heap three levels and a ring that wraps, and two keys every order of neighbours; a ring of three and strings of up to three are cut at each place; items of two bytes in seven leave a byte unused; sizes on both sides of each burst, all alignments, those where the finding of section 6 bites left out; numbers about each power of each base; two tasks, each stopped at any instruction |
| `name_server` | `MCNameServer` | `WaitersExact`, `WhoIsAnswersLast`, `CallsReturn` | two tasks wait while a third registers; a table of one record so that it fills (section 5 has the first two for tables of any size); one client dies and is born again |
| `clock_server` | `MCClockServer` | `DelaysExact`, `NeverFast`, `NeverEarly`, `TickCounted`, `Answered` | three overflows reach start-up, coalescing and two tasks due at one tick; delays of 0 and 1 ticks, and until time 2; one client dies and is born again. The clock does not reach its end (section 6) |
| `board` | `MCBoard` | `BlinksInTime`; `UartAsAsked`; `PinsAsAsked`; `TimerAsAsked`, `TimersKeepTime`; `IrqsFindWaiters`, `IntcAsAsked`; `ClocksComeUp` | just over two minutes, so that the second follows a double blink, late by up to three quarters of a second; any call of the UART in every mode two calls can lead to, from any of the modes and settings it starts in; two tasks with a pin each and three calls; a timer of eight counts and three calls; two mask registers with two IRQs each and four calls; the whole scripts of the clocks |
| `await_unregistered` | `MCKernel` | violates `NoAssertFails` | section 6 |
| `fpu_retry_exit` | `MCKernel` | violates `HaltJustified` | section 6 |
| `fpu_reuse` | `MCKernelFp` | violates `FpuPrivate` | section 6 |
| `memcpy_overrun` | `MCMemoryCopy` | violates `CopiesExactly` | section 6 |

What the less obvious properties say:

- `FirstComeFirstServed`: every ready queue and send queue only loses tasks at its head and gains them at
  its tail, in every step of the kernel, including those that empty a queue and refill it.
- `EventOwnership`: the two directions between table and task, and masks. It fails if any of the five
  places that touch the table, the task's `irq` and the mask forgets one of them.
- `HaltJustified`: an exit of `kern_main` leaves no task that could still run. `kernel_all` shows it
  without FPU traps, `fpu_retry_exit` refutes it with them.
- `ContextsPrivate` speaks of tasks that are the first to have their descriptor where a later owner is
  exposed to the defect `fpu_reuse` shows, and of all tasks where it says in which place a context is.
  `FreshOnce`: a trap for want of the FPU never throws away a context that was there.
- `RegistersPreserved`: a task goes on with its registers, flags and stack as it left them, at the instruction
  that was stopped; the kernel finds what a callee keeps and why the task stopped.
- `WaitersExact`: the server's asserts hold; each blocked `WhoIs` is on one stack, once, that of its name,
  and nodes on stacks and free ones add up. `CallsReturn`: nobody waits for a name that is known, and a
  registration is answered however many tasks wait.
- `DelaysExact`: the server's asserts hold; the delayed tasks are those whose delay the server has read
  and not answered, each with its own TID, and none is due when the server is back at `Receive`.
- `NeverFast`: ticks on their way and ticks counted never exceed the overflows there were. The converse
  does not hold: the timer has one flag, so overflows that come faster than the notifier runs coalesce.
  `TickCounted`: an overflow that is flagged is counted in the end.
- `UartAsAsked`: each function changes exactly the field it is for, whatever mode it finds the device in,
  and puts the mode back. `Promise` says what the function is for as if every register had an offset of
  its own, `Reachable` what a caller has to see to.
- `PinsAsAsked` and `TimerAsAsked` compare the device with the calls made so far when none is under way.
- `IrqsFindWaiters`: the controller signals only IRQs whose task waits, from the enabling in `event.c` to
  the acknowledgement in `kern_handle_irq`, whichever bank the IRQ is in; `IntcAsAsked` adds that nested
  critical sections do not let IRQs in early.
- `ClocksComeUp`: no state of a script has a wait that cannot end.

`CHECK_DEADLOCK FALSE` stands where the system may stop: a bound on time, steps or calls ends the run
(`clock_server`, `board`, `routines`, `memcpy_overrun`), all clients may wait for a name nobody registers
(`name_server`), or, after an IRQ nobody acknowledged, the idle task may spin for ever with nothing left
to interrupt it (`kernel_all`).

## 4 Fairness

- `Kernel!FairSpec`: the kernel's own steps are weakly fair, since the processor goes on. `UserTrap` is weakly fair: a task
  that runs makes a system call in the end. The kernel has no time slices, and a task that computes for
  ever does starve its priority and those below; the assumption is about programs, not about the kernel.
  Taking an IRQ is strongly fair for each IRQ: its line stays raised, and it is taken whenever the
  processor is in user mode with it unmasked, but the kernel's phases disable that step again and again.
- `NameServer!NsFairSpec` and `ClockServer!ClkFairSpec`: weak fairness of the server and of the notifier, which is
  what `NoStarvation` gives a task of high priority. Clients and the timer have none.

Every other property is one of safety, and its specification states no fairness. That waits of the clock
set-up end is said as an invariant, since the clock module only goes forward.

## 5 The proofs

Each is for every value of the constants. The assumptions on the constants are those the modules state
(`SizeAssumption` and its like in `Kernel`, `ClockAssumption`, `NsAssumption`, `RingBufferAssumption`,
`ItemQueueAssumption`, `MemoryCopyAssumption`, `PQueueAssumption`, `ContextSwitchAssumption`, `NumbersAssumption`,
`GpioAssumption`, `IntcAssumption`, `DMTimerAssumption`), and where a theorem needs more, it says so. Some
invariants are about paths, lists, digits and sums of any length where one would reach for induction over
data, which the prover has not got; what stands in for it is said below.

### The kernel's invariant (`KernelProofs`)

`Spec => []KernelInv` for any number of tasks, priorities, IRQs and TID values, from at least the tasks
idle and init, at least two priorities, `InitPrio` above the idle one, `NoIrq` not an IRQ, and callbacks
that answer or ignore.

`NoAssertFails`, what the kernel's `assert`s claim, is not inductive: that a woken task is
in no list needs the marks (`QueueMarksExact`), these need the lists (`ReadyQueuesExact`, `FreeListExact`,
`SendQueuesSound`), popping a list through the bitmap needs `CountersExact`, an IRQ finds its task blocked
only by `EventOwnership`, and "the caller is in no list" needs `Running` (only the active task is ACTIVE).
`KernelInv` is the conjunction, and it is inductive as it stands.

Every handler changes the scheduler's variables by one of three moves: one task becomes
ready (`ReadyOne`), two do (`ReadyTwo`), or one leaves (`DispatchStep`, `SchedUnready`). `SchedInv` is the part of the
invariant these variables have to satisfy, for a given state function and set of marks, and the lemmas on
the moves preserve it once and for all; `CountChange` does the cardinalities. There is one lemma per action
(`CreateStep`, `SendEnqueueStep`, `IrqWakesStep`, ...), `KernelInvStep` puts them together, and
`TypeCorrect`, `AssertsHold`, `QueuesCorrect`, `CountersCorrect` and `EventsCorrect` are corollaries.

### The refinement (`KernelSafetyProofs`)

`Spec => MP!MpSpec` under the mapping of `KernelIpc`: the initial states map to
initial states (`InitIsInit`), scheduling, events, IRQs and FPU traps are stutters (`InvisibleSteps`), and
each IPC action, `Create` and exit is the step of its name (`SendEnqueueIsSend`, ...). It rests on
`KernelInv`, for example to know that a sender that is popped really is blocked on the receiver.

### The kernel's other safety properties (`KernelSafetyProofs`)

`Safety` (`NoMisdelivery`, `NoLostWakeup`, `CleanupOwned`, `RunsHighest`) is inductive relative to
`KernelInv`: each lemma assumes `Moves`, a step with `KernelInv` before and after it. Most steps are
`Calm`, that is, they leave send queues, addressees, the blocked tasks and incarnations alone, and one
lemma per property does all of them; what is left is `Create`, exits, the sends, `Receive` and, for `RunsHighest`,
the steps that make a task ready. `DeliveryCorrect` is a step property from the same facts.
`HaltOnlyWhenDone` assumes that no task uses the FPU (`"FpuTrap" \notin Calls`): the finding
`fpu_retry_exit` is the case it excludes, and `HaltInv` needs only that the phase `retry` does not occur.

`QueuesKeepOrder` is `FirstComeFirstServed`, of every ready queue and send queue. A queue that one more task
joins at its end (`Joined`) or whose first is served (`Served`) keeps the order of those that stay; one lemma
per move of the scheduler shows that every handler does that to each queue or leaves it alone, a queue that is emptied because its owner's descriptor is
created anew included, and needs from `KernelInv` that no task is in a queue twice.

### Floating point contexts (`KernelSafetyProofs`)

`FpKernelIsKernel` (`FpSpec => Spec`) brings everything above to `KernelFp`. `FpInv` adds
`Places` (a context is in the FPU, marked on its task's stack, or nowhere, and which, by phase) and
`FirstOwners` (those of a descriptor that never changed hands are its task's). `ContextsNeverMix` and
`NoContextThrownAway` follow, under `StaleFlags = {}`: nothing in the code initialises
`fpu_ctx_on_stack`, so this is an assumption on the memory the kernel boots with.

### The library routines (`RoutinesProofs`)

`RingIsFifo`: the ring buffer implements `Fifo` for every size of the memory and every set of strings. `RingInv`
ties the write index to the read index and length; `WriteFacts` reads off what the two halves of a write
leave in the memory, and `Appended` that the contents are the old ones followed by the string.

`QueueIsFifo`: so does the queue, of whole items, although it stores bytes. `QueueInv` says that both indices are where cells of
the size of an item begin, and apart by what the queue holds; so the end of memory that is no whole
cell is never written, and an item is never cut in two.

`CopyCorrect`: `memcpy` and `memset` write each byte of the destination once, with what belongs there, and none
outside. `MemInv` says at each label how far the copy is (`CopiedSoFar`), what the registers still hold
(`Registers`) and which addresses are aligned (`Alignment`). It assumes `AnySize = FALSE`: the
copies too short for their alignment, with which `memcpy_overrun` shows the code to be wrong, are left out.

`PositionsAreExact`, `QueueIsAsPromised`, `EqualKeysKeepOrder`: of the priority queue, for ring and heap and every size.
`PqInv` says that `pos` finds each entry where it lies (`Found`) and no other (`Kept`), and that the ring is
`Sorted` or the heap `Heaped`. The code moves an entry along in a loop; `Rise` and `Fall` are the
slots it passes, and `RiseFacts` and `FallFacts` say of all of them what the proof needs. They are functions
defined by recursion, of which the provers can use the defining equation but no induction: instead, a least
slot where the claim fails exists, since every set of slots is finite (`LeastOf`), and the equation refutes it.
`MoveInMoves` says where a ring's entries are after the loop, `SiftUpKeeps` and `PopHeapKeeps` that a heap stays one.
That there is room when not all values are queued (`RoomForMore`) counts entries and values. The refinement
then follows operation by operation (`Enters`, `Departs`), refusals included: one the header promises maps to
that of the abstract queue.

`AllNumbersReadBack`: `NumbersReadBack` for every int but the least, whose magnitude is no int, in both bases and
fields of any width. `NumInv` says of each loop which digits are written or read: `WrittenTo(top, j)` while
`bwui2a` divides, `LastWritten(k)` while `rbuf_decw` does, and that `bwa2i` holds the number above the place it
is at. `Upper`, `Lower` and `Digit` are the parts of a number at a place. As an int has at most ten digits the
powers of the bases are a table, and what one round of a loop does at a place (`PlaceNext`, `PlaceValues`) is
proved place by place instead of by induction. `SameLength` says that the loop that finds the first
digit and the one that stops at zero find as many, so that one text is the other from its end (`Mirrors`);
`TrailingZeros` follows the shifts by 16, 8, 4 and 2. That the power never passes the number is part of it: this
is why the loop of `bwui2a` cannot overflow.

### The context switch (`RoutinesProofs`)

`TasksGoOnAsLeft`: `RegistersPreserved` for any number of tasks, stacks of any size and tasks that do anything to
their own registers, flags and stack. `SwitchInv` says at each instruction of `ctx_switch.S` where every part of
a task is on its way: `EntryAt(d, r, view)` after `d` instructions of entry `r`, `SwitchAt(k, a)` before the `k`-th of
`ctx_switch`, and `Saved(t)` of each task that does not run, that its descriptor leads to a frame that is the task as
it was left (`Framed`). Instructions are proved one at a time; what they share is which names are one
register in which modes (`PhysFacts`), what a load and a store of several registers leave (`Loads`, `Stores`), and that stacks lie
apart (`StackFacts`, `ElsewhereSaved`). It rests on what the model says of a task: it keeps to its own stack.

### The servers (`MessagePassingProofs`, `ClockServerProofs`, `NameServerProofs`)

`InboxExact(s)`, in `MessagePassingProofs`, is what a server `s` that alone receives can rely on: the
senders in its inbox are distinct and blocked, and it is never itself blocked on a message. One lemma
each says that a send, a receive and a reply, birth or death elsewhere keep it.

`ClkInv` adds who is being served and that it is still blocked, where the notifier is, that a client has a
request exactly while it is blocked, that the queue of delays holds just those clients under their TIDs
(`QueueExact`), and that ticks counted or on their way do not exceed the overflows (`TimeExact`).
`DelayedTasksAreKnown`, `ClockNeverFast` and `NobodyWakesEarly` follow, all under
`BeforeItsEnd`: no sum the server computes exceeds its integers, which is true for the first 24.8 days.
After that the properties do fail (section 6), so the assumption cannot be dropped.

`NsInv` is alike: names of records are distinct, each stack holds distinct tasks that wait for its name (`WaitsIn`), a
record with a TID has waiting tasks only while these are being answered, and nodes add up (`NodesExact`).
`NodeLeft` is the heart: the task that is served is on no stack, so at most one task less than there are
clients is, and there is a node left. `WaitersAreKnown` and `WhoIsRight` follow, under `EnoughNodes`: a finite number
of tasks, and a node for each client, as `MAX_TASKS` nodes provide.

### Drivers, clocks and the blinker (`BoardProofs`, `TimerProofs`)

`LedInTime`: `BlinkInv` says there is a number k of full minutes such that the variables are those of half second
`minute_counter`, or quarter second `flips`, of that minute. That k, which is no variable, grows for ever.

`PinsSettle`: each register bit has one task that cares for it, and a task between load and store holds a value
that may be stale in the bits of others. `LoadedCurrent` says that it is current in
those that only one task at a time may change, `Asked` that a bit is as asked unless an access that is
still to come touches it, and then what the last one leaves is. `OneConfigures` is the rule the model
states for callers; without it the code loses bits (section 6).

`WaitersFound`, `CallsAsAsked`: `Handling` says what the kernel holds between reading the number of an IRQ and acknowledging it,
`Off` when IRQs are off in the processor, `SetExact` that banked masks, priorities and the settings are
the ones asked for. Number and bank are divisor and remainder (`DivMod`), for any width of a bank.

`TimerSet`, `TimeKept`: `JobInv` says that a register that is loaded and not yet stored has not changed in
bits the store keeps, although the timer counts meanwhile; `AnyInv` that what is left of a call makes of the
timer what is wanted; `ClockInv` and `DebugInv` follow the two set-ups access by access, until the timer runs
and `clocks` is tied to its counter. `StepKeepsTime` reads `TimersKeepTime` off that.

`UartObeys`: the only invariant is `Types`, that DLL and DLH hold no bits they have no room for, so that a
divisor survives being saved and written back. The rest is about one call at a time, in any state: `Only(u, v, r, c)`
says that v is u but for r, which holds c. `AccessReaches` says what an access meant for r does to the
register it reaches, `ThroughMode` and `ThroughEnhanced` that what is done inside a mode, or with EFR[4] set, is all
that is left afterwards. Each function is then one such fact, and one lemma for each kind of call
(`ModeCallRight` to `SetupCallRight`) compares it with `Promise`. `DivisorWritten` is the longest: sleep
mode, mode B, the stopped clock and both halves of the divisor, undone in the reverse order.

`ClocksDoComeUp`: the two set-ups are scripts of lines that write a register or wait for a field. A wait is
`Justified` by fields that make the clock module bring it about, and `Script(s, S, G, R, U)` says that s, started
with the fields S, justifies each of its waits by what it has written before, leaves the fields G, and resets a
register only before it is first used (`Fresh`). `ScriptConcat` puts two such pieces together, so that the scripts are
followed function by function, as the code is written, and not state by state. `ClockTreeInv` says that the
fields written so far are in the registers (`Hold`) and that a module that answers has its domain and its
own clock running (`ReadyRuns`): a wait that is justified has then ended, or the clock module can take a
step towards it. Which steps it can take is spelled out (`MayWake`, `MayStart`, `MayAnswer`), since the provers know nothing of ENABLED.
The clock server starts its timer on what `pll_setup` left, and the second script is proved from that.

### Only model-checked

Liveness (`NoStarvation`, `IrqServed`, `CallsReturn`, `TickCounted`, `Answered`), since fairness is beyond the prover.

## 6 Findings

Each is a run that fails, with the line of the repository it contradicts quoted in `PROJECT.json`.

- `await_unregistered`: `kern_AwaitEvent` readies a caller that registered no event, then, for want of a
  `return`, marks it EVENT_BLOCKED and unmasks IRQ -1. The next schedule fails its assert. `SpecAny` has that
  step; every other run and the proofs are about programs that register first.
- `fpu_retry_exit`: after an FPU trap `kern_main` tests `rdy_count > 1` with the trapping task ACTIVE and
  so not counted; if it was the only one the kernel exits under it.
- `fpu_reuse`: `task_free` leaves `fp_ctx_holder` and `fpu_ctx_on_stack` alone, so the next owner of the
  descriptor runs with the dead task's registers.
- `memcpy_overrun`: the loop that brings both addresses to a word boundary (`xmemcpy.S:40`) never looks at
  the size, so that a copy of one byte between addresses 1 modulo 4 writes three.

Found while modelling and left without a run.

In the kernel: a callback that answers -1 makes `kern_handle_irq` return at `kern.c:314`, before the IRQ is
masked and acknowledged, and no further IRQ is ever taken (set `CbResults = {"wake", "ignore"}` and
`CHECK_DEADLOCK FALSE` in `kernel_live.cfg` and `IrqServed` fails); `fpu_ctx_on_stack` is never initialised (`StaleFlags` can
model it); `task_create` accepts the idle task's priority although `config.h` reserves it; a sender whose
receiver exits is never woken; `intr_reset` enables IRQs in the processor before it resets the controller
(`intr.c:101`).

In the servers: `Delay` and the clock overflow after 24.8 days (set `IntMax = 2` in `clock_server.cfg` and
`DelaysExact` and `NeverEarly` fail); an assert that fails in the name server or in the notifier waits for itself in `panic`;
`ns_whois` does not answer when the table is full, and a registration outlives its task.

In the drivers, none of them used by the system in the way that would show it:

- `UARTXONAnyFeatureControl` changes MCR in mode B, where its offset is XON1's (`drv_uart.c:2032`).
- `UARTSubConfigTCRTLRModeEn` puts EFR[4] back before its caller writes TLR (`drv_uart.c:952`).
- `UARTFIFORegisterWrite` says EFR[4] is set for it (`drv_uart.c:837`) and it is not; `UARTIntEnable`
  writes IER[3:0] in whatever mode its caller left (`drv_uart.c:1237`); `UARTFIFOConfig` adds a fine level to TLR
  without clearing the old one (`drv_uart.c:663`).
- `IntPendingIrqMaskedStatusGet` has a parenthesis in the wrong place (`interrupt.c:400`); `intr.h` says
  "Returns -1 if no IRQs", which `intr_cur` never does.
- Two tasks that configure pins of one instance at once lose each other's bits; the model has one task
  configure at a time, and pins are written at any time. A timer is configured only while it is stopped.

In conversions: `%0N` of `bwformat` never reads the width; `rbuf_decw` of the least integer prints the
sign only; `bwa2i` takes a digit equal to the base. `Reachable` in `Uart` and the inputs of `Numbers` leave these out.

## 7 Not modelled

- `rbuf_vprintf`, `bwformat` and `bwprintf`: the interpretation of a format. The numbers they write are
  modelled. String functions, and arithmetic on doubles, the generator of `xrand.c` and `poly.c`, which
  are pure and which no kernel code calls.
- CPU time accounting and `kern_top`, which only print; aborts, FIQs and `cpumode.c`, likewise.
- The moves of the 32 floating point registers in `vfp.S` (whose they are is in `KernelFp`), caches and
  `cp15.S`, the stacks of `startup.S` and `stacks_init.S`: a sequence of writes with nothing in between.
- `panic`: it is `Kernel!Panic`, a system call; that its formatting and its waiting for servers can fail in turn
  is in section 6.
- Pin multiplexing, debounce times, contents of the UART's FIFOs, waits for posted timer writes.
- Tests, and applications made for tests.
- The names of registers in `hw_control_AM335x.h`, `hw_cm_per.h`, `hw_cm_wkup.h` and the other `hw_*.h`: twelve
  thousand lines of offsets and masks, nearly half of the repository's lines, without any behaviour to
  translate. Where they are the registers or the arguments of a function that is modelled, they are mapped
  with it. This is why the definitions map to less than a third of all lines although every function
  that changes state, but for the above, is one of them.

## 8 Plan

Done: the kernel, floating point contexts, message passing with its refinement, the three servers, the
library routines, the context switch and every driver the system uses. Each invariant, step property and
refinement that a run of section 3 finds to hold is a theorem of section 5.

Left, in this order:

1. `panic`, which formats into a ring buffer and then waits for servers.
2. Larger tables in `name_server`: several records that have waiting tasks at once.
3. The interpretation of format strings (`rbuf_vprintf`, `bwformat`), on top of the conversions of `Numbers`.
