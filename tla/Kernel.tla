------------------------------- MODULE Kernel -------------------------------
(***************************************************************************)
(* The HeatheRTOS kernel: the main loop of kern.c, the task descriptors     *)
(* and queues of task.c, message passing (ipc.c) and IRQ events (event.c),  *)
(* as built by the Makefile, with HARD_FLOAT.  Which task has the floating  *)
(* point context is left open here; module KernelFp decides it.             *)
(*                                                                         *)
(* The loop of kern_main is two steps: the kernel schedules a task (phase   *)
(* "kern"), then the task runs until it traps (phase "user") and one        *)
(* handler runs to its end with interrupts masked; after an FPU trap the    *)
(* loop goes round without scheduling (phase "retry").  Descriptors are     *)
(* known by their index.  The intrusive lists through next_ix are           *)
(* sequences; in_queue[t] says next_ix /= TASK_IX_NOTINQUEUE.  Message      *)
(* bytes, user registers other than the destination of a Send, return codes *)
(* and the CPU time accounting are left out.                                *)
(***************************************************************************)
EXTENDS Integers, SequencesExt

CONSTANTS
    MaxTasks,      \* MAX_TASKS
    NPriorities,   \* N_PRIORITIES; the last one is PRIORITY_IDLE
    SeqCount,      \* number of values of tid_seq (2^8 in the code)
    InitPrio,      \* kparam.init_prio
    Irqs,          \* the IRQ numbers below IRQ_COUNT
    NoIrq,         \* -1 in task_desc.irq, and any out-of-range IRQ number
    CreatePrios,   \* priorities tasks pass to Create
    Calls,         \* system calls the tasks of an instance make
    CbResults      \* what event callbacks return: "wake" (>= 0), "ignore" (-1)

Ix       == 0 .. MaxTasks - 1
Prios    == 0 .. NPriorities - 1
Seqs     == 0 .. SeqCount - 1
IdleIx   == 0
InitIx   == 1
IdlePrio == NPriorities - 1
NoTask   == -1                              \* no descriptor
NoTid    == [ix |-> -1, seq |-> 0]          \* the TID -1
Tids     == [ix : Ix, seq : Seqs]
States   == {"FREE", "READY", "ACTIVE", "SEND_BLOCKED", "RECEIVE_BLOCKED",
             "REPLY_BLOCKED", "EVENT_BLOCKED"}
AllCalls == {"Create", "Query", "Exit", "Undef", "Send", "Receive", "Reply",
             "RegisterCleanup", "RegisterEvent", "AwaitEvent", "Shutdown",
             "Panic", "FpuTrap"}

ASSUME SizeAssumption == /\ MaxTasks \in Nat /\ MaxTasks >= 2
                         /\ NPriorities \in Nat /\ NPriorities >= 2
                         /\ SeqCount \in Nat /\ SeqCount >= 2
ASSUME InitPrioAssumption == InitPrio \in 0 .. NPriorities - 2
ASSUME IrqAssumption == NoIrq \notin Irqs
ASSUME CallAssumption == /\ CreatePrios \subseteq Int
                         /\ Calls \subseteq AllCalls
                         /\ CbResults \subseteq {"wake", "ignore"}

VARIABLES
    phase,         \* "kern", "user", "retry", "halted", "panic" or "assert"
    active,        \* the running task, in phases "user" and "retry"
    shutdown,
    state, prio, tid_seq, in_queue, cleanup, irq,    \* struct task_desc
    senders,       \* task_desc.senders
    send_to,       \* r0 of a sender that has not been answered: its receiver
    rdy_queues, rdy_queue_ne, rdy_count, free_tasks, \* struct kern
    evblk_count,
    evt_tid,       \* eventab.events[irq].tid
    enabled,       \* IRQs unmasked in the interrupt controller
    pending,       \* IRQs asserted by their device
    busy           \* an IRQ was taken and not yet acknowledged

schedVars == <<state, in_queue, rdy_queues, rdy_queue_ne, rdy_count>>
identVars == <<prio, tid_seq, free_tasks>>
ipcVars   == <<senders, send_to>>
eventVars == <<irq, evt_tid, enabled, evblk_count>>
intcVars  == <<pending, busy>>
miscVars  == <<shutdown, cleanup>>
vars      == <<phase, active, schedVars, identVars, ipcVars, eventVars,
               intcVars, miscVars>>

-----------------------------------------------------------------------------
(* Task identifiers and queues *)

\* Mutant: the TID of the descriptor's next owner
TASK_TIDNext(t) == [ix |-> t, seq |-> tid_seq[t] + 1]

TASK_TID(t) == [ix |-> t, seq |-> tid_seq[t]]

\* Mutant: any task that has the descriptor will do.
IsTaskAnySeq(tid) == tid.ix \in Ix /\ state[tid.ix] # "FREE"

\* get_task succeeds: the descriptor is in use, by this incarnation
IsTask(tid) == /\ tid.ix \in Ix
               /\ state[tid.ix] # "FREE"
               /\ tid_seq[tid.ix] = tid.seq

\* Mutant: the task goes to the front of its queue.
task_readyFront(t, st, nq, pr) ==
    /\ state' = [st EXCEPT ![t] = "READY"]
    /\ in_queue' = [nq EXCEPT ![t] = TRUE]
    /\ rdy_queues' = [rdy_queues EXCEPT ![pr[t]] = <<t>> \o @]
    /\ rdy_queue_ne' = rdy_queue_ne \cup {pr[t]}
    /\ rdy_count' = rdy_count + 1

\* Mutant: the last task of a queue is not marked as queued.
task_readyUnmarked(t, st, nq, pr) ==
    /\ state' = [st EXCEPT ![t] = "READY"]
    /\ in_queue' = nq
    /\ rdy_queues' = [rdy_queues EXCEPT ![pr[t]] = Append(@, t)]
    /\ rdy_queue_ne' = rdy_queue_ne \cup {pr[t]}
    /\ rdy_count' = rdy_count + 1

\* task_ready(t), from the intermediate states st, queue marks nq and
\* priorities pr that earlier assignments of the same handler leave.
task_ready(t, st, nq, pr) ==
    /\ state' = [st EXCEPT ![t] = "READY"]
    /\ in_queue' = [nq EXCEPT ![t] = TRUE]
    /\ rdy_queues' = [rdy_queues EXCEPT ![pr[t]] = Append(@, t)]
    /\ rdy_queue_ne' = rdy_queue_ne \cup {pr[t]}
    /\ rdy_count' = rdy_count + 1

\* Mutant: the bit of the second task's queue is not set.
task_ready2OneBit(t, u, st, nq, pr) ==
    /\ state' = [st EXCEPT ![t] = "READY", ![u] = "READY"]
    /\ in_queue' = [nq EXCEPT ![t] = TRUE, ![u] = TRUE]
    /\ rdy_queues' = [[rdy_queues EXCEPT ![pr[t]] = Append(@, t)]
                         EXCEPT ![pr[u]] = Append(@, u)]
    /\ rdy_queue_ne' = rdy_queue_ne \cup {pr[t]}
    /\ rdy_count' = rdy_count + 2

\* task_ready(t) and then task_ready(u)
task_ready2(t, u, st, nq, pr) ==
    /\ state' = [st EXCEPT ![t] = "READY", ![u] = "READY"]
    /\ in_queue' = [nq EXCEPT ![t] = TRUE, ![u] = TRUE]
    /\ rdy_queues' = [[rdy_queues EXCEPT ![pr[t]] = Append(@, t)]
                         EXCEPT ![pr[u]] = Append(@, u)]
    /\ rdy_queue_ne' = rdy_queue_ne \cup {pr[t], pr[u]}
    /\ rdy_count' = rdy_count + 2

\* A failed assert prints and spins: nothing else happens any more.
AssertFailure ==
    /\ phase' = "assert"
    /\ UNCHANGED <<active, schedVars, identVars, ipcVars, eventVars, intcVars,
                   miscVars>>

ToKernel == phase' = "kern" /\ active' = NoTask

-----------------------------------------------------------------------------
(* kern_init *)

Init ==
    /\ phase = "kern"
    /\ active = NoTask
    /\ shutdown = FALSE
    /\ state = [t \in Ix |-> IF t \in {IdleIx, InitIx} THEN "READY" ELSE "FREE"]
    /\ prio = [t \in Ix |-> CASE t = IdleIx -> IdlePrio
                              [] t = InitIx -> InitPrio
                              [] OTHER -> 0]
    /\ tid_seq = [t \in Ix |-> 0]
    /\ in_queue = [t \in Ix |-> TRUE]
    /\ cleanup = [t \in Ix |-> NoTid]
    /\ irq = [t \in Ix |-> NoIrq]
    /\ senders = [t \in Ix |-> <<>>]
    /\ send_to = [t \in Ix |-> NoTid]
    /\ rdy_queues = [p \in Prios |-> CASE p = IdlePrio -> <<IdleIx>>
                                       [] p = InitPrio -> <<InitIx>>
                                       [] OTHER -> <<>>]
    /\ rdy_queue_ne = {IdlePrio, InitPrio}
    /\ rdy_count = 2
    /\ free_tasks = [n \in 1 .. MaxTasks - 2 |-> n + 1]
    /\ evblk_count = 0
    /\ evt_tid = [i \in Irqs |-> NoTid]
    /\ enabled = {}
    /\ pending = {}
    /\ busy = FALSE

-----------------------------------------------------------------------------
(* The main loop *)

\* Mutant: a task that awaits an event does not keep the kernel running.
LoopConditionReadyOnly == ~shutdown /\ rdy_count > 1

LoopCondition == ~shutdown /\ (rdy_count > 1 \/ evblk_count > 0)

ScheduleAsserts ==
    /\ rdy_count > 0
    /\ rdy_queue_ne # {}
    /\ rdy_queues[Min(rdy_queue_ne)] # <<>>
    /\ state[Head(rdy_queues[Min(rdy_queue_ne)])] = "READY"

\* task_schedule and the switch to the task it returns
Dispatch ==
    LET p == Min(rdy_queue_ne)
        t == Head(rdy_queues[p])
    IN  /\ rdy_queues' = [rdy_queues EXCEPT ![p] = Tail(@)]
        /\ rdy_queue_ne' = IF Tail(rdy_queues[p]) = <<>>
                           THEN rdy_queue_ne \ {p} ELSE rdy_queue_ne
        /\ in_queue' = [in_queue EXCEPT ![t] = FALSE]
        /\ state' = [state EXCEPT ![t] = "ACTIVE"]
        /\ rdy_count' = rdy_count - 1
        /\ phase' = "user"
        /\ active' = t
        /\ UNCHANGED <<identVars, ipcVars, eventVars, intcVars, miscVars>>

Schedule ==
    /\ phase = "kern"
    /\ LoopCondition
    /\ IF ScheduleAsserts THEN Dispatch ELSE AssertFailure

\* skip_sched: the loop goes round and back into the active task.
SkipSchedule ==
    /\ phase = "retry"
    /\ LoopCondition
    /\ phase' = "user"
    /\ UNCHANGED <<active, schedVars, identVars, ipcVars, eventVars, intcVars,
                   miscVars>>

\* The loop ends; kern_cleanup resets the interrupt controller.
Halt ==
    /\ phase \in {"kern", "retry"}
    /\ ~LoopCondition
    /\ phase' = "halted"
    /\ enabled' = {}
    /\ UNCHANGED <<active, schedVars, identVars, ipcVars, irq, evt_tid,
                   evblk_count, intcVars, miscVars>>

-----------------------------------------------------------------------------
(* System calls.  The idle task makes none: it spins. *)

Calling(call) == phase = "user" /\ active # IdleIx /\ call \in Calls

\* A handler that only lets its caller run on
Resume ==
    IF ~in_queue[active]
    THEN ToKernel /\ task_ready(active, state, in_queue, prio)
    ELSE AssertFailure

\* MyTid, MyParentTid, Pass
Query ==
    /\ Calling("Query")
    /\ Resume
    /\ UNCHANGED <<identVars, ipcVars, eventVars, intcVars, miscVars>>

\* task_create refuses the priority, or has no descriptor left
CreateFails(p) ==
    /\ Calling("Create")
    /\ p \notin Prios \/ free_tasks = <<>>
    /\ Resume
    /\ UNCHANGED <<identVars, ipcVars, eventVars, intcVars, miscVars>>

\* Mutant: the send queue of the descriptor's last owner is not emptied.
NewTaskKeepsSenders(t, p) ==
    /\ ToKernel
    /\ free_tasks' = Tail(free_tasks)
    /\ prio' = [prio EXCEPT ![t] = p]
    /\ cleanup' = [cleanup EXCEPT ![t] = NoTid]
    /\ irq' = [irq EXCEPT ![t] = NoIrq]
    /\ task_ready2(t, active, state, [in_queue EXCEPT ![t] = FALSE],
                   [prio EXCEPT ![t] = p])
    /\ UNCHANGED <<tid_seq, ipcVars, evt_tid, enabled, evblk_count, intcVars,
                   shutdown>>

\* task_create for child t, from what the dequeue of t leaves
NewTask(t, p) ==
    /\ ToKernel
    /\ free_tasks' = Tail(free_tasks)
    /\ prio' = [prio EXCEPT ![t] = p]
    /\ cleanup' = [cleanup EXCEPT ![t] = NoTid]
    /\ irq' = [irq EXCEPT ![t] = NoIrq]
    /\ senders' = [senders EXCEPT ![t] = <<>>]
    /\ task_ready2(t, active, state, [in_queue EXCEPT ![t] = FALSE],
                   [prio EXCEPT ![t] = p])
    /\ UNCHANGED <<tid_seq, send_to, evt_tid, enabled, evblk_count, intcVars,
                   shutdown>>

Create(p) ==
    /\ Calling("Create")
    /\ p \in Prios
    /\ free_tasks # <<>>
    /\ IF state[Head(free_tasks)] = "FREE" /\ ~in_queue[active]
       THEN NewTask(Head(free_tasks), p) ELSE AssertFailure

\* Mutant: the event of a dead task stays registered.
task_freeKeepsEvent ==
    LET t == active IN
    /\ ToKernel
    /\ state' = [state EXCEPT ![t] = "FREE"]
    /\ tid_seq' = [tid_seq EXCEPT ![t] = (@ + 1) % SeqCount]
    /\ in_queue' = [in_queue EXCEPT ![t] = TRUE]
    /\ free_tasks' = Append(free_tasks, t)
    /\ UNCHANGED <<prio, rdy_queues, rdy_queue_ne, rdy_count, ipcVars,
                   eventVars, intcVars, miscVars>>

\* task_free(active), evt_unregister included
task_free ==
    LET t == active IN
    /\ ToKernel
    /\ state' = [state EXCEPT ![t] = "FREE"]
    /\ tid_seq' = [tid_seq EXCEPT ![t] = (@ + 1) % SeqCount]
    /\ evt_tid' = [i \in Irqs |-> IF i = irq[t] THEN NoTid ELSE evt_tid[i]]
    /\ enabled' = enabled \ {irq[t]}
    /\ in_queue' = [in_queue EXCEPT ![t] = TRUE]
    /\ free_tasks' = Append(free_tasks, t)
    /\ UNCHANGED <<prio, rdy_queues, rdy_queue_ne, rdy_count, ipcVars, irq,
                   evblk_count, intcVars, miscVars>>

FreeAsserts == /\ irq[active] \in Irqs => evt_tid[irq[active]] # NoTid
               /\ ~in_queue[active]

\* The cleanup function runs first; it is the task's own code and touches
\* nothing of the kernel.
Exit ==
    /\ Calling("Exit")
    /\ IF FreeAsserts THEN task_free ELSE AssertFailure

\* kern_handle_undef for a task that does not have the floating point
\* context: it gets the context and runs on without being scheduled.
FpuTrap ==
    /\ Calling("FpuTrap")
    /\ phase' = "retry"
    /\ UNCHANGED <<active, schedVars, identVars, ipcVars, eventVars, intcVars,
                   miscVars>>

\* kern_handle_undef for a task that has it already: the task is killed.
KillUndef ==
    /\ Calling("Undef")
    /\ IF FreeAsserts THEN task_free ELSE AssertFailure

RegisterCleanup ==
    /\ Calling("RegisterCleanup")
    /\ Resume
    /\ cleanup' = [cleanup EXCEPT ![active] = TASK_TID(active)]
    /\ UNCHANGED <<identVars, ipcVars, eventVars, intcVars, shutdown>>

Shutdown ==
    /\ Calling("Shutdown")
    /\ Resume
    /\ shutdown' = TRUE
    /\ UNCHANGED <<identVars, ipcVars, eventVars, intcVars, cleanup>>

\* SYSCALL_PANIC, or an unknown system call: the kernel prints and hangs.
Panic ==
    /\ Calling("Panic")
    /\ phase' = "panic"
    /\ UNCHANGED <<active, schedVars, identVars, ipcVars, eventVars, intcVars,
                   miscVars>>

-----------------------------------------------------------------------------
(* Message passing (ipc.c).  A task may pass any number as a TID. *)

TidArgs == Tids \cup {NoTid}

SendFails(tid) ==
    /\ Calling("Send")
    /\ ~IsTask(tid)
    /\ Resume
    /\ UNCHANGED <<identVars, ipcVars, eventVars, intcVars, miscVars>>

\* The receiver is in Receive: rendezvous(active, srv)
SendRendezvous(tid) ==
    /\ Calling("Send")
    /\ IsTask(tid)
    /\ state[tid.ix] = "SEND_BLOCKED"
    /\ IF ~in_queue[tid.ix]
       THEN /\ ToKernel
            /\ send_to' = [send_to EXCEPT ![active] = tid]
            /\ task_ready(tid.ix, [state EXCEPT ![active] = "REPLY_BLOCKED"],
                          in_queue, prio)
            /\ UNCHANGED <<identVars, senders, eventVars, intcVars, miscVars>>
       ELSE AssertFailure

SendEnqueue(tid) ==
    /\ Calling("Send")
    /\ IsTask(tid)
    /\ state[tid.ix] # "SEND_BLOCKED"
    /\ IF ~in_queue[active]
       THEN /\ ToKernel
            /\ state' = [state EXCEPT ![active] = "RECEIVE_BLOCKED"]
            /\ senders' = [senders EXCEPT ![tid.ix] = Append(@, active)]
            /\ in_queue' = [in_queue EXCEPT ![active] = TRUE]
            /\ send_to' = [send_to EXCEPT ![active] = tid]
            /\ UNCHANGED <<rdy_queues, rdy_queue_ne, rdy_count, identVars,
                           eventVars, intcVars, miscVars>>
       ELSE AssertFailure

\* Mutant: a dequeued sender keeps its mark.
ReceiveRendezvousMarked ==
    /\ Calling("Receive")
    /\ senders[active] # <<>>
    /\ IF ~in_queue[active]
       THEN LET s == Head(senders[active]) IN
            /\ ToKernel
            /\ senders' = [senders EXCEPT ![active] = Tail(@)]
            /\ task_ready(active, [state EXCEPT ![s] = "REPLY_BLOCKED"],
                          in_queue, prio)
            /\ UNCHANGED <<identVars, send_to, eventVars, intcVars, miscVars>>
       ELSE AssertFailure

\* The oldest sender is dequeued: rendezvous(sender, active)
ReceiveRendezvous ==
    /\ Calling("Receive")
    /\ senders[active] # <<>>
    /\ IF ~in_queue[active]
       THEN LET s == Head(senders[active]) IN
            /\ ToKernel
            /\ senders' = [senders EXCEPT ![active] = Tail(@)]
            /\ task_ready(active, [state EXCEPT ![s] = "REPLY_BLOCKED"],
                          [in_queue EXCEPT ![s] = FALSE], prio)
            /\ UNCHANGED <<identVars, send_to, eventVars, intcVars, miscVars>>
       ELSE AssertFailure

\* Mutant: Receive waits although a sender is queued.
ReceiveBlocksAlways ==
    /\ Calling("Receive")
    /\ ToKernel
    /\ state' = [state EXCEPT ![active] = "SEND_BLOCKED"]
    /\ UNCHANGED <<in_queue, rdy_queues, rdy_queue_ne, rdy_count, identVars,
                   ipcVars, eventVars, intcVars, miscVars>>

ReceiveBlocks ==
    /\ Calling("Receive")
    /\ senders[active] = <<>>
    /\ ToKernel
    /\ state' = [state EXCEPT ![active] = "SEND_BLOCKED"]
    /\ UNCHANGED <<in_queue, rdy_queues, rdy_queue_ne, rdy_count, identVars,
                   ipcVars, eventVars, intcVars, miscVars>>

ReplyFails(tid) ==
    /\ Calling("Reply")
    /\ ~(IsTask(tid) /\ state[tid.ix] = "REPLY_BLOCKED")
    /\ Resume
    /\ UNCHANGED <<identVars, ipcVars, eventVars, intcVars, miscVars>>

\* The sender's Send returns; its r0 becomes the length of the reply.
Reply(tid) ==
    /\ Calling("Reply")
    /\ IsTask(tid)
    /\ state[tid.ix] = "REPLY_BLOCKED"
    /\ IF ~in_queue[tid.ix] /\ ~in_queue[active]
       THEN /\ ToKernel
            /\ send_to' = [send_to EXCEPT ![tid.ix] = NoTid]
            /\ task_ready2(tid.ix, active, state, in_queue, prio)
            /\ UNCHANGED <<identVars, senders, eventVars, intcVars, miscVars>>
       ELSE AssertFailure

-----------------------------------------------------------------------------
(* Events: registration, AwaitEvent and IRQ delivery *)

\* The task has an event already, the IRQ is out of range or it is taken.
RegisterEventFails(i) ==
    /\ Calling("RegisterEvent")
    /\ irq[active] = NoIrq /\ i \in Irqs => evt_tid[i] # NoTid
    /\ Resume
    /\ UNCHANGED <<identVars, ipcVars, eventVars, intcVars, miscVars>>

RegisterEvent(i) ==
    /\ Calling("RegisterEvent")
    /\ irq[active] = NoIrq
    /\ i # NoIrq
    /\ evt_tid[i] = NoTid
    /\ IF ~in_queue[active]
       THEN /\ ToKernel
            /\ task_ready(active, state, in_queue, prio)
            /\ evt_tid' = [evt_tid EXCEPT ![i] = TASK_TID(active)]
            /\ irq' = [irq EXCEPT ![active] = i]
            /\ UNCHANGED <<identVars, ipcVars, enabled, evblk_count, intcVars,
                           miscVars>>
       ELSE AssertFailure

\* Mutant: the event-blocked task is not counted.
AwaitEventUncounted ==
    /\ Calling("AwaitEvent")
    /\ irq[active] # NoIrq
    /\ ToKernel
    /\ state' = [state EXCEPT ![active] = "EVENT_BLOCKED"]
    /\ enabled' = enabled \cup {irq[active]}
    /\ UNCHANGED <<in_queue, rdy_queues, rdy_queue_ne, rdy_count, identVars,
                   ipcVars, irq, evt_tid, evblk_count, intcVars, miscVars>>

AwaitEvent ==
    /\ Calling("AwaitEvent")
    /\ irq[active] # NoIrq
    /\ ToKernel
    /\ state' = [state EXCEPT ![active] = "EVENT_BLOCKED"]
    /\ enabled' = enabled \cup {irq[active]}
    /\ evblk_count' = evblk_count + 1
    /\ UNCHANGED <<in_queue, rdy_queues, rdy_queue_ne, rdy_count, identVars,
                   ipcVars, irq, evt_tid, intcVars, miscVars>>

\* AwaitEvent by a task without an event: the handler readies its caller and,
\* for want of a return, goes on.  evt_enable(-1) writes before the event
\* table: its ptr, -1, falls on the ready queues of the two priorities above
\* idle's and empties them; its size, 0 here, falls on the idle ready queue
\* and the free list, whose head becomes descriptor 0.
AwaitUnregistered ==
    /\ Calling("AwaitEvent")
    /\ irq[active] = NoIrq
    /\ IF ~in_queue[active]
       THEN /\ ToKernel
            /\ state' = [state EXCEPT ![active] = "EVENT_BLOCKED"]
            /\ in_queue' = [in_queue EXCEPT ![active] = TRUE]
            /\ rdy_queues' = [p \in Prios |->
                  CASE p \in IdlePrio - 2 .. IdlePrio - 1 -> <<>>
                    [] p = prio[active] -> Append(rdy_queues[p], active)
                    [] OTHER -> rdy_queues[p]]
            /\ free_tasks' = rdy_queues[IdlePrio]
            /\ rdy_queue_ne' = rdy_queue_ne \cup {prio[active]}
            /\ rdy_count' = rdy_count + 1
            /\ evblk_count' = evblk_count + 1
            /\ UNCHANGED <<prio, tid_seq, ipcVars, irq, evt_tid, enabled,
                           intcVars, miscVars>>
       ELSE AssertFailure

\* External: a device asserts its line.
DeviceAssert(i) ==
    /\ phase = "user"
    /\ i \notin pending
    /\ pending' = pending \cup {i}
    /\ UNCHANGED <<phase, active, schedVars, identVars, ipcVars, eventVars,
                   busy, miscVars>>

\* External: the controller raises IRQ i in the running task, idle included.
IrqRaised(i) == phase = "user" /\ ~busy /\ i \in enabled \cap pending

\* kern_handle_irq when the callback answers -1: it has served the device,
\* the awaiting task sleeps on, and the handler returns before evt_disable
\* and evt_acknowledge.
IrqIgnored(i) ==
    /\ IrqRaised(i)
    /\ "ignore" \in CbResults
    /\ IF ~in_queue[active] /\ evt_tid[i] # NoTid
       THEN /\ ToKernel
            /\ task_ready(active, state, in_queue, prio)
            /\ pending' = pending \ {i}
            /\ busy' = TRUE
            /\ UNCHANGED <<identVars, ipcVars, eventVars, miscVars>>
       ELSE AssertFailure

\* kern_handle_irq when the callback answers with a result: the callback has
\* served the device and the task's AwaitEvent returns.
IrqAsserts(i) ==
    LET w == evt_tid[i].ix IN
    /\ ~in_queue[active]
    /\ IsTask(evt_tid[i])
    /\ state[w] = "EVENT_BLOCKED"
    /\ ~in_queue[w]

\* Mutant: the IRQ is not acknowledged.
IrqWakesUnacknowledged(i) ==
    /\ IrqRaised(i)
    /\ "wake" \in CbResults
    /\ IF IrqAsserts(i)
       THEN /\ ToKernel
            /\ task_ready2(active, evt_tid[i].ix, state, in_queue, prio)
            /\ evblk_count' = evblk_count - 1
            /\ enabled' = enabled \ {i}
            /\ pending' = pending \ {i}
            /\ busy' = TRUE
            /\ UNCHANGED <<identVars, ipcVars, irq, evt_tid, miscVars>>
       ELSE AssertFailure

IrqWakes(i) ==
    /\ IrqRaised(i)
    /\ "wake" \in CbResults
    /\ IF IrqAsserts(i)
       THEN /\ ToKernel
            /\ task_ready2(active, evt_tid[i].ix, state, in_queue, prio)
            /\ evblk_count' = evblk_count - 1
            /\ enabled' = enabled \ {i}
            /\ pending' = pending \ {i}
            /\ busy' = FALSE
            /\ UNCHANGED <<identVars, ipcVars, irq, evt_tid, miscVars>>
       ELSE AssertFailure

-----------------------------------------------------------------------------
(* The specification *)

\* kern_main has returned, or the kernel hangs in a panic.
Terminated == phase \in {"halted", "panic", "assert"} /\ UNCHANGED vars

SysCall ==
    \/ Query
    \/ \E p \in CreatePrios : CreateFails(p) \/ Create(p)
    \/ Exit
    \/ RegisterCleanup
    \/ Shutdown
    \/ Panic
    \/ \E tid \in TidArgs :
          SendFails(tid) \/ SendRendezvous(tid) \/ SendEnqueue(tid)
    \/ ReceiveRendezvous
    \/ ReceiveBlocks
    \/ \E tid \in TidArgs : ReplyFails(tid) \/ Reply(tid)
    \/ \E i \in Irqs \cup {NoIrq} : RegisterEventFails(i) \/ RegisterEvent(i)
    \/ AwaitEvent

UserTrap == SysCall \/ KillUndef \/ FpuTrap

Irq(i) == IrqIgnored(i) \/ IrqWakes(i)

KernelStep == Schedule \/ SkipSchedule \/ Halt

Next ==
    \/ KernelStep
    \/ UserTrap
    \/ \E i \in Irqs : DeviceAssert(i) \/ Irq(i)
    \/ Terminated

Spec == Init /\ [][Next]_vars

\* Every system call in every state, AwaitEvent without an event too
SpecAny == Init /\ [][Next \/ AwaitUnregistered]_vars

\* The kernel runs on; a task does not compute for ever without a system
\* call; the processor takes an IRQ that stays raised in user mode.
Fairness == /\ WF_vars(KernelStep)
            /\ WF_vars(UserTrap)
            /\ \A i \in Irqs : SF_vars(Irq(i))

FairSpec == Spec /\ Fairness

-----------------------------------------------------------------------------
(* Properties *)

\* Every variable has its type (struct kern, struct task_desc).
TypeOK ==
    /\ phase \in {"kern", "user", "retry", "halted", "panic", "assert"}
    /\ active \in Ix \cup {NoTask}
    /\ shutdown \in BOOLEAN
    /\ state \in [Ix -> States]
    /\ prio \in [Ix -> Prios]
    /\ tid_seq \in [Ix -> Seqs]
    /\ in_queue \in [Ix -> BOOLEAN]
    /\ cleanup \in [Ix -> Tids \cup {NoTid}]
    /\ irq \in [Ix -> Irqs \cup {NoIrq}]
    /\ senders \in [Ix -> Seq(Ix)]
    /\ send_to \in [Ix -> Tids \cup {NoTid}]
    /\ rdy_queues \in [Prios -> Seq(Ix)]
    /\ rdy_queue_ne \in SUBSET Prios
    /\ rdy_count \in Int
    /\ free_tasks \in Seq(Ix)
    /\ evblk_count \in Int
    /\ evt_tid \in [Irqs -> Tids \cup {NoTid}]
    /\ enabled \in SUBSET Irqs
    /\ pending \in SUBSET Irqs
    /\ busy \in BOOLEAN

\* No assert of the kernel ever fails: task_schedule finds a READY task,
\* task_enqueue never gets a queued task, the woken task awaits its event.
NoAssertFails == phase # "assert"

\* The ready queue of p holds exactly the READY tasks of priority p, each once.
ReadyQueuesExact ==
    \A p \in Prios :
        /\ IsInjective(rdy_queues[p])
        /\ ToSet(rdy_queues[p]) = {t \in Ix : state[t] = "READY" /\ prio[t] = p}

FreeListExact == /\ IsInjective(free_tasks)
                 /\ ToSet(free_tasks) = {t \in Ix : state[t] = "FREE"}

SendQueuesSound ==
    \A r \in Ix :
        /\ IsInjective(senders[r])
        /\ \A s \in ToSet(senders[r]) :
              state[s] = "RECEIVE_BLOCKED" /\ send_to[s].ix = r

QueueMarksExact ==
    \A t \in Ix :
        in_queue[t] <=> state[t] \in {"READY", "FREE", "RECEIVE_BLOCKED"}

\* A task is in the ready queue of its priority exactly while READY and on
\* the free list exactly while FREE, in no queue twice; a queued sender is
\* blocked on the task that holds it; and next_ix marks a queued task exactly
\* in the states READY, FREE and RECEIVE_BLOCKED, so no task is ever lost to
\* or duplicated in the lists that share next_ix.
QueueDiscipline == /\ ReadyQueuesExact
                   /\ FreeListExact
                   /\ SendQueuesSound
                   /\ QueueMarksExact

InState(s) == {t \in Ix : state[t] = s}

\* The counters that decide when the kernel exits count what their names
\* say, and the ready bitmap has a bit exactly for each non-empty queue.
CountersExact ==
    /\ rdy_count = Cardinality(InState("READY"))
    /\ evblk_count = Cardinality(InState("EVENT_BLOCKED"))
    /\ rdy_queue_ne = {p \in Prios : rdy_queues[p] # <<>>}

\* Only the running task is ACTIVE, the scheduler never runs with a task
\* ACTIVE, and the idle task never blocks or exits.
Running ==
    /\ \A t \in Ix : state[t] = "ACTIVE" <=> t = active
    /\ phase \in {"user", "retry"} => active # NoTask
    /\ phase = "kern" => active = NoTask
    /\ state[IdleIx] \in {"READY", "ACTIVE"}

\* No READY task has a higher priority than the running one.
RunsHighest ==
    phase \in {"user", "retry"} =>
        \A t \in Ix : state[t] = "READY" => prio[active] <= prio[t]

\* A message waits only for the incarnation it was addressed to: when the
\* holder of a send queue is alive its senders named its present TID, never
\* that of a task that had the descriptor before.
NoMisdelivery ==
    \A r \in Ix : state[r] # "FREE" =>
        \A s \in ToSet(senders[r]) : send_to[s] = TASK_TID(r)

\* A receiver waits only with an empty send queue.
NoLostWakeup ==
    \A r \in Ix : state[r] = "SEND_BLOCKED" => senders[r] = <<>>

\* The event table and the tasks agree: a registered IRQ belongs to a live
\* task that knows it, and, while the kernel runs, an IRQ is unmasked exactly
\* while its owner is in AwaitEvent; so a dead task never leaves an IRQ
\* enabled and a live one never waits on a masked one.
EventOwnership ==
    /\ \A i \in Irqs : evt_tid[i] # NoTid =>
          IsTask(evt_tid[i]) /\ irq[evt_tid[i].ix] = i
    /\ \A t \in Ix : state[t] # "FREE" /\ irq[t] # NoIrq =>
          evt_tid[irq[t]] = TASK_TID(t)
    /\ phase \in {"kern", "user", "retry"} =>
          enabled = {irq[t] : t \in InState("EVENT_BLOCKED")}

\* The invariant that is inductive: what the asserts rest on
KernelInv == /\ TypeOK
             /\ NoAssertFails
             /\ Running
             /\ QueueDiscipline
             /\ CountersExact
             /\ EventOwnership

\* The cleanup function of a live task was registered by that task, not by
\* an earlier owner of its descriptor.
CleanupOwned ==
    \A t \in Ix : state[t] # "FREE" => cleanup[t] \in {NoTid, TASK_TID(t)}

\* "Kernel exits either when there has been a shutdown request, or when no
\* tasks are ready or event-blocked" (kern.h), the idle task aside.
HaltJustified ==
    phase = "halted" =>
        \/ shutdown
        \/ \A t \in Ix \ {IdleIx} :
              state[t] \notin {"READY", "ACTIVE", "EVENT_BLOCKED"}

\* A sender becomes reply-blocked only in a rendezvous with the incarnation
\* it addressed, and it is that receiver's Receive which returns.
DeliveredToAddressee ==
    [][\A s \in Ix : state[s] # "REPLY_BLOCKED" /\ state'[s] = "REPLY_BLOCKED" =>
          LET r == send_to'[s].ix IN
          /\ send_to'[s] = TASK_TID(r)
          /\ r # s
          /\ state[r] \in {"SEND_BLOCKED", "ACTIVE"}
          /\ state'[r] = "READY"]_vars

\* Queue r is what queue q becomes when its first k tasks leave it and others
\* join it at the tail.
Served(q, r) ==
    \E k \in 0 .. Len(q) : /\ IsPrefix(SubSeq(q, k + 1, Len(q)), r)
                           /\ ToSet(SubSeq(q, 1, k)) \cap ToSet(r) = {}

\* First come, first served: in every step each ready queue and each send
\* queue only loses tasks at its head and gains them at its tail.
FirstComeFirstServed ==
    [][/\ \A p \in Prios : Served(rdy_queues[p], rdy_queues'[p])
       /\ \A t \in Ix : Served(senders[t], senders'[t])]_vars

Stopped == phase \in {"halted", "panic", "assert"}

\* A READY task runs, unless the system stops or a task of higher priority
\* comes to run: equal priorities never starve each other, although there
\* are no time slices.
NoStarvation ==
    \A t \in Ix :
        state[t] = "READY" ~>
            \/ state[t] = "ACTIVE"
            \/ Stopped
            \/ phase = "user" /\ prio[active] < prio[t]

\* "Acknowledge the IRQ so that more can happen" (event.c): a raised IRQ
\* that its owner awaits is handled.
IrqServed ==
    \A i \in Irqs : i \in enabled \cap pending ~> i \notin pending \/ Stopped
=============================================================================
