------------------------- MODULE KernelSafetyProofs -------------------------
(* The safety properties of the kernel that are not part of KernelInv, the    *)
(* kernel's messages as MessagePassing promises them, and the floating point *)
(* contexts: all relative to the invariant that KernelProofs proves.         *)
EXTENDS KernelIpc, KernelFp, KernelProofs

\* What every step has to work with: the invariant before and after it.
Moves == KernelInv /\ KernelInv' /\ [Next]_vars

\* A step that leaves send queues and addressees alone, in which no task begins
\* to wait in Receive or for a reply, none is born, and the only cleanup
\* function that is registered is the caller's own
Calm ==
    /\ UNCHANGED <<senders, send_to>>
    /\ \A t \in Ix :
          /\ state'[t] \in {"SEND_BLOCKED", "REPLY_BLOCKED"} => state'[t] = state[t]
          /\ state'[t] # "FREE" => /\ state[t] # "FREE" /\ tid_seq'[t] = tid_seq[t]
                                   /\ cleanup'[t] \in {cleanup[t], TASK_TID(t)}


LEMMA StepFacts ==
    ASSUME Moves
    PROVE  /\ TypeOK /\ TypeOK' /\ ~ AssertFailure
           /\ phase = "user" => /\ active \in Ix /\ state[active] = "ACTIVE"
                                /\ \A r \in Ix : active \notin ToSet(senders[r])
<1>1. TypeOK /\ TypeOK' /\ NoAssertFails'
  BY DEF Moves, KernelInv
<1>2. ~ AssertFailure
  BY <1>1 DEF NoAssertFails, AssertFailure
<1>3. ASSUME phase = "user"
      PROVE  /\ active \in Ix /\ state[active] = "ACTIVE"
             /\ \A r \in Ix : active \notin ToSet(senders[r])
  <2>1. active \in Ix /\ state[active] = "ACTIVE"
    BY <1>3, ActiveFacts DEF Moves
  <2>2. \A r \in Ix : \A s \in ToSet(senders[r]) : state[s] = "RECEIVE_BLOCKED"
    BY DEF Moves, KernelInv, QueueDiscipline, SendQueuesSound
  <2> QED BY <2>1, <2>2
<1> QED BY <1>1, <1>2, <1>3

\* The steps that change neither who is queued on whom nor who starts to wait
\* in Receive
LEMMA CalmSteps ==
    ASSUME Moves,
           \/ KernelStep \/ Query \/ RegisterCleanup \/ Shutdown \/ Panic \/ FpuTrap
           \/ Exit \/ KillUndef \/ AwaitEvent \/ Terminated \/ UNCHANGED vars
           \/ \E p \in CreatePrios : CreateFails(p)
           \/ \E tid \in TidArgs : SendFails(tid) \/ ReplyFails(tid)
           \/ \E i \in Irqs \cup {NoIrq} : RegisterEventFails(i) \/ RegisterEvent(i)
           \/ \E i \in Irqs : DeviceAssert(i) \/ Irq(i)
    PROVE  Calm
<1>1. /\ state \in [Ix -> States] /\ tid_seq \in [Ix -> Seqs] /\ ~ AssertFailure
      /\ cleanup \in [Ix -> Tids \cup {NoTid}]
      /\ phase = "user" => active \in Ix /\ state[active] = "ACTIVE"
  BY StepFacts DEF TypeOK
<1>2. CASE KernelStep
  <2>1. CASE Schedule
    <3>1. Dispatch
      BY <1>1, <2>1 DEF Schedule
    <3>2. state[Head(rdy_queues[Min(rdy_queue_ne)])] = "READY"
      BY <1>1, <2>1 DEF Schedule, ScheduleAsserts
    <3> QED BY <1>1, <3>1, <3>2 DEF Calm, Dispatch, identVars, ipcVars, miscVars
  <2>2. CASE SkipSchedule \/ Halt
    BY <2>2 DEF Calm, SkipSchedule, Halt, schedVars, identVars, ipcVars, miscVars
  <2> QED BY <1>2, <2>1, <2>2 DEF KernelStep
<1>3. CASE \/ Query \/ RegisterCleanup \/ Shutdown
           \/ \E p \in CreatePrios : CreateFails(p)
           \/ \E tid \in TidArgs : SendFails(tid) \/ ReplyFails(tid)
           \/ \E i \in Irqs \cup {NoIrq} : RegisterEventFails(i)
  <2>1. /\ phase = "user" /\ Resume /\ UNCHANGED <<identVars, ipcVars>>
        /\ UNCHANGED cleanup \/ cleanup' = [cleanup EXCEPT ![active] = TASK_TID(active)]
    BY <1>3 DEF Query, RegisterCleanup, Shutdown, CreateFails, SendFails, ReplyFails,
                RegisterEventFails, Calling, miscVars
  <2>2. task_ready(active, state, in_queue, prio)
    BY <1>1, <2>1 DEF Resume
  <2> QED BY <1>1, <2>1, <2>2 DEF Calm, task_ready, identVars, ipcVars
<1>4. CASE Panic \/ FpuTrap \/ Terminated \/ UNCHANGED vars \/ \E i \in Irqs : DeviceAssert(i)
  BY <1>4 DEF Calm, Panic, FpuTrap, Terminated, DeviceAssert, vars, schedVars,
              identVars, ipcVars, miscVars
<1>5. CASE Exit \/ KillUndef
  <2>1. phase = "user" /\ task_free
    BY <1>1, <1>5 DEF Exit, KillUndef, Calling
  <2> QED BY <1>1, <2>1 DEF Calm, task_free, ipcVars, miscVars
<1>6. CASE AwaitEvent
  BY <1>1, <1>6 DEF Calm, AwaitEvent, Calling, identVars, ipcVars, miscVars
<1>7. CASE \E i \in Irqs \cup {NoIrq} : RegisterEvent(i)
  <2>1. /\ phase = "user" /\ task_ready(active, state, in_queue, prio)
        /\ UNCHANGED <<identVars, ipcVars, miscVars>>
    BY <1>1, <1>7 DEF RegisterEvent, Calling
  <2> QED BY <1>1, <2>1 DEF Calm, task_ready, identVars, ipcVars, miscVars
<1>8. CASE \E i \in Irqs : IrqIgnored(i)
  <2>1. /\ phase = "user" /\ task_ready(active, state, in_queue, prio)
        /\ UNCHANGED <<identVars, ipcVars, miscVars>>
    BY <1>1, <1>8 DEF IrqIgnored, IrqRaised
  <2> QED BY <1>1, <2>1 DEF Calm, task_ready, identVars, ipcVars, miscVars
<1>9. CASE \E i \in Irqs : IrqWakes(i)
  <2>1. PICK i \in Irqs : IrqWakes(i)
    BY <1>9
  <2>2. /\ phase = "user" /\ task_ready2(active, evt_tid[i].ix, state, in_queue, prio)
        /\ UNCHANGED <<identVars, ipcVars, miscVars>> /\ state[evt_tid[i].ix] = "EVENT_BLOCKED"
    BY <1>1, <2>1 DEF IrqWakes, IrqRaised, IrqAsserts
  <2> QED BY <1>1, <2>2 DEF Calm, task_ready2, identVars, ipcVars, miscVars
<1> QED BY <1>2, <1>3, <1>4, <1>5, <1>6, <1>7, <1>8, <1>9 DEF Irq

\* The other steps: those of message passing that do something, and Create
LEMMA BusySteps ==
    ASSUME Moves
    PROVE  \/ Calm
           \/ \E p \in CreatePrios : Create(p)
           \/ \E tid \in TidArgs : SendRendezvous(tid) \/ SendEnqueue(tid) \/ Reply(tid)
           \/ ReceiveRendezvous \/ ReceiveBlocks
<1>1. [Next]_vars
  BY DEF Moves
<1> QED BY <1>1, CalmSteps DEF Next, UserTrap, SysCall

-----------------------------------------------------------------------------
(* Receivers and addressees *)

\* Receive never leaves its caller waiting behind a sender that is queued.
LEMMA NoLostWakeupStep == Moves /\ NoLostWakeup => NoLostWakeup'
<1> SUFFICES ASSUME Moves, NoLostWakeup PROVE NoLostWakeup'
  OBVIOUS
<1>1. /\ state \in [Ix -> States] /\ senders \in [Ix -> Seq(Ix)] /\ ~ AssertFailure
      /\ phase = "user" => active \in Ix /\ state[active] = "ACTIVE"
  BY StepFacts DEF TypeOK
<1>2. CASE Calm
  BY <1>1, <1>2 DEF NoLostWakeup, Calm
<1>3. CASE \E p \in CreatePrios : Create(p)
  <2>1. PICK p \in CreatePrios : phase = "user" /\ NewTask(Head(free_tasks), p)
    BY <1>1, <1>3 DEF Create, Calling
  <2>2. /\ senders' = [senders EXCEPT ![Head(free_tasks)] = <<>>]
        /\ state' = [state EXCEPT ![Head(free_tasks)] = "READY", ![active] = "READY"]
    BY <2>1 DEF NewTask, task_ready2
  <2> QED BY <1>1, <2>1, <2>2 DEF NoLostWakeup
<1>4. CASE \E tid \in TidArgs : SendRendezvous(tid)
  <2>1. PICK tid \in TidArgs : /\ phase = "user" /\ UNCHANGED senders
                               /\ task_ready(tid.ix, [state EXCEPT ![active] = "REPLY_BLOCKED"],
                                             in_queue, prio)
    BY <1>1, <1>4 DEF SendRendezvous, Calling
  <2> QED BY <1>1, <2>1 DEF NoLostWakeup, task_ready
<1>5. CASE \E tid \in TidArgs : SendEnqueue(tid)
  <2>1. PICK tid \in TidArgs : SendEnqueue(tid)
    BY <1>5
  <2>2. /\ phase = "user" /\ state[tid.ix] # "SEND_BLOCKED"
        /\ state' = [state EXCEPT ![active] = "RECEIVE_BLOCKED"]
        /\ senders' = [senders EXCEPT ![tid.ix] = Append(@, active)]
    BY <1>1, <2>1 DEF SendEnqueue, Calling
  <2> QED BY <1>1, <2>2 DEF NoLostWakeup
<1>6. CASE \E tid \in TidArgs : Reply(tid)
  <2>1. PICK tid \in TidArgs : /\ phase = "user" /\ UNCHANGED senders
                               /\ task_ready2(tid.ix, active, state, in_queue, prio)
    BY <1>1, <1>6 DEF Reply, Calling
  <2> QED BY <1>1, <2>1 DEF NoLostWakeup, task_ready2
<1>7. CASE ReceiveRendezvous
  <2>1. /\ phase = "user"
        /\ senders' = [senders EXCEPT ![active] = Tail(@)]
        /\ state' = [[state EXCEPT ![Head(senders[active])] = "REPLY_BLOCKED"]
                         EXCEPT ![active] = "READY"]
    BY <1>1, <1>7 DEF ReceiveRendezvous, Calling, task_ready
  <2> QED BY <1>1, <2>1 DEF NoLostWakeup
<1>8. CASE ReceiveBlocks
  BY <1>1, <1>8 DEF NoLostWakeup, ReceiveBlocks, Calling, ipcVars
<1> QED BY <1>2, <1>3, <1>4, <1>5, <1>6, <1>7, <1>8, BusySteps

\* The senders queued on a live task addressed that task.
LEMMA NoMisdeliveryStep == Moves /\ NoMisdelivery => NoMisdelivery'
<1> SUFFICES ASSUME Moves, NoMisdelivery PROVE NoMisdelivery'
  OBVIOUS
<1>1. /\ state \in [Ix -> States] /\ senders \in [Ix -> Seq(Ix)] /\ ~ AssertFailure
      /\ send_to \in [Ix -> Tids \cup {NoTid}]
      /\ phase = "user" => /\ active \in Ix /\ state[active] = "ACTIVE"
                           /\ \A r \in Ix : active \notin ToSet(senders[r])
  BY StepFacts DEF TypeOK
<1>2. \A r \in Ix : \A s \in ToSet(senders[r]) : s \in Ix /\ state[s] = "RECEIVE_BLOCKED"
  BY <1>1, RangeSubset DEF Moves, KernelInv, QueueDiscipline, SendQueuesSound
<1>3. CASE Calm
  BY <1>3 DEF NoMisdelivery, TASK_TID, Calm
<1>4. CASE \E p \in CreatePrios : Create(p)
  <2>1. PICK p \in CreatePrios : phase = "user" /\ NewTask(Head(free_tasks), p)
    BY <1>1, <1>4 DEF Create, Calling
  <2>2. /\ senders' = [senders EXCEPT ![Head(free_tasks)] = <<>>]
        /\ state' = [state EXCEPT ![Head(free_tasks)] = "READY", ![active] = "READY"]
        /\ UNCHANGED <<send_to, tid_seq>>
    BY <2>1 DEF NewTask, task_ready2
  <2> QED BY <1>1, <2>1, <2>2, EmptyFacts DEF NoMisdelivery, TASK_TID
<1>5. CASE \E tid \in TidArgs : SendRendezvous(tid)
  <2>1. PICK tid \in TidArgs :
           /\ phase = "user" /\ UNCHANGED <<senders, tid_seq>>
           /\ send_to' = [send_to EXCEPT ![active] = tid]
           /\ state[tid.ix] = "SEND_BLOCKED"
           /\ task_ready(tid.ix, [state EXCEPT ![active] = "REPLY_BLOCKED"], in_queue, prio)
    BY <1>1, <1>5 DEF SendRendezvous, Calling, identVars
  <2>2. \A t \in Ix : state'[t] # "FREE" => state[t] # "FREE"
    BY <1>1, <2>1 DEF task_ready
  <2> QED BY <1>1, <1>2, <2>1, <2>2 DEF NoMisdelivery, TASK_TID
<1>6. CASE \E tid \in TidArgs : SendEnqueue(tid)
  <2>1. PICK tid \in TidArgs : SendEnqueue(tid)
    BY <1>6
  <2>2. /\ phase = "user" /\ IsTask(tid) /\ UNCHANGED tid_seq
        /\ state' = [state EXCEPT ![active] = "RECEIVE_BLOCKED"]
        /\ senders' = [senders EXCEPT ![tid.ix] = Append(@, active)]
        /\ send_to' = [send_to EXCEPT ![active] = tid]
    BY <1>1, <2>1 DEF SendEnqueue, Calling, identVars
  <2>3. tid = TASK_TID(tid.ix) /\ tid.ix \in Ix
    BY <2>2 DEF IsTask, TASK_TID, TidArgs, Tids, NoTid
  <2>4. ToSet(Append(senders[tid.ix], active)) = ToSet(senders[tid.ix]) \cup {active}
    BY <1>1, <2>2, <2>3, AppendFacts
  <2>5. \A r \in Ix : state'[r] # "FREE" => state[r] # "FREE"
    BY <1>1, <2>2
  <2>6. ASSUME NEW r \in Ix, state'[r] # "FREE", NEW s \in ToSet(senders'[r])
        PROVE  send_to'[s] = TASK_TID(r)'
    <3>1. CASE s = active
      <4>1. r = tid.ix
        BY <1>1, <2>2, <2>6, <3>1
      <4> QED BY <1>1, <2>2, <2>3, <3>1, <4>1 DEF TASK_TID
    <3>2. CASE s # active
      <4>1. s \in ToSet(senders[r])
        BY <1>1, <2>2, <2>4, <2>6, <3>2
      <4> QED BY <1>1, <1>2, <2>2, <2>5, <2>6, <3>2, <4>1 DEF NoMisdelivery, TASK_TID
    <3> QED BY <3>1, <3>2
  <2> QED BY <2>6 DEF NoMisdelivery
<1>7. CASE \E tid \in TidArgs : Reply(tid)
  <2>1. PICK tid \in TidArgs :
           /\ phase = "user" /\ UNCHANGED <<senders, tid_seq>>
           /\ send_to' = [send_to EXCEPT ![tid.ix] = NoTid]
           /\ state[tid.ix] = "REPLY_BLOCKED"
           /\ task_ready2(tid.ix, active, state, in_queue, prio)
    BY <1>1, <1>7 DEF Reply, Calling, identVars
  <2>2. \A t \in Ix : state'[t] # "FREE" => state[t] # "FREE"
    BY <1>1, <2>1 DEF task_ready2
  <2> QED BY <1>1, <1>2, <2>1, <2>2 DEF NoMisdelivery, TASK_TID
<1>8. CASE ReceiveRendezvous
  <2>1. /\ phase = "user" /\ senders[active] # <<>>
        /\ senders' = [senders EXCEPT ![active] = Tail(@)]
        /\ state' = [[state EXCEPT ![Head(senders[active])] = "REPLY_BLOCKED"]
                         EXCEPT ![active] = "READY"]
        /\ UNCHANGED <<send_to, tid_seq>>
    BY <1>1, <1>8 DEF ReceiveRendezvous, Calling, task_ready, identVars
  <2>2. /\ ToSet(Tail(senders[active])) \subseteq ToSet(senders[active])
        /\ Head(senders[active]) \in ToSet(senders[active])
    BY <1>1, <2>1, TailFacts
  <2>3. \A r \in Ix : ToSet(senders'[r]) \subseteq ToSet(senders[r])
    BY <1>1, <2>1, <2>2
  <2>4. \A r \in Ix : state'[r] # "FREE" => state[r] # "FREE"
    BY <1>1, <1>2, <2>1, <2>2
  <2> QED BY <2>1, <2>3, <2>4 DEF NoMisdelivery, TASK_TID
<1>9. CASE ReceiveBlocks
  BY <1>1, <1>9 DEF NoMisdelivery, ReceiveBlocks, Calling, ipcVars, identVars, TASK_TID
<1> QED BY <1>3, <1>4, <1>5, <1>6, <1>7, <1>8, <1>9, BusySteps

\* A task that becomes reply-blocked has met the receiver that it addressed.
LEMMA DeliveryStep ==
    ASSUME Moves, NoMisdelivery, NEW s \in Ix,
           state[s] # "REPLY_BLOCKED", state'[s] = "REPLY_BLOCKED"
    PROVE  LET r == send_to'[s].ix IN
           /\ send_to'[s] = TASK_TID(r)
           /\ r # s
           /\ state[r] \in {"SEND_BLOCKED", "ACTIVE"}
           /\ state'[r] = "READY"
<1>1. /\ state \in [Ix -> States] /\ senders \in [Ix -> Seq(Ix)] /\ ~ AssertFailure
      /\ send_to \in [Ix -> Tids \cup {NoTid}]
      /\ phase = "user" => active \in Ix /\ state[active] = "ACTIVE"
  BY StepFacts DEF TypeOK
<1>2. ~ Calm
  BY DEF Calm
<1>3. CASE \E p \in CreatePrios : Create(p)
  <2>1. PICK p \in CreatePrios : phase = "user" /\ NewTask(Head(free_tasks), p)
    BY <1>1, <1>3 DEF Create, Calling
  <2>2. state' = [state EXCEPT ![Head(free_tasks)] = "READY", ![active] = "READY"]
    BY <2>1 DEF NewTask, task_ready2
  <2> QED BY <1>1, <2>1, <2>2
<1>4. CASE \E tid \in TidArgs : SendRendezvous(tid)
  <2>1. PICK tid \in TidArgs :
           /\ phase = "user" /\ IsTask(tid)
           /\ send_to' = [send_to EXCEPT ![active] = tid]
           /\ state[tid.ix] = "SEND_BLOCKED"
           /\ state' = [[state EXCEPT ![active] = "REPLY_BLOCKED"] EXCEPT ![tid.ix] = "READY"]
    BY <1>1, <1>4 DEF SendRendezvous, Calling, task_ready
  <2>2. tid = TASK_TID(tid.ix) /\ tid.ix \in Ix
    BY <2>1 DEF IsTask, TASK_TID, TidArgs, Tids, NoTid
  <2>3. s = active
    BY <1>1, <2>1, <2>2
  <2> QED BY <1>1, <2>1, <2>2, <2>3
<1>5. CASE \E tid \in TidArgs : SendEnqueue(tid)
  BY <1>1, <1>5 DEF SendEnqueue, Calling
<1>6. CASE \E tid \in TidArgs : Reply(tid)
  BY <1>1, <1>6 DEF Reply, Calling, task_ready2
<1>7. CASE ReceiveRendezvous
  <2>1. /\ phase = "user" /\ senders[active] # <<>>
        /\ state' = [[state EXCEPT ![Head(senders[active])] = "REPLY_BLOCKED"]
                         EXCEPT ![active] = "READY"]
        /\ UNCHANGED send_to
    BY <1>1, <1>7 DEF ReceiveRendezvous, Calling, task_ready
  <2>2. Head(senders[active]) \in ToSet(senders[active]) /\ Head(senders[active]) \in Ix
    BY <1>1, <2>1, TailFacts
  <2>3. s = Head(senders[active])
    BY <1>1, <2>1, <2>2
  <2>4. send_to[s] = TASK_TID(active)
    BY <1>1, <2>1, <2>2, <2>3 DEF NoMisdelivery
  <2>5. send_to'[s].ix = active
    BY <2>1, <2>4 DEF TASK_TID
  <2> QED BY <1>1, <2>1, <2>3, <2>4, <2>5
<1>8. CASE ReceiveBlocks
  BY <1>1, <1>8 DEF ReceiveBlocks, Calling
<1> QED BY <1>2, <1>3, <1>4, <1>5, <1>6, <1>7, <1>8, BusySteps

\* A live task has no cleanup function but its own.
LEMMA CleanupOwnedStep == Moves /\ CleanupOwned => CleanupOwned'
<1> SUFFICES ASSUME Moves, CleanupOwned PROVE CleanupOwned'
  OBVIOUS
<1>1. /\ state \in [Ix -> States] /\ cleanup \in [Ix -> Tids \cup {NoTid}] /\ ~ AssertFailure
      /\ phase = "user" => active \in Ix /\ state[active] = "ACTIVE"
  BY StepFacts DEF TypeOK
<1>2. CASE Calm
  BY <1>2 DEF Calm, CleanupOwned, TASK_TID
<1>3. CASE \E p \in CreatePrios : Create(p)
  <2>1. PICK p \in CreatePrios : phase = "user" /\ NewTask(Head(free_tasks), p)
    BY <1>1, <1>3 DEF Create, Calling
  <2>2. /\ state' = [state EXCEPT ![Head(free_tasks)] = "READY", ![active] = "READY"]
        /\ cleanup' = [cleanup EXCEPT ![Head(free_tasks)] = NoTid]
        /\ UNCHANGED tid_seq
    BY <2>1 DEF NewTask, task_ready2
  <2> QED BY <1>1, <2>1, <2>2 DEF CleanupOwned, TASK_TID
<1>4. CASE \E tid \in TidArgs : SendRendezvous(tid) \/ SendEnqueue(tid) \/ Reply(tid)
  <2>1. /\ UNCHANGED <<identVars, miscVars>>
        /\ \A t \in Ix : state'[t] # "FREE" => state[t] # "FREE"
    <3>1. CASE \E tid \in TidArgs : SendRendezvous(tid)
      BY <1>1, <3>1 DEF SendRendezvous, Calling, task_ready
    <3>2. CASE \E tid \in TidArgs : SendEnqueue(tid)
      BY <1>1, <3>2 DEF SendEnqueue, Calling
    <3>3. CASE \E tid \in TidArgs : Reply(tid)
      BY <1>1, <3>3 DEF Reply, Calling, task_ready2
    <3> QED BY <1>4, <3>1, <3>2, <3>3
  <2> QED BY <2>1 DEF CleanupOwned, TASK_TID, identVars, miscVars
<1>5. CASE ReceiveRendezvous
  <2>1. /\ phase = "user" /\ senders[active] # <<>>
        /\ UNCHANGED <<identVars, miscVars>>
        /\ state' = [[state EXCEPT ![Head(senders[active])] = "REPLY_BLOCKED"]
                         EXCEPT ![active] = "READY"]
    BY <1>1, <1>5 DEF ReceiveRendezvous, Calling, task_ready
  <2>2. Head(senders[active]) \in ToSet(senders[active])
    BY <1>1, <2>1, StepFacts, TailFacts, ZenonT(30) DEF TypeOK
  <2>3. state[Head(senders[active])] = "RECEIVE_BLOCKED"
    BY <1>1, <2>1, <2>2 DEF Moves, KernelInv, QueueDiscipline, SendQueuesSound
  <2> QED BY <1>1, <2>1, <2>3 DEF CleanupOwned, TASK_TID, identVars, miscVars
<1>6. CASE ReceiveBlocks
  BY <1>1, <1>6 DEF ReceiveBlocks, Calling, CleanupOwned, TASK_TID, identVars, miscVars
<1> QED BY <1>2, <1>3, <1>4, <1>5, <1>6, BusySteps

-----------------------------------------------------------------------------
(* The running task *)

\* Every trap but that of the FPU takes the running task off the processor.
LEMMA TrapSteps ==
    ASSUME Moves, SysCall \/ KillUndef \/ \E i \in Irqs : Irq(i)
    PROVE  phase = "user" /\ phase' \in {"kern", "panic"}
<1>1. /\ ~ AssertFailure
      /\ phase = "user" => active \in Ix /\ ~ in_queue[active]
  BY StepFacts, ActiveFacts DEF Moves
<1>2. phase = "user"
  BY DEF SysCall, KillUndef, Irq, IrqIgnored, IrqWakes, IrqRaised, Query, RegisterCleanup,
         Shutdown, CreateFails, Create, SendFails, ReplyFails, RegisterEventFails, Exit, Panic,
         ReceiveRendezvous, ReceiveBlocks, SendRendezvous, SendEnqueue, Reply, AwaitEvent,
         RegisterEvent, Calling
<1>3. CASE KillUndef \/ \E i \in Irqs : Irq(i)
  BY <1>1, <1>2, <1>3 DEF KillUndef, Irq, IrqIgnored, IrqWakes, task_free, ToKernel
<1>4. CASE SysCall
  <2>1. CASE \/ Query \/ RegisterCleanup \/ Shutdown
             \/ \E p \in CreatePrios : CreateFails(p)
             \/ \E tid \in TidArgs : SendFails(tid) \/ ReplyFails(tid)
             \/ \E i \in Irqs \cup {NoIrq} : RegisterEventFails(i)
    BY <1>1, <1>2, <2>1 DEF Query, RegisterCleanup, Shutdown, CreateFails, SendFails, ReplyFails,
                      RegisterEventFails, Resume, ToKernel
  <2>2. CASE Exit \/ Panic \/ \E p \in CreatePrios : Create(p)
    BY <1>1, <1>2, <2>2 DEF Exit, Panic, Create, NewTask, task_free, ToKernel
  <2>3. CASE \/ ReceiveRendezvous \/ ReceiveBlocks
             \/ \E tid \in TidArgs : SendRendezvous(tid) \/ SendEnqueue(tid) \/ Reply(tid)
    BY <1>1, <1>2, <2>3 DEF ReceiveRendezvous, ReceiveBlocks, SendRendezvous, SendEnqueue, Reply,
                      ToKernel
  <2>4. CASE AwaitEvent \/ \E i \in Irqs \cup {NoIrq} : RegisterEvent(i)
    BY <1>1, <1>2, <2>4 DEF AwaitEvent, RegisterEvent, ToKernel
  <2> QED BY <1>2, <1>4, <2>1, <2>2, <2>3, <2>4 DEF SysCall
<1> QED BY <1>3, <1>4

\* A task runs only once it is scheduled, and until it traps.
LEMMA RunningSteps ==
    ASSUME Moves, phase' \in {"user", "retry"}
    PROVE  \/ Schedule
           \/ /\ phase \in {"user", "retry"} /\ UNCHANGED <<active, state, prio>>
              /\ phase' \in {phase, "user"} \/ FpuTrap
<1>1. /\ ~ AssertFailure
      /\ phase = "user" => active \in Ix /\ ~ in_queue[active]
  BY StepFacts, ActiveFacts DEF Moves
<1>2. CASE KernelStep
  BY <1>2 DEF KernelStep, SkipSchedule, Halt, schedVars, identVars
<1>3. CASE FpuTrap \/ Terminated \/ UNCHANGED vars \/ \E i \in Irqs : DeviceAssert(i)
  BY <1>3 DEF FpuTrap, Terminated, DeviceAssert, Calling, vars, schedVars, identVars
<1>4. CASE SysCall \/ KillUndef \/ \E i \in Irqs : Irq(i)
  BY <1>4, TrapSteps
<1> QED BY <1>2, <1>3, <1>4 DEF Moves, Next, UserTrap

\* task_schedule takes a READY task of the highest priority.
LEMMA RunsHighestStep == Moves /\ RunsHighest => RunsHighest'
<1> SUFFICES ASSUME Moves, RunsHighest, phase' \in {"user", "retry"},
                    NEW t \in Ix, state'[t] = "READY"
             PROVE  prio'[active'] <= prio'[t]
  BY DEF RunsHighest
<1>1. CASE Schedule
  <2> DEFINE p == Min(rdy_queue_ne)
             h == Head(rdy_queues[p])
  <2>1. Dispatch /\ rdy_queue_ne # {} /\ rdy_queues[p] # <<>>
    BY <1>1, StepFacts DEF Schedule, ScheduleAsserts
  <2>2. /\ SchedInv /\ state \in [Ix -> States] /\ prio \in [Ix -> Prios]
        /\ rdy_queue_ne \in SUBSET Prios
    BY KernelInvParts, SchedInvTypes DEF Moves, Parts
  <2>3. p \in Prios /\ \A o \in rdy_queue_ne : p <= o
    <3> HIDE DEF p
    <3> QED BY <2>1, <2>2, MinProperties DEF p
  <2>4. h \in Ix /\ state[h] = "READY" /\ prio[h] = p
    <3>1. /\ rdy_queues[p] \in Seq(Ix)
          /\ ToSet(rdy_queues[p]) = {u \in Ix : state[u] = "READY" /\ prio[u] = p}
      BY <2>2, <2>3 DEF SchedInv, Sched, Holds
    <3>2. h \in ToSet(rdy_queues[p])
      BY <2>1, <3>1, TailFacts
    <3> QED BY <3>1, <3>2
  <2>5. /\ active' = h /\ prio' = prio
        /\ state' = [state EXCEPT ![h] = "ACTIVE"]
    BY <2>1 DEF Dispatch, identVars
  <2>6. state[t] = "READY"
    BY <2>2, <2>4, <2>5
  <2>7. prio[t] \in rdy_queue_ne
    <3>1. Holds(rdy_queues, state, prio) /\ rdy_queue_ne = NonEmpty(rdy_queues)
          /\ prio[t] \in Prios
      BY <2>2 DEF SchedInv, Sched
    <3>2. t \in ToSet(rdy_queues[prio[t]])
      BY <2>6, <3>1 DEF Holds
    <3>3. rdy_queues[prio[t]] # <<>>
      BY <3>2, EmptyFacts
    <3> QED BY <3>1, <3>3 DEF NonEmpty
  <2> HIDE DEF p, h
  <2> QED BY <2>3, <2>4, <2>5, <2>7
<1>2. CASE phase \in {"user", "retry"} /\ UNCHANGED <<active, state, prio>>
  BY <1>2 DEF RunsHighest
<1> QED BY <1>1, <1>2, RunningSteps

-----------------------------------------------------------------------------
(* The end of the main loop *)

\* Without FPU traps the loop condition is read only when no task is ACTIVE,
\* and then it says what it is meant to.
HaltInv == phase # "retry" /\ HaltJustified

\* Only Halt ends the kernel, and nothing changes after it.
LEMMA HaltSteps ==
    ASSUME Moves, phase' = "halted"
    PROVE  \/ Halt
           \/ phase = "halted" /\ UNCHANGED <<state, shutdown>>
<1>1. ~ AssertFailure
  BY StepFacts
<1>2. CASE KernelStep
  BY <1>1, <1>2 DEF KernelStep, Schedule, Dispatch, SkipSchedule
<1>3. CASE FpuTrap \/ Terminated \/ UNCHANGED vars \/ \E i \in Irqs : DeviceAssert(i)
  BY <1>3 DEF FpuTrap, Terminated, DeviceAssert, Calling, vars, schedVars, identVars, miscVars
<1>4. CASE SysCall \/ KillUndef \/ \E i \in Irqs : Irq(i)
  BY <1>4, TrapSteps
<1> QED BY <1>2, <1>3, <1>4 DEF Moves, Next, UserTrap

LEMMA HaltStep ==
    ASSUME "FpuTrap" \notin Calls
    PROVE  Moves /\ HaltInv => HaltInv'
<1> SUFFICES ASSUME Moves, HaltInv PROVE HaltInv'
  OBVIOUS
<1>1. phase' # "retry"
  <2>1. ~ FpuTrap
    BY DEF FpuTrap, Calling
  <2>2. ASSUME Schedule PROVE phase' # "retry"
    BY <2>2, StepFacts DEF Schedule, Dispatch
  <2> QED BY <2>1, <2>2, RunningSteps DEF HaltInv
<1>2. CASE Halt
  <2>1. /\ phase = "kern" /\ ~ LoopCondition /\ UNCHANGED <<state, shutdown>>
    BY <1>2 DEF Halt, HaltInv, schedVars, miscVars
  <2>2. /\ \A t \in Ix : state[t] # "ACTIVE"
        /\ state[IdleIx] = "READY"
        /\ rdy_count = CountOf(state, "READY")
        /\ evblk_count = CountOf(state, "EVENT_BLOCKED")
        /\ state \in [Ix -> States]
    BY <2>1, KernelInvParts, IxFacts DEF Moves, Parts, Running, SchedInv, Sched
  <2>3. CASE shutdown
    BY <2>1, <2>3, <1>1 DEF HaltInv, HaltJustified
  <2>4. CASE ~ shutdown
    <3>1. /\ CountOf(state, "READY") <= 1 /\ CountOf(state, "EVENT_BLOCKED") = 0
      BY <2>1, <2>2, <2>4, IxFacts, CountChange DEF LoopCondition
    <3>2. ASSUME NEW t \in Ix, t # IdleIx PROVE state[t] # "READY"
      <4> DEFINE A == {u \in Ix : state[u] = "READY"}
      <4>1. IsFiniteSet(A) /\ Cardinality(A) <= 1 /\ Cardinality(A) \in Nat
        BY <3>1, IxFacts, FS_Subset, FS_CardinalityType DEF CountOf
      <4>2. IdleIx \in A
        BY <2>2, IxFacts
      <4>3. IsFiniteSet(A \ {IdleIx}) /\ Cardinality(A \ {IdleIx}) = Cardinality(A) - 1
        <5> HIDE DEF A
        <5> QED BY <4>1, <4>2, FS_RemoveElement
      <4>4. Cardinality(A \ {IdleIx}) = 0
        <5>1. Cardinality(A \ {IdleIx}) \in Nat
          BY <4>3, FS_CardinalityType
        <5> HIDE DEF A
        <5> QED BY <4>1, <4>3, <5>1
      <4>5. A \ {IdleIx} = {}
        BY <4>3, <4>4, FS_EmptySet
      <4> QED BY <3>2, <4>5
    <3>3. \A t \in Ix : state[t] # "EVENT_BLOCKED"
      <4>1. IsFiniteSet({u \in Ix : state[u] = "EVENT_BLOCKED"})
        BY IxFacts, FS_Subset
      <4>2. {u \in Ix : state[u] = "EVENT_BLOCKED"} = {}
        BY <3>1, <4>1, FS_EmptySet DEF CountOf
      <4> QED BY <4>2
    <3> QED BY <1>1, <2>1, <2>2, <3>2, <3>3 DEF HaltInv, HaltJustified
  <2> QED BY <2>3, <2>4
<1>3. CASE phase = "halted" /\ UNCHANGED <<state, shutdown>>
  BY <1>1, <1>3 DEF HaltInv, HaltJustified
<1> QED BY <1>1, <1>2, <1>3, HaltSteps DEF HaltInv, HaltJustified

-----------------------------------------------------------------------------
(* Order in the queues *)

\* Up to two tasks join queue q at its tail.
Joined(q, r) ==
    \/ r = q
    \/ \E t \in Ix : r = Append(q, t)
    \/ \E t \in Ix, u \in Ix : r = Append(Append(q, t), u)

LEMMA PrefixServed ==
    ASSUME NEW q \in Seq(Ix), NEW r \in Seq(Ix), Len(q) <= Len(r),
           \A i \in 1 .. Len(q) : r[i] = q[i]
    PROVE  Served(q, r)
<1>1. Len(q) \in Nat /\ Len(r) \in Nat
  BY LenProperties
<1>2. SubSeq(q, 1, Len(q)) = q
  BY <1>1, SubSeqProperties, SeqEqual
<1>3. SubSeq(r, 1, Len(q)) = q
  <2>1. /\ SubSeq(r, 1, Len(q)) \in Seq(Ix) /\ Len(SubSeq(r, 1, Len(q))) = Len(q)
        /\ \A i \in 1 .. Len(q) : SubSeq(r, 1, Len(q))[i] = r[i]
    BY <1>1, SubSeqProperties
  <2> QED BY <1>1, <2>1, SeqEqual
<1>4. SubSeq(q, 0 + 1, Len(q)) = q /\ SubSeq(q, 1, 0) = << >>
  BY <1>1, <1>2
<1>5. IsPrefix(q, r)
  BY <1>1, <1>2, <1>3 DEF IsPrefix
<1>6. ToSet(SubSeq(q, 1, 0)) = {}
  BY <1>4, EmptyFacts
<1>7. 0 \in 0 .. Len(q)
  BY <1>1
<1> QED BY <1>4, <1>5, <1>6, <1>7 DEF Served

LEMMA JoinedServed ==
    ASSUME NEW q \in Seq(Ix), NEW r, Joined(q, r)
    PROVE  Served(q, r)
<1>1. Len(q) \in Nat
  BY LenProperties
<1>2. \A s \in Seq(Ix), t \in Ix :
         /\ Append(s, t) \in Seq(Ix) /\ Len(Append(s, t)) = Len(s) + 1
         /\ \A i \in 1 .. Len(s) : Append(s, t)[i] = s[i]
  BY AppendProperties
<1>3. CASE r = q
  BY <1>1, <1>3, PrefixServed
<1>4. CASE \E t \in Ix : r = Append(q, t)
  <2>1. r \in Seq(Ix) /\ Len(r) = Len(q) + 1 /\ \A i \in 1 .. Len(q) : r[i] = q[i]
    BY <1>2, <1>4
  <2>2. Len(q) <= Len(r)
    BY <1>1, <2>1
  <2> QED BY <2>1, <2>2, PrefixServed
<1>5. CASE \E t \in Ix, u \in Ix : r = Append(Append(q, t), u)
  <2>1. PICK t \in Ix, u \in Ix : r = Append(Append(q, t), u)
    BY <1>5
  <2>2. /\ Append(q, t) \in Seq(Ix) /\ Len(Append(q, t)) = Len(q) + 1
        /\ \A i \in 1 .. Len(q) : Append(q, t)[i] = q[i]
    BY <1>2
  <2>3. /\ r \in Seq(Ix) /\ Len(r) = Len(q) + 1 + 1
        /\ \A i \in 1 .. Len(q) + 1 : r[i] = Append(q, t)[i]
    BY <1>2, <2>1, <2>2
  <2>4. Len(q) <= Len(r) /\ \A i \in 1 .. Len(q) : r[i] = q[i]
    BY <1>1, <2>2, <2>3
  <2> QED BY <2>3, <2>4, PrefixServed
<1> QED BY <1>3, <1>4, <1>5 DEF Joined

\* The first in a queue leaves it.
LEMMA TailServed ==
    ASSUME NEW q \in Seq(Ix), q # << >>, IsInjective(q)
    PROVE  Served(q, Tail(q))
<1> DEFINE r == Tail(q)
<1>1. Len(q) \in Nat \ {0}
  BY LenProperties, EmptySeq
<1>2. r \in Seq(Ix) /\ Len(r) = Len(q) - 1 /\ r = SubSeq(q, 1 + 1, Len(q))
  BY <1>1, HeadTailProperties
<1>3. SubSeq(r, 1, Len(r)) = r
  BY <1>2, SubSeqProperties, SeqEqual, LenProperties
<1>4. ToSet(SubSeq(q, 1, 1)) \cap ToSet(r) = {}
  <2>1. SubSeq(q, 1, 1) = << Head(q) >>
    <3>1. /\ SubSeq(q, 1, 1) \in Seq(Ix) /\ Len(SubSeq(q, 1, 1)) = 1
          /\ SubSeq(q, 1, 1)[1] = q[1]
      BY <1>1, SubSeqProperties
    <3>2. << Head(q) >> \in Seq(Ix) /\ Len(<< Head(q) >>) = 1 /\ << Head(q) >>[1] = q[1]
      BY <1>1, HeadTailProperties
    <3>3. \A i \in 1 .. 1 : SubSeq(q, 1, 1)[i] = << Head(q) >>[i]
      BY <3>1, <3>2
    <3> QED BY <3>1, <3>2, <3>3, SeqEqual
  <2>2. ToSet(<< Head(q) >>) = {Head(q)}
    BY DEF ToSet
  <2>3. Head(q) \notin ToSet(r)
    BY TailFacts
  <2> QED BY <2>1, <2>2, <2>3
<1>5. IsPrefix(SubSeq(q, 1 + 1, Len(q)), r)
  BY <1>1, <1>2, <1>3 DEF IsPrefix
<1> QED BY <1>1, <1>4, <1>5 DEF Served

\* Everybody leaves it.
LEMMA EmptyServed ==
    ASSUME NEW q \in Seq(Ix)
    PROVE  Served(q, << >>)
<1>1. Len(q) \in Nat
  BY LenProperties
<1>2. SubSeq(q, Len(q) + 1, Len(q)) = << >>
  BY <1>1
<1>3. IsPrefix(<< >>, << >>)
  BY DEF IsPrefix
<1>4. ToSet(SubSeq(q, 1, Len(q))) \cap ToSet(<< >>) = {}
  BY EmptyFacts
<1>5. Len(q) \in 0 .. Len(q)
  BY <1>1
<1> QED BY <1>2, <1>3, <1>4, <1>5 DEF Served

\* Traps only add to the ready queues.
ReadyQueuesJoined == \A p \in Prios : Joined(rdy_queues[p], rdy_queues'[p])

LEMMA ReadyJoined ==
    ASSUME rdy_queues \in [Prios -> Seq(Ix)], NEW t \in Ix, NEW st, NEW nq, NEW pr,
           task_ready(t, st, nq, pr)
    PROVE  ReadyQueuesJoined
BY DEF task_ready, ReadyQueuesJoined, Joined

LEMMA ReadyTwoJoined ==
    ASSUME rdy_queues \in [Prios -> Seq(Ix)], NEW t \in Ix, NEW u \in Ix, NEW st, NEW nq,
           NEW pr, task_ready2(t, u, st, nq, pr)
    PROVE  ReadyQueuesJoined
<1>1. rdy_queues' = [[rdy_queues EXCEPT ![pr[t]] = Append(@, t)]
                         EXCEPT ![pr[u]] = Append(@, u)]
  BY DEF task_ready2
<1> QED BY <1>1 DEF ReadyQueuesJoined, Joined

LEMMA TrapJoins ==
    ASSUME Moves, ~ Schedule
    PROVE  ReadyQueuesJoined
<1>1. /\ rdy_queues \in [Prios -> Seq(Ix)] /\ ~ AssertFailure
      /\ state \in [Ix -> States] /\ free_tasks \in Seq(Ix)
      /\ phase = "user" => active \in Ix
  BY StepFacts DEF TypeOK
<1>2. CASE UNCHANGED rdy_queues
  BY <1>1, <1>2 DEF ReadyQueuesJoined, Joined
<1>3. CASE SkipSchedule \/ Halt \/ FpuTrap \/ Panic \/ Terminated \/ UNCHANGED vars
           \/ AwaitEvent \/ ReceiveBlocks \/ \E i \in Irqs : DeviceAssert(i)
  BY <1>2, <1>3 DEF SkipSchedule, Halt, FpuTrap, Panic, Terminated, AwaitEvent, ReceiveBlocks,
                    DeviceAssert, vars, schedVars
<1>4. CASE Exit \/ KillUndef \/ \E tid \in TidArgs : SendEnqueue(tid)
  BY <1>1, <1>2, <1>4 DEF Exit, KillUndef, SendEnqueue, task_free
<1>5. CASE \/ Query \/ RegisterCleanup \/ Shutdown
           \/ \E p \in CreatePrios : CreateFails(p)
           \/ \E tid \in TidArgs : SendFails(tid) \/ ReplyFails(tid)
           \/ \E i \in Irqs \cup {NoIrq} : RegisterEventFails(i)
  <2>1. phase = "user" /\ Resume
    BY <1>5 DEF Query, RegisterCleanup, Shutdown, CreateFails, SendFails, ReplyFails,
                RegisterEventFails, Calling
  <2> QED BY <1>1, <2>1, ReadyJoined DEF Resume
<1>6. CASE \/ \E i \in Irqs \cup {NoIrq} : RegisterEvent(i)
           \/ \E i \in Irqs : IrqIgnored(i)
  <2>1. phase = "user" /\ task_ready(active, state, in_queue, prio)
    BY <1>1, <1>6 DEF RegisterEvent, IrqIgnored, IrqRaised, Calling
  <2> QED BY <1>1, <2>1, ReadyJoined
<1>7. CASE ReceiveRendezvous
  <2>1. phase = "user" /\ \E st, nq : task_ready(active, st, nq, prio)
    BY <1>1, <1>7 DEF ReceiveRendezvous, Calling
  <2> QED BY <1>1, <2>1, ReadyJoined
<1>8. CASE \E tid \in TidArgs : SendRendezvous(tid)
  <2>1. PICK tid : IsTask(tid) /\ \E st, nq : task_ready(tid.ix, st, nq, prio)
    BY <1>1, <1>8 DEF SendRendezvous
  <2> QED BY <1>1, <2>1, ReadyJoined DEF IsTask
<1>9. CASE \E tid \in TidArgs : Reply(tid)
  <2>1. PICK tid : /\ phase = "user" /\ IsTask(tid)
                   /\ task_ready2(tid.ix, active, state, in_queue, prio)
    BY <1>1, <1>9 DEF Reply, Calling
  <2> QED BY <1>1, <2>1, ReadyTwoJoined DEF IsTask
<1>10. CASE \E i \in Irqs : IrqWakes(i)
  <2>1. PICK i \in Irqs : /\ phase = "user" /\ IsTask(evt_tid[i])
                          /\ task_ready2(active, evt_tid[i].ix, state, in_queue, prio)
    BY <1>1, <1>10 DEF IrqWakes, IrqRaised, IrqAsserts
  <2> QED BY <1>1, <2>1, ReadyTwoJoined DEF IsTask
<1>11. CASE \E p \in CreatePrios : Create(p)
  <2>1. PICK p : /\ phase = "user" /\ free_tasks # << >>
                 /\ \E st, nq, pr : task_ready2(Head(free_tasks), active, st, nq, pr)
    BY <1>1, <1>11 DEF Create, NewTask, Calling
  <2>2. Head(free_tasks) \in Ix
    BY <1>1, <2>1, TailFacts
  <2> QED BY <1>1, <2>1, <2>2, ReadyTwoJoined
<1> QED BY <1>3, <1>4, <1>5, <1>6, <1>7, <1>8, <1>9, <1>10, <1>11
        DEF Moves, Next, KernelStep, UserTrap, SysCall, Irq

LEMMA ReadyQueuesServed ==
    ASSUME Moves, NEW p \in Prios
    PROVE  Served(rdy_queues[p], rdy_queues'[p])
<1>1. rdy_queues \in [Prios -> Seq(Ix)] /\ IsInjective(rdy_queues[p])
  BY StepFacts DEF TypeOK, Moves, KernelInv, QueueDiscipline, ReadyQueuesExact
<1>2. CASE Schedule
  <2>1. Dispatch /\ rdy_queues[Min(rdy_queue_ne)] # << >>
    BY <1>2, StepFacts DEF Schedule, ScheduleAsserts
  <2>2. rdy_queues' = [rdy_queues EXCEPT ![Min(rdy_queue_ne)] = Tail(@)]
    BY <2>1 DEF Dispatch
  <2>3. CASE p = Min(rdy_queue_ne)
    BY <1>1, <2>1, <2>2, <2>3, TailServed
  <2>4. CASE p # Min(rdy_queue_ne)
    <3>1. rdy_queues'[p] = rdy_queues[p]
      BY <1>1, <2>2, <2>4
    <3> QED BY <1>1, <3>1, JoinedServed DEF Joined
  <2> QED BY <2>3, <2>4
<1>3. CASE ~ Schedule
  BY <1>1, <1>3, TrapJoins, JoinedServed DEF ReadyQueuesJoined
<1> QED BY <1>2, <1>3

LEMMA SendQueuesServed ==
    ASSUME Moves, NEW r \in Ix
    PROVE  Served(senders[r], senders'[r])
<1>1. /\ senders \in [Ix -> Seq(Ix)] /\ ~ AssertFailure /\ IsInjective(senders[r])
      /\ phase = "user" => active \in Ix
  BY StepFacts DEF TypeOK, Moves, KernelInv, QueueDiscipline, SendQueuesSound
<1>2. CASE senders'[r] = senders[r]
  BY <1>1, <1>2, JoinedServed DEF Joined
<1>3. CASE Calm
  BY <1>2, <1>3 DEF Calm
<1>4. CASE \E p \in CreatePrios : Create(p)
  <2>1. senders' = [senders EXCEPT ![Head(free_tasks)] = << >>]
    BY <1>1, <1>4 DEF Create, NewTask
  <2>2. senders'[r] \in {senders[r], << >>}
    BY <1>1, <2>1
  <2> QED BY <1>1, <1>2, <2>2, EmptyServed
<1>5. CASE \/ \E tid \in TidArgs : SendRendezvous(tid) \/ Reply(tid)
           \/ ReceiveBlocks
  BY <1>1, <1>2, <1>5 DEF SendRendezvous, Reply, ReceiveBlocks, ipcVars
<1>6. CASE \E tid \in TidArgs : SendEnqueue(tid)
  <2>1. PICK tid : phase = "user" /\ senders' = [senders EXCEPT ![tid.ix] = Append(@, active)]
    BY <1>1, <1>6 DEF SendEnqueue, Calling
  <2>2. Joined(senders[r], senders'[r])
    BY <1>1, <2>1 DEF Joined
  <2> QED BY <1>1, <2>2, JoinedServed
<1>7. CASE ReceiveRendezvous
  <2>1. senders[active] # << >> /\ senders' = [senders EXCEPT ![active] = Tail(@)]
    BY <1>1, <1>7 DEF ReceiveRendezvous
  <2>2. CASE r = active
    BY <1>1, <2>1, <2>2, TailServed
  <2>3. CASE r # active
    BY <1>1, <1>2, <2>1, <2>3
  <2> QED BY <2>2, <2>3
<1> QED BY <1>3, <1>4, <1>5, <1>6, <1>7, BusySteps

-----------------------------------------------------------------------------
(* The theorems *)

\* What holds beside KernelInv, for every Calls
Safety == NoLostWakeup /\ NoMisdelivery /\ CleanupOwned /\ RunsHighest

LEMMA SafetyInit == Init => Safety
<1> SUFFICES ASSUME Init PROVE Safety
  OBVIOUS
<1>1. /\ senders = [t \in Ix |-> <<>>] /\ cleanup = [t \in Ix |-> NoTid] /\ phase = "kern"
  BY DEF Init
<1> QED BY <1>1, EmptyFacts DEF Safety, NoLostWakeup, NoMisdelivery, CleanupOwned, RunsHighest

LEMMA SafetyInvariant == Spec => []Safety
<1>1. Init => Safety
  BY SafetyInit
<1>2. Moves /\ Safety => Safety'
  BY NoLostWakeupStep, NoMisdeliveryStep, CleanupOwnedStep, RunsHighestStep DEF Safety
<1>3. KernelInv /\ KernelInv' /\ [Next]_vars <=> Moves
  BY DEF Moves
<1> QED BY <1>1, <1>2, <1>3, KernelInvariant, PTL DEF Spec

\* A message that waits in a send queue waits for the incarnation of the
\* descriptor that it was sent to, never for a later owner of it.
THEOREM MessagesWaitForAddressee == Spec => []NoMisdelivery
<1>1. Safety => NoMisdelivery
  BY DEF Safety
<1> QED BY <1>1, SafetyInvariant, PTL

\* A task never sleeps in Receive while a sender is queued on it.
THEOREM NoWakeupLost == Spec => []NoLostWakeup
<1>1. Safety => NoLostWakeup
  BY DEF Safety
<1> QED BY <1>1, SafetyInvariant, PTL

\* Exit calls only a cleanup function that the exiting task itself, and no
\* earlier owner of its descriptor, has registered.
THEOREM CleanupIsOwn == Spec => []CleanupOwned
<1>1. Safety => CleanupOwned
  BY DEF Safety
<1> QED BY <1>1, SafetyInvariant, PTL

\* The scheduler is priority-driven: a READY task of a higher priority than
\* the running one never waits for it.
THEOREM HighestPriorityRuns == Spec => []RunsHighest
<1>1. Safety => RunsHighest
  BY DEF Safety
<1> QED BY <1>1, SafetyInvariant, PTL

\* A sender becomes reply-blocked only in a rendezvous with the incarnation
\* that it addressed, whose Receive returns in the same step.
THEOREM DeliveryCorrect == Spec => DeliveredToAddressee
<1>1. Moves /\ Safety => [\A s \in Ix :
           state[s] # "REPLY_BLOCKED" /\ state'[s] = "REPLY_BLOCKED" =>
              LET r == send_to'[s].ix IN
              /\ send_to'[s] = TASK_TID(r)
              /\ r # s
              /\ state[r] \in {"SEND_BLOCKED", "ACTIVE"}
              /\ state'[r] = "READY"]_vars
  BY DeliveryStep DEF Safety
<1>2. KernelInv /\ KernelInv' /\ [Next]_vars <=> Moves
  BY DEF Moves
<1> QED BY <1>1, <1>2, KernelInvariant, SafetyInvariant, PTL DEF Spec, DeliveredToAddressee

\* Tasks of equal priority run in the order in which they became ready, and
\* messages are received in the order in which they were sent: no step lets
\* a task overtake another in a queue or slip out of the middle.
THEOREM QueuesKeepOrder == Spec => FirstComeFirstServed
<1>1. Moves => [/\ \A p \in Prios : Served(rdy_queues[p], rdy_queues'[p])
                /\ \A t \in Ix : Served(senders[t], senders'[t])]_vars
  BY ReadyQueuesServed, SendQueuesServed
<1>2. KernelInv /\ KernelInv' /\ [Next]_vars <=> Moves
  BY DEF Moves
<1> QED BY <1>1, <1>2, KernelInvariant, PTL DEF Spec, FirstComeFirstServed

\* As long as no task uses the FPU, the kernel halts only after a shutdown or
\* when nothing but the idle task could ever run again.
THEOREM HaltOnlyWhenDone ==
    ASSUME "FpuTrap" \notin Calls
    PROVE  Spec => []HaltJustified
<1>1. Init => HaltInv
  BY DEF Init, HaltInv, HaltJustified
<1>2. Moves /\ HaltInv => HaltInv'
  BY HaltStep
<1>3. KernelInv /\ KernelInv' /\ [Next]_vars <=> Moves
  BY DEF Moves
<1>4. HaltInv => HaltJustified
  BY DEF HaltInv
<1> QED BY <1>1, <1>2, <1>3, <1>4, KernelInvariant, PTL DEF Spec

-----------------------------------------------------------------------------
(* The kernel implements MessagePassing. *)

mapped == <<modes, tid_seq, inboxes, send_to>>

\* What the running task may rely on when it traps
LEMMA Caller ==
    ASSUME KernelInv, phase = "user"
    PROVE  /\ active \in Ix /\ state[active] = "ACTIVE"
           /\ state \in [Ix -> States] /\ senders \in [Ix -> Seq(Ix)]
           /\ tid_seq \in [Ix -> Seqs]
           /\ send_to \in [Ix -> Tids \cup {NoTid}]
BY DEF KernelInv, TypeOK, Running, NoTask

\* A step that moves tasks only between READY, ACTIVE and EVENT_BLOCKED, and
\* touches no message, is invisible.
LEMMA Invisible ==
    ASSUME UNCHANGED <<tid_seq, senders, send_to>>,
           \A t \in Ix : state'[t] # state[t] =>
               /\ state[t] \in {"READY", "ACTIVE", "EVENT_BLOCKED"}
               /\ state'[t] \in {"READY", "ACTIVE", "EVENT_BLOCKED"}
    PROVE  UNCHANGED mapped
<1>1. \A t \in Ix : ModeOf(state'[t]) = ModeOf(state[t])
  BY DEF ModeOf
<1>2. \A t \in Ix : (state'[t] = "FREE") <=> (state[t] = "FREE")
  OBVIOUS
<1>3. modes' = modes
  BY <1>1 DEF modes
<1>4. inboxes' = inboxes
  BY <1>2 DEF inboxes
<1> QED BY <1>3, <1>4 DEF mapped

\* The steps that no message is involved in
LEMMA InvisibleSteps ==
    ASSUME KernelInv,
           \/ Schedule \/ SkipSchedule \/ Halt \/ Panic \/ FpuTrap \/ Terminated
           \/ UNCHANGED vars
           \/ Query \/ RegisterCleanup \/ Shutdown \/ AwaitEvent
           \/ \E p \in CreatePrios : CreateFails(p)
           \/ \E tid \in TidArgs : SendFails(tid) \/ ReplyFails(tid)
           \/ \E i \in Irqs \cup {NoIrq} : RegisterEventFails(i) \/ RegisterEvent(i)
           \/ \E i \in Irqs : DeviceAssert(i) \/ IrqIgnored(i) \/ IrqWakes(i)
    PROVE  UNCHANGED mapped
<1> DEFINE Quiet == UNCHANGED <<tid_seq, senders, send_to, state>>
           ActiveReady == /\ UNCHANGED <<tid_seq, senders, send_to>>
                          /\ phase = "user"
                          /\ state' = [state EXCEPT ![active] = "READY"]
<1>1. ASSUME Quiet PROVE UNCHANGED mapped
  BY <1>1, Invisible
<1>2. ASSUME ActiveReady PROVE UNCHANGED mapped
  <2>1. /\ active \in Ix /\ state[active] = "ACTIVE" /\ state \in [Ix -> States]
    BY <1>2, Caller
  <2>2. \A t \in Ix : state'[t] # state[t] => t = active /\ state'[t] = "READY"
    BY <1>2, <2>1
  <2> QED BY <1>2, <2>1, <2>2, Invisible
<1>3. CASE Schedule
  <2>1. CASE ScheduleAsserts /\ Dispatch
    <3> DEFINE d == Head(rdy_queues[Min(rdy_queue_ne)])
    <3>1. state[d] = "READY" /\ state' = [state EXCEPT ![d] = "ACTIVE"]
      BY <2>1 DEF ScheduleAsserts, Dispatch
    <3>2. state \in [Ix -> States]
      BY DEF KernelInv, TypeOK
    <3> HIDE DEF d
    <3>3. \A t \in Ix : state'[t] # state[t] => t = d /\ state'[t] = "ACTIVE"
      BY <3>1, <3>2
    <3>4. UNCHANGED <<tid_seq, senders, send_to>>
      BY <2>1 DEF Dispatch, identVars, ipcVars
    <3> QED BY <3>1, <3>3, <3>4, Invisible
  <2>2. CASE AssertFailure
    BY <1>1, <2>2 DEF AssertFailure, identVars, ipcVars, schedVars
  <2> QED BY <1>3, <2>1, <2>2 DEF Schedule
<1>4. CASE \/ SkipSchedule \/ Halt \/ Panic \/ FpuTrap \/ Terminated \/ UNCHANGED vars
           \/ \E i \in Irqs : DeviceAssert(i)
  BY <1>1, <1>4 DEF SkipSchedule, Halt, Panic, FpuTrap, Terminated, DeviceAssert,
     vars, identVars, ipcVars, schedVars
<1>5. ASSUME Resume, phase = "user", UNCHANGED <<tid_seq, senders, send_to>>
      PROVE  UNCHANGED mapped
  <2>1. CASE AssertFailure
    BY <1>1, <2>1 DEF AssertFailure, identVars, ipcVars, schedVars
  <2>2. CASE task_ready(active, state, in_queue, prio)
    BY <1>2, <1>5, <2>2 DEF task_ready
  <2> QED BY <1>5, <2>1, <2>2 DEF Resume
<1>6. CASE \/ Query \/ RegisterCleanup \/ Shutdown
           \/ \E p \in CreatePrios : CreateFails(p)
           \/ \E tid \in TidArgs : SendFails(tid) \/ ReplyFails(tid)
           \/ \E i \in Irqs \cup {NoIrq} : RegisterEventFails(i)
  BY <1>5, <1>6 DEF Query, RegisterCleanup, Shutdown, CreateFails, SendFails,
     ReplyFails, RegisterEventFails, Calling, identVars, ipcVars
<1>7. CASE \/ \E i \in Irqs \cup {NoIrq} : RegisterEvent(i)
           \/ \E i \in Irqs : IrqIgnored(i)
  <2>1. CASE AssertFailure
    BY <1>1, <2>1 DEF AssertFailure, identVars, ipcVars, schedVars
  <2>2. CASE ~AssertFailure
    BY <1>2, <1>7, <2>2 DEF RegisterEvent, IrqIgnored, IrqRaised, Calling,
       task_ready, identVars, ipcVars
  <2> QED BY <2>1, <2>2
<1>8. CASE AwaitEvent
  <2>1. /\ active \in Ix /\ state[active] = "ACTIVE" /\ state \in [Ix -> States]
    BY <1>8, Caller DEF AwaitEvent, Calling
  <2>2. state' = [state EXCEPT ![active] = "EVENT_BLOCKED"]
    BY <1>8 DEF AwaitEvent
  <2>3. \A t \in Ix : state'[t] # state[t] => t = active /\ state'[t] = "EVENT_BLOCKED"
    BY <2>1, <2>2
  <2> QED BY <1>8, <2>1, <2>3, Invisible DEF AwaitEvent, identVars, ipcVars
<1>9. ASSUME NEW i \in Irqs, IrqWakes(i) PROVE UNCHANGED mapped
  <2>1. CASE AssertFailure
    BY <1>1, <2>1 DEF AssertFailure, identVars, ipcVars, schedVars
  <2>2. CASE ~AssertFailure
    <3> DEFINE w == evt_tid[i].ix
    <3>1. /\ state[w] = "EVENT_BLOCKED"
          /\ state' = [state EXCEPT ![active] = "READY", ![w] = "READY"]
          /\ UNCHANGED <<tid_seq, senders, send_to>> /\ phase = "user"
      BY <1>9, <2>2 DEF IrqWakes, IrqAsserts, IrqRaised, task_ready2, identVars, ipcVars
    <3>2. /\ active \in Ix /\ state[active] = "ACTIVE" /\ state \in [Ix -> States]
      BY <3>1, Caller
    <3> HIDE DEF w
    <3>3. \A t \in Ix : state'[t] # state[t] => t \in {active, w} /\ state'[t] = "READY"
      BY <3>1, <3>2
    <3> QED BY <3>1, <3>2, <3>3, Invisible
  <2> QED BY <2>1, <2>2
<1> QED BY <1>3, <1>4, <1>6, <1>7, <1>8, <1>9


\* Create is Born: the descriptor was free and its send queue is emptied.
LEMMA CreateIsBorn ==
    ASSUME KernelInv, NEW p \in CreatePrios, Create(p), ~AssertFailure
    PROVE  \E t \in Ix : MP!Born(t)
<1> DEFINE c == Head(free_tasks)
<1>1. /\ active \in Ix /\ state[active] = "ACTIVE" /\ state \in [Ix -> States]
      /\ senders \in [Ix -> Seq(Ix)]
  BY Caller DEF Create, Calling
<1>2. /\ state[c] = "FREE"
      /\ state' = [state EXCEPT ![c] = "READY", ![active] = "READY"]
      /\ senders' = [senders EXCEPT ![c] = <<>>]
      /\ UNCHANGED <<tid_seq, send_to>>
  BY DEF Create, NewTask, task_ready2
<1>3. c \in Ix
  BY DEF Create, KernelInv, TypeOK
<1> HIDE DEF c
<1>4. modes' = [modes EXCEPT ![c] = "running"]
  BY <1>1, <1>2, <1>3 DEF modes, ModeOf
<1>5. inboxes' = inboxes
  <2>1. \A t \in Ix : t # c => senders'[t] = senders[t]
    BY <1>1, <1>2
  <2>2. senders'[c] = <<>> /\ state'[c] = "READY"
    BY <1>1, <1>2, <1>3
  <2>3. \A t \in Ix : t # c => ((state'[t] = "FREE") <=> (state[t] = "FREE"))
    BY <1>1, <1>2
  <2> QED BY <1>2, <2>1, <2>2, <2>3 DEF inboxes
<1>6. modes[c] = "dead"
  BY <1>2, <1>3 DEF modes, ModeOf
<1> QED BY <1>2, <1>3, <1>4, <1>5, <1>6 DEF MP!Born, MP!Alive

\* Exit and the killing of a task are Dies.
LEMMA FreeIsDies ==
    ASSUME KernelInv, Exit \/ KillUndef, ~AssertFailure
    PROVE  \E t \in Ix : MP!Dies(t)
<1>1. /\ active \in Ix /\ state[active] = "ACTIVE" /\ state \in [Ix -> States]
      /\ tid_seq \in [Ix -> Seqs]
  BY Caller DEF Exit, KillUndef, Calling
<1>2. /\ state' = [state EXCEPT ![active] = "FREE"]
      /\ tid_seq' = [tid_seq EXCEPT ![active] = (@ + 1) % SeqCount]
      /\ UNCHANGED <<senders, send_to>>
  BY DEF Exit, KillUndef, task_free, ipcVars
<1>3. modes' = [modes EXCEPT ![active] = "dead"]
  BY <1>1, <1>2 DEF modes, ModeOf
<1>4. inboxes' = [inboxes EXCEPT ![active] = <<>>]
  BY <1>1, <1>2 DEF inboxes
<1>5. modes[active] = "running"
  BY <1>1 DEF modes, ModeOf
<1> QED BY <1>1, <1>2, <1>3, <1>4, <1>5 DEF MP!Dies

\* A TID for which get_task succeeds is that of the descriptor's task.
LEMMA TaskTid ==
    ASSUME NEW tid \in TidArgs, IsTask(tid)
    PROVE  tid.ix \in Ix /\ state[tid.ix] # "FREE" /\ tid = MP!TidOf(tid.ix)
<1>1. tid \in Tids
  BY DEF TidArgs, IsTask, NoTid, Ix
<1>2. tid = [ix |-> tid.ix, seq |-> tid.seq]
  BY <1>1 DEF Tids
<1> QED BY <1>2 DEF IsTask, MP!TidOf

\* A Send to a task in Receive is SendsToReceiver.
LEMMA SendRendezvousIsSend ==
    ASSUME KernelInv, NEW tid \in TidArgs, SendRendezvous(tid), ~AssertFailure
    PROVE  \E s, r \in Ix : MP!SendsToReceiver(s, r)
<1> DEFINE r == tid.ix
<1>1. /\ active \in Ix /\ state[active] = "ACTIVE" /\ state \in [Ix -> States]
      /\ send_to \in [Ix -> Tids \cup {NoTid}]
  BY Caller DEF SendRendezvous, Calling
<1>2. r \in Ix /\ tid = MP!TidOf(r)
  BY TaskTid DEF SendRendezvous
<1>3. /\ state[r] = "SEND_BLOCKED"
      /\ state' = [[state EXCEPT ![active] = "REPLY_BLOCKED"] EXCEPT ![r] = "READY"]
      /\ send_to' = [send_to EXCEPT ![active] = tid]
      /\ UNCHANGED <<tid_seq, senders>>
  BY DEF SendRendezvous, task_ready, identVars
<1> HIDE DEF r
<1>4. modes' = [modes EXCEPT ![active] = "received", ![r] = "running"]
  BY <1>1, <1>2, <1>3 DEF modes, ModeOf
<1>5. inboxes' = inboxes
  <2>1. \A t \in Ix : (state'[t] = "FREE") <=> (state[t] = "FREE")
    BY <1>1, <1>2, <1>3
  <2> QED BY <1>3, <2>1 DEF inboxes
<1>6. modes[active] = "running" /\ modes[r] = "receiving"
  BY <1>1, <1>2, <1>3 DEF modes, ModeOf
<1> QED BY <1>1, <1>2, <1>3, <1>4, <1>5, <1>6 DEF MP!SendsToReceiver

\* A Send to a task that is busy is SendsToInbox.
LEMMA SendEnqueueIsSend ==
    ASSUME KernelInv, NEW tid \in TidArgs, SendEnqueue(tid), ~AssertFailure
    PROVE  \E s, r \in Ix : MP!SendsToInbox(s, r)
<1> DEFINE r == tid.ix
<1>1. /\ active \in Ix /\ state[active] = "ACTIVE" /\ state \in [Ix -> States]
      /\ send_to \in [Ix -> Tids \cup {NoTid}] /\ senders \in [Ix -> Seq(Ix)]
  BY Caller DEF SendEnqueue, Calling
<1>2. r \in Ix /\ state[r] # "FREE" /\ tid = MP!TidOf(r)
  BY TaskTid DEF SendEnqueue
<1>3. /\ state[r] # "SEND_BLOCKED"
      /\ state' = [state EXCEPT ![active] = "RECEIVE_BLOCKED"]
      /\ senders' = [senders EXCEPT ![r] = Append(@, active)]
      /\ send_to' = [send_to EXCEPT ![active] = tid]
      /\ UNCHANGED tid_seq
  BY DEF SendEnqueue, identVars
<1> HIDE DEF r
<1>4. modes' = [modes EXCEPT ![active] = "sending"]
  BY <1>1, <1>2, <1>3 DEF modes, ModeOf
<1>5. inboxes' = [inboxes EXCEPT ![r] = Append(@, active)]
  <2>1. \A t \in Ix : (state'[t] = "FREE") <=> (state[t] = "FREE")
    BY <1>1, <1>3
  <2> QED BY <1>1, <1>2, <1>3, <2>1 DEF inboxes
<1>6. modes[active] = "running" /\ modes[r] \notin {"dead", "receiving"}
  BY <1>1, <1>2, <1>3 DEF modes, ModeOf
<1> QED BY <1>1, <1>2, <1>3, <1>4, <1>5, <1>6 DEF MP!SendsToInbox

\* A Receive that finds a sender is ReceivesMessage.
LEMMA ReceiveRendezvousIsReceive ==
    ASSUME KernelInv, ReceiveRendezvous, ~AssertFailure
    PROVE  \E r \in Ix : MP!ReceivesMessage(r)
<1> DEFINE s == Head(senders[active])
<1>1. /\ active \in Ix /\ state[active] = "ACTIVE" /\ state \in [Ix -> States]
      /\ senders \in [Ix -> Seq(Ix)]
  BY Caller DEF ReceiveRendezvous, Calling
<1>2. /\ senders[active] # <<>>
      /\ state' = [[state EXCEPT ![s] = "REPLY_BLOCKED"] EXCEPT ![active] = "READY"]
      /\ senders' = [senders EXCEPT ![active] = Tail(@)]
      /\ UNCHANGED <<tid_seq, send_to>>
  BY DEF ReceiveRendezvous, task_ready, identVars
<1>3. s \in ToSet(senders[active]) /\ s \in Ix
  <2>1. senders[active] \in Seq(Ix) /\ Len(senders[active]) >= 1
    BY <1>1, <1>2
  <2> QED BY <2>1 DEF ToSet
<1>4. state[s] = "RECEIVE_BLOCKED"
  BY <1>1, <1>3 DEF KernelInv, QueueDiscipline, SendQueuesSound
<1> HIDE DEF s
<1>5. modes' = [modes EXCEPT ![s] = "received"]
  BY <1>1, <1>2, <1>3, <1>4 DEF modes, ModeOf
<1>6. inboxes' = [inboxes EXCEPT ![active] = Tail(@)]
  <2>1. \A t \in Ix : (state'[t] = "FREE") <=> (state[t] = "FREE")
    BY <1>1, <1>2, <1>3, <1>4
  <2> QED BY <1>1, <1>2, <2>1 DEF inboxes
<1>7. modes[active] = "running" /\ inboxes[active] = senders[active]
  BY <1>1 DEF modes, ModeOf, inboxes
<1>8. s = Head(inboxes[active])
  BY <1>7 DEF s
<1> QED BY <1>1, <1>2, <1>5, <1>6, <1>7, <1>8 DEF MP!ReceivesMessage

\* A Receive that finds none is WaitsForMessage.
LEMMA ReceiveBlocksIsWait ==
    ASSUME KernelInv, ReceiveBlocks
    PROVE  \E r \in Ix : MP!WaitsForMessage(r)
<1>1. /\ active \in Ix /\ state[active] = "ACTIVE" /\ state \in [Ix -> States]
  BY Caller DEF ReceiveBlocks, Calling
<1>2. /\ senders[active] = <<>>
      /\ state' = [state EXCEPT ![active] = "SEND_BLOCKED"]
      /\ UNCHANGED <<senders, tid_seq, send_to>>
  BY DEF ReceiveBlocks, identVars, ipcVars
<1>3. modes' = [modes EXCEPT ![active] = "receiving"]
  BY <1>1, <1>2 DEF modes, ModeOf
<1>4. inboxes' = inboxes
  <2>1. \A t \in Ix : (state'[t] = "FREE") <=> (state[t] = "FREE")
    BY <1>1, <1>2
  <2> QED BY <1>2, <2>1 DEF inboxes
<1>5. modes[active] = "running" /\ inboxes[active] = <<>>
  BY <1>1, <1>2 DEF modes, ModeOf, inboxes
<1> QED BY <1>1, <1>2, <1>3, <1>4, <1>5 DEF MP!WaitsForMessage

\* A Reply to a task that waits for one is IsAnswered.
LEMMA ReplyIsAnswer ==
    ASSUME KernelInv, NEW tid \in TidArgs, Reply(tid), ~AssertFailure
    PROVE  \E s \in Ix : MP!IsAnswered(s)
<1> DEFINE s == tid.ix
<1>1. /\ active \in Ix /\ state[active] = "ACTIVE" /\ state \in [Ix -> States]
      /\ send_to \in [Ix -> Tids \cup {NoTid}]
  BY Caller DEF Reply, Calling
<1>2. s \in Ix
  BY DEF Reply, IsTask
<1>3. /\ state[s] = "REPLY_BLOCKED"
      /\ state' = [state EXCEPT ![s] = "READY", ![active] = "READY"]
      /\ send_to' = [send_to EXCEPT ![s] = NoTid]
      /\ UNCHANGED <<tid_seq, senders>>
  BY DEF Reply, task_ready2, identVars
<1> HIDE DEF s
<1>4. modes' = [modes EXCEPT ![s] = "running"]
  BY <1>1, <1>2, <1>3 DEF modes, ModeOf
<1>5. inboxes' = inboxes
  <2>1. \A t \in Ix : (state'[t] = "FREE") <=> (state[t] = "FREE")
    BY <1>1, <1>2, <1>3
  <2> QED BY <1>3, <2>1 DEF inboxes
<1>6. modes[active] = "running" /\ modes[s] = "received"
  BY <1>1, <1>2, <1>3 DEF modes, ModeOf
<1>7. NoTid = MP!Nobody
  BY DEF NoTid, MP!Nobody
<1> QED BY <1>1, <1>2, <1>3, <1>4, <1>5, <1>6, <1>7 DEF MP!IsAnswered

\* The kernel starts with the idle and the init task, no messages.
LEMMA InitIsInit == Init => MP!MpInit
<1> SUFFICES ASSUME Init PROVE MP!MpInit
  OBVIOUS
<1>1. modes = [t \in Ix |-> IF t \in {IdleIx, InitIx} THEN "running" ELSE "dead"]
  BY DEF Init, modes, ModeOf
<1>2. inboxes = [t \in Ix |-> <<>>]
  BY DEF Init, inboxes
<1>3. send_to = [t \in Ix |-> MP!Nobody] /\ tid_seq = [t \in Ix |-> 0]
  BY DEF Init, NoTid, MP!Nobody
<1> QED BY <1>1, <1>2, <1>3 DEF MP!MpInit

\* Every step of the kernel is one of MessagePassing or invisible.
LEMMA StepIsStep == KernelInv /\ [Next]_vars => [MP!MpNext]_mapped
<1> SUFFICES ASSUME KernelInv, [Next]_vars, ~UNCHANGED mapped PROVE MP!MpNext
  OBVIOUS
<1>1. ~AssertFailure
  <2> SUFFICES ASSUME AssertFailure PROVE FALSE
    OBVIOUS
  <2>1. UNCHANGED <<tid_seq, senders, send_to, state>>
    BY DEF AssertFailure, schedVars, identVars, ipcVars
  <2> QED BY <2>1, Invisible
<1>2. CASE \E p \in CreatePrios : Create(p)
  BY <1>1, <1>2, CreateIsBorn DEF MP!MpNext
<1>3. CASE Exit \/ KillUndef
  BY <1>1, <1>3, FreeIsDies DEF MP!MpNext
<1>4. CASE \E tid \in TidArgs : SendRendezvous(tid)
  BY <1>1, <1>4, SendRendezvousIsSend DEF MP!MpNext
<1>5. CASE \E tid \in TidArgs : SendEnqueue(tid)
  BY <1>1, <1>5, SendEnqueueIsSend DEF MP!MpNext
<1>6. CASE ReceiveRendezvous
  BY <1>1, <1>6, ReceiveRendezvousIsReceive DEF MP!MpNext
<1>7. CASE ReceiveBlocks
  BY <1>7, ReceiveBlocksIsWait DEF MP!MpNext
<1>8. CASE \E tid \in TidArgs : Reply(tid)
  BY <1>1, <1>8, ReplyIsAnswer DEF MP!MpNext
<1> QED
  BY <1>2, <1>3, <1>4, <1>5, <1>6, <1>7, <1>8, InvisibleSteps
     DEF Next, KernelStep, UserTrap, SysCall, Irq

\* Tasks that exchange messages see MessagePassing, whatever the scheduler,
\* the interrupts and the FPU do, for any number of tasks and priorities.
THEOREM KernelImplementsMessagePassing == Spec => ImplementsMessagePassing
<1>1. Init => MP!MpInit
  BY InitIsInit
<1>2. KernelInv /\ [Next]_vars => [MP!MpNext]_(MP!mpVars)
  BY StepIsStep DEF MP!mpVars, mapped
<1> QED
  BY <1>1, <1>2, KernelInvariant, PTL DEF Spec, ImplementsMessagePassing, MP!MpSpec

-----------------------------------------------------------------------------
(* The floating point contexts *)

fpAll == <<vars, fpVars, left>>

\* Whose the contexts are
Places ==
    /\ FpTypeOK
    /\ ContextsInPlace
    /\ fp_ctx_holder = NoTask => fpu = NoTid
    /\ \A t \in Ix : fpu_regs[t] # NoTid => t \in fpu_ctx_on_stack
    /\ phase = "user" => active \notin fpu_ctx_on_stack
    /\ phase = "retry" => fp_ctx_holder = active

\* The contexts of a descriptor's first owner are its own, and it has none
\* before it is born.
FirstOwner(t) ==
    /\ state[t] = "FREE" => t \notin fpu_ctx_on_stack /\ t # fp_ctx_holder
    /\ t \in fpu_ctx_on_stack => fpu_regs[t] = TASK_TID(t)
    /\ t = fp_ctx_holder => fpu = TASK_TID(t)

FirstOwners == \A t \in Ix \ left : FirstOwner(t)

FpInv == KernelInv /\ Places /\ FirstOwners

\* A step of both: what the lemmas below start from
FpMoves == FpInv /\ Moves /\ [FpNext]_fpAll

-----------------------------------------------------------------------------
(* The kernel underneath *)

LEMMA FpStepIsStep == [FpNext]_fpAll => [Next]_vars
<1>1. CASE FpNext
  <2>1. FpStep
    BY <1>1 DEF FpNext
  <2> QED BY <2>1 DEF FpStep, FpSchedule, FpTake, FpKill, Next, KernelStep, UserTrap
<1>2. CASE UNCHANGED fpAll
  BY <1>2 DEF fpAll
<1> QED BY <1>1, <1>2

\* With its floating point contexts the kernel is still the kernel of module
\* Kernel: whatever is proved of Spec holds of FpSpec.
THEOREM FpKernelIsKernel == FpSpec => Spec
<1>1. FpInit => Init
  BY DEF FpInit
<1>2. [FpNext]_<<vars, fpVars, left>> => [Next]_vars
  BY FpStepIsStep DEF fpAll
<1> QED BY <1>1, <1>2, PTL DEF FpSpec, Spec

\* Only an exit changes the sequence number of a descriptor.
LEMMA SeqSteps ==
    ASSUME Moves
    PROVE  \A t \in Ix : state'[t] # "FREE" => tid_seq'[t] = tid_seq[t]
<1>1. CASE Calm
  BY <1>1 DEF Calm
<1>2. CASE \E p \in CreatePrios : Create(p)
  <2>1. ~ AssertFailure
    BY StepFacts
  <2> QED BY <1>2, <2>1 DEF Create, NewTask
<1>3. CASE \/ \E tid \in TidArgs : SendRendezvous(tid) \/ SendEnqueue(tid) \/ Reply(tid)
           \/ ReceiveRendezvous \/ ReceiveBlocks
  <2>1. ~ AssertFailure
    BY StepFacts
  <2> QED BY <1>3, <2>1 DEF SendRendezvous, SendEnqueue, Reply, ReceiveRendezvous,
                            ReceiveBlocks, identVars
<1> QED BY <1>1, <1>2, <1>3, BusySteps

-----------------------------------------------------------------------------
(* The steps *)

\* A step that moves no context
Elsewise == /\ UNCHANGED fpVars
            /\ phase' \in {"user", "retry"} =>
                  phase \in {"user", "retry"} /\ active' = active
            /\ phase' = "retry" => phase = "retry"

\* The two steps that move contexts, and the others
LEMMA FpCases ==
    ASSUME FpMoves
    PROVE  \/ /\ Schedule /\ phase' = "user" /\ active' \in Ix
              /\ state'[active'] = "ACTIVE" /\ RestoreFpu(active')
           \/ FpTake
           \/ Elsewise
<1>1. ~ AssertFailure /\ TypeOK'
  BY StepFacts DEF FpMoves
<1>2. CASE FpSchedule
  <2>1. /\ Schedule /\ phase' = "user"
        /\ RestoreFpu(active')
    BY <1>1, <1>2 DEF FpSchedule, Schedule, Dispatch
  <2>2. active' \in Ix /\ state'[active'] = "ACTIVE"
    BY <1>1, <2>1 DEF FpMoves, Moves, KernelInv, Running, TypeOK
  <2> QED BY <2>1, <2>2
<1>3. CASE FpTake
  BY <1>3
<1>4. CASE FpKill
  BY <1>4, TrapSteps DEF FpKill, FpMoves, Elsewise
<1>5. CASE UNCHANGED fpAll
  BY <1>5 DEF fpAll, vars, Elsewise
<1>6. CASE FpNext
  <2>1. FpStep
    BY <1>6 DEF FpNext
  <2>2. ASSUME UNCHANGED fpVars, NEW i \in Irqs, DeviceAssert(i) \/ Irq(i)
        PROVE  Elsewise
    BY <2>2, TrapSteps DEF FpMoves, Elsewise, DeviceAssert
  <2>3. ASSUME UNCHANGED fpVars, SkipSchedule \/ Halt \/ Terminated \/ SysCall
        PROVE  Elsewise
    BY <2>3, TrapSteps DEF FpMoves, Elsewise, SkipSchedule, Halt, Terminated, vars
  <2> QED BY <1>2, <1>3, <1>4, <2>1, <2>2, <2>3 DEF FpStep
<1>7. FpNext \/ UNCHANGED fpAll
  BY DEF FpMoves
<1> QED BY <1>5, <1>6, <1>7

LEMMA PlacesStep == FpMoves => Places'
<1> SUFFICES ASSUME FpMoves PROVE Places'
  OBVIOUS
<1>1. /\ Places /\ TypeOK' /\ FpTypeOK
      /\ fp_ctx_holder \in Ix \cup {NoTask} /\ fpu_ctx_on_stack \in SUBSET Ix
      /\ fpu_regs \in [Ix -> Tids \cup {NoTid}] /\ fpu \in Tids \cup {NoTid}
      /\ tid_seq \in [Ix -> Seqs] /\ NoTask \notin Ix
  BY StepFacts, IxFacts DEF FpMoves, FpInv, Places, FpTypeOK, TypeOK
<1>2. left' \in SUBSET Ix
  BY <1>1 DEF FpMoves, FpNext, Leaving, fpAll, FpTypeOK
<1>3. /\ Saved \in [Ix -> Tids \cup {NoTid}] /\ Flagged \in SUBSET Ix
      /\ \A t \in Flagged : Saved[t].ix = t
      /\ \A t \in Ix : Saved[t] # NoTid => t \in Flagged
      /\ \A t \in Ix \ {fp_ctx_holder} : Saved[t] = fpu_regs[t]
  BY <1>1 DEF Saved, Flagged, Places, ContextsInPlace
<1>4. CASE Schedule /\ phase' = "user" /\ active' \in Ix /\ RestoreFpu(active')
  <2>1. CASE active' \in fpu_ctx_on_stack
    <3> DEFINE t == active'
    <3>1. /\ fpu' = Saved[t] /\ fp_ctx_holder' = t
          /\ fpu_regs' = [Saved EXCEPT ![t] = NoTid] /\ fpu_ctx_on_stack' = Flagged \ {t}
          /\ t \in Ix /\ t \in Flagged
      BY <1>4, <2>1 DEF RestoreFpu, Flagged
    <3> HIDE DEF t
    <3>2. FpTypeOK'
      BY <1>1, <1>2, <1>3, <3>1 DEF FpTypeOK
    <3>3. ContextsInPlace'
      BY <1>1, <1>3, <3>1 DEF ContextsInPlace
    <3> QED BY <1>1, <1>3, <1>4, <3>1, <3>2, <3>3 DEF Places, t
  <2>2. CASE active' \notin fpu_ctx_on_stack
    BY <1>1, <1>2, <1>4, <2>2 DEF RestoreFpu, fpVars, Places, FpTypeOK, ContextsInPlace
  <2> QED BY <2>1, <2>2
<1>5. CASE FpTake
  <2>1. /\ phase = "user" /\ phase' = "retry" /\ active' = active
        /\ active \in Ix /\ active \notin Flagged
        /\ fpu' = TASK_TID(active) /\ fp_ctx_holder' = active
        /\ fpu_regs' = Saved /\ fpu_ctx_on_stack' = Flagged
    BY <1>1, <1>5, StepFacts DEF FpMoves, FpTake, FpuTrap, Calling, Places, Flagged, schedVars
  <2>2. TASK_TID(active) \in Tids /\ TASK_TID(active).ix = active
    BY <1>1, <2>1 DEF TASK_TID, Tids
  <2> QED BY <1>1, <1>2, <1>3, <2>1, <2>2 DEF Places, FpTypeOK, ContextsInPlace
<1>6. CASE Elsewise
  BY <1>1, <1>2, <1>6 DEF Elsewise, Places, FpTypeOK, ContextsInPlace, fpVars
<1> QED BY <1>4, <1>5, <1>6, FpCases

LEMMA FirstOwnersStep == FpMoves => FirstOwners'
<1> SUFFICES ASSUME FpMoves, NEW t \in Ix, t \notin left'
             PROVE  FirstOwner(t)'
  BY DEF FirstOwners
<1>1. /\ Places /\ TypeOK' /\ fpu_regs \in [Ix -> Tids \cup {NoTid}]
      /\ fp_ctx_holder \in Ix \cup {NoTask} /\ NoTask \notin Ix
      /\ phase = "user" => active \in Ix /\ state[active] = "ACTIVE"
  BY StepFacts, IxFacts DEF FpMoves, FpInv, Places, FpTypeOK
<1>2. /\ t \notin left
      /\ state'[t] = "FREE" => state[t] = "FREE"
  BY DEF FpMoves, FpNext, Leaving, fpAll, vars, identVars, schedVars
<1>3. FirstOwner(t)
  BY <1>2 DEF FpMoves, FpInv, FirstOwners
<1>4. t \in fpu_ctx_on_stack \/ t = fp_ctx_holder => TASK_TID(t)' = TASK_TID(t)
  BY <1>2, <1>3, SeqSteps DEF FpMoves, FirstOwner, TASK_TID
<1>5. /\ t \in Flagged => Saved[t] = TASK_TID(t)' /\ state'[t] # "FREE"
      /\ t # fp_ctx_holder => Saved[t] = fpu_regs[t]
  BY <1>1, <1>2, <1>3, <1>4 DEF FirstOwner, Flagged, Saved
<1>6. CASE /\ Schedule /\ active' \in Ix /\ state'[active'] = "ACTIVE"
           /\ RestoreFpu(active')
  <2>1. CASE active' \in fpu_ctx_on_stack
    <3>1. /\ fpu' = Saved[active'] /\ fp_ctx_holder' = active'
          /\ fpu_regs' = [Saved EXCEPT ![active'] = NoTid]
          /\ fpu_ctx_on_stack' = Flagged \ {active'} /\ active' \in Flagged
      BY <1>6, <2>1 DEF RestoreFpu, Flagged
    <3>2. t \in fpu_ctx_on_stack' => fpu_regs'[t] = Saved[t]
      BY <1>1, <3>1 DEF Saved
    <3> QED BY <1>5, <1>6, <3>1, <3>2 DEF FirstOwner
  <2>2. CASE active' \notin fpu_ctx_on_stack
    BY <1>2, <1>3, <1>4, <1>6, <2>2 DEF RestoreFpu, fpVars, FirstOwner
  <2> QED BY <1>6, <2>1, <2>2
<1>7. CASE FpTake
  <2>1. /\ UNCHANGED <<state, tid_seq>>
        /\ active \in Ix /\ state[active] = "ACTIVE"
        /\ fpu' = TASK_TID(active) /\ fp_ctx_holder' = active
        /\ fpu_regs' = Saved /\ fpu_ctx_on_stack' = Flagged
    BY <1>1, <1>7 DEF FpTake, FpuTrap, Calling, identVars, schedVars
  <2> QED BY <1>5, <2>1 DEF FirstOwner, TASK_TID
<1>8. CASE Elsewise
  BY <1>2, <1>3, <1>4, <1>8 DEF Elsewise, fpVars, FirstOwner
<1> QED BY <1>6, <1>7, <1>8, FpCases

-----------------------------------------------------------------------------
(* The theorems *)

\* What the kernel's theorems give, and the floating point context switch, in
\* one invariant
LEMMA FpInvariant ==
    ASSUME StaleFlags = {}
    PROVE  FpSpec => []FpInv
<1>1. FpInit => Places /\ FirstOwners
  <2> SUFFICES ASSUME FpInit PROVE Places /\ FirstOwners
    OBVIOUS
  <2>1. TypeOK
    BY InitStep DEF FpInit, KernelInv
  <2> QED BY <2>1, IxFacts DEF FpInit, Init, Places, FirstOwners, FirstOwner, FpTypeOK,
                               ContextsInPlace
<1>2. FpInv /\ KernelInv' /\ [FpNext]_<<vars, fpVars, left>> => Places' /\ FirstOwners'
  BY FpStepIsStep, PlacesStep, FirstOwnersStep DEF FpMoves, Moves, FpInv, fpAll
<1>3. FpInv <=> KernelInv /\ Places /\ FirstOwners
  BY DEF FpInv
<1> QED BY <1>1, <1>2, <1>3, FpKernelIsKernel, KernelInvariant, PTL DEF FpSpec

\* As long as struct kern starts with no context marked, no task ever computes
\* with registers of another, unless it has the descriptor of a dead one.
THEOREM ContextsNeverMix ==
    ASSUME StaleFlags = {}
    PROVE  FpSpec => []ContextsPrivate
<1>1. FpInv => ContextsPrivate
  <2> SUFFICES ASSUME FpInv PROVE ContextsPrivate
    OBVIOUS
  <2>1. phase = "user" => active \in Ix
    BY ActiveFacts DEF FpInv
  <2> QED BY <2>1 DEF FpInv, Places, FirstOwners, FirstOwner, ContextsPrivate, FirstOwnerPrivate
<1> QED BY <1>1, FpInvariant, PTL

\* A task that traps for want of the FPU never had a context: a context is
\* kept, in the FPU or on a stack, until its task resumes with it.
THEOREM NoContextThrownAway ==
    ASSUME StaleFlags = {}
    PROVE  FpSpec => FreshOnce
<1>1. FpInv /\ KernelInv' /\ [FpNext]_<<vars, fpVars, left>> =>
         [phase = "user" /\ phase' = "retry" /\ active \notin left =>
             TASK_TID(active) \notin {fpu, fpu_regs[active]}]_<<vars, fpVars, left>>
  <2> SUFFICES ASSUME FpMoves, phase = "user", phase' = "retry"
               PROVE  TASK_TID(active) \notin {fpu, fpu_regs[active]}
    BY FpStepIsStep DEF FpMoves, Moves, FpInv, fpAll
  <2>1. FpTake /\ active \in Ix /\ NoTask \notin Ix
    BY FpCases, StepFacts, IxFacts DEF FpMoves, Elsewise
  <2>2. active # fp_ctx_holder /\ active \notin fpu_ctx_on_stack
    BY <2>1 DEF FpTake, FpMoves, FpInv, Places
  <2>3. TASK_TID(active).ix = active /\ NoTid.ix = NoTask
    BY DEF TASK_TID, NoTid, NoTask
  <2>4. fpu.ix # active
    BY <2>1, <2>2, <2>3 DEF FpMoves, FpInv, Places, ContextsInPlace
  <2>5. fpu_regs[active] = NoTid
    BY <2>1, <2>2 DEF FpMoves, FpInv, Places
  <2> QED BY <2>1, <2>3, <2>4, <2>5
<1> QED BY <1>1, FpInvariant, FpKernelIsKernel, KernelInvariant, PTL DEF FpSpec, FreshOnce
=============================================================================
