----------------------------- MODULE KernelIpc -----------------------------
(***************************************************************************)
(* The kernel of module Kernel implements MessagePassing: scheduling, the   *)
(* queues threaded through next_ix, events, interrupts and floating point   *)
(* traps are invisible to tasks that exchange messages.                     *)
(***************************************************************************)
EXTENDS Kernel

\* What a task is doing, seen by the other tasks
ModeOf(st) == CASE st = "FREE"            -> "dead"
                [] st = "RECEIVE_BLOCKED" -> "sending"
                [] st = "REPLY_BLOCKED"   -> "received"
                [] st = "SEND_BLOCKED"    -> "receiving"
                [] OTHER                  -> "running"

modes   == [t \in Ix |-> ModeOf(state[t])]
inboxes == [t \in Ix |-> IF state[t] = "FREE" THEN <<>> ELSE senders[t]]

MP == INSTANCE MessagePassing WITH
          Task <- Ix, FirstTasks <- {IdleIx, InitIx}, Incarnations <- SeqCount,
          mode <- modes, incarnation <- tid_seq, inbox <- inboxes,
          waits_for <- send_to

\* Whatever the kernel does looks to its tasks like message passing between
\* tasks that all run at once, with in-order delivery to the incarnation
\* addressed and nothing lost, doubled or forged.
ImplementsMessagePassing == MP!MpSpec
=============================================================================
