----------------------------- MODULE ItemQueue -----------------------------
(***************************************************************************)
(* The queue of queue.c.  The memory is bytes: byte k of item x is <<x, k>>. *)
(***************************************************************************)
EXTENDS Integers, Sequences

CONSTANTS Items, eltsize, memsize

\* Callers have room for an item.
\* What is assumed of the constants.
ItemQueueAssumption == memsize \in Nat /\ eltsize \in 1 .. memsize

VARIABLES q_wr, q_rd, q_size, q_count,
          bytes,    \* q->mem
          buf_out   \* what the last call wrote to it

queueVars == <<q_wr, q_rd, q_size, q_count, bytes, buf_out>>

\* What is left over at the end is not used.
cap == (memsize \div eltsize) * eltsize

\* Nothing sets the memory.
q_init ==
    /\ q_wr = 0 /\ q_rd = 0 /\ q_size = 0 /\ q_count = 0
    /\ \E x \in Items : bytes = [o \in 0 .. memsize - 1 |-> <<x, 0>>]
    /\ buf_out = << >>

dequeue_empty ==
    /\ q_size = 0
    /\ buf_out' = << >>
    /\ UNCHANGED <<q_wr, q_rd, q_size, q_count, bytes>>

q_dequeue ==
    /\ q_size # 0
    /\ buf_out' = <<[k \in 0 .. eltsize - 1 |-> bytes[q_rd + k]]>>
    /\ q_rd' = (q_rd + eltsize) % cap
    /\ q_size' = q_size - eltsize
    /\ q_count' = q_count - 1
    /\ UNCHANGED <<q_wr, bytes>>

\* Mutant: one item too many is taken.
HasRoomForOneMore == q_size <= cap

HasRoom == q_size # cap

enqueue_full ==
    /\ ~ HasRoom
    /\ buf_out' = << >>
    /\ UNCHANGED <<q_wr, q_rd, q_size, q_count, bytes>>

q_enqueue(x) ==
    /\ HasRoom
    /\ bytes' = [o \in DOMAIN bytes |->
                   IF o \in q_wr .. q_wr + eltsize - 1 THEN <<x, o - q_wr>> ELSE bytes[o]]
    /\ q_wr' = (q_wr + eltsize) % cap
    /\ q_size' = q_size + eltsize
    /\ q_count' = q_count + 1
    /\ buf_out' = << >>
    /\ UNCHANGED q_rd

queueNext == \/ dequeue_empty \/ q_dequeue \/ enqueue_full
             \/ \E x \in Items : q_enqueue(x)

queueSpec == q_init /\ [][queueNext]_queueVars

-----------------------------------------------------------------------------
(* Properties *)

\* An item, byte by byte
Whole(x) == [k \in 0 .. eltsize - 1 |-> <<x, k>>]

\* The bytes of the i-th item in the queue
ItemAt(i) == LET at == (q_rd + (i - 1) * eltsize) % cap IN
             [k \in 0 .. eltsize - 1 |-> bytes[at + k]]

ItemsQueued == [i \in 1 .. q_count |-> ItemAt(i)]

QueueFifo == INSTANCE Fifo WITH
         Elements <- {Whole(x) : x \in Items},
         Capacity <- cap \div eltsize,
         Chunks   <- {<<Whole(x)>> : x \in Items},
         items    <- ItemsQueued,
         out      <- buf_out

\* The queue is a first-in first-out store of as many items as the memory has
\* room for, whole ones, whatever is left over at its end.
QueueImplementsFifo == QueueFifo!FifoSpec
=============================================================================
