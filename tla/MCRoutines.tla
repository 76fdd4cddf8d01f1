----------------------------- MODULE MCRoutines -----------------------------
(***************************************************************************)
(* The library and assembly routines that are checked each by itself, for   *)
(* TLC: they share no state, so the first state says which of them runs and *)
(* the others stay where they start.  The properties are those that the     *)
(* routines' modules state.                                                 *)
(***************************************************************************)
EXTENDS RingBuffer, ItemQueue, MemoryCopy, PQueue, Numbers, ContextSwitch, SequencesExt

CONSTANTS MaxBuf, PowersTried

VARIABLE part

\* The strings that are written into the ring buffer
ShortStrings == BoundedSeq(Char, MaxBuf)

\* Numbers about each power of a base, and about the ends of the integers
EdgeNumbers == -300 .. 300 \cup {m * 2^k : m \in {1, 3, -5}, k \in PowersTried}
               \cup {10^k - 1 : k \in 0 .. 9} \cup {2147483647, -2147483647}
SomeWidths == {0, 1, 3, 12}

ASSUME MCRoutinesAssumption ==
    /\ PQueueAssumption
    /\ RingBufferAssumption /\ RingFifo!FifoAssumption
    /\ ItemQueueAssumption /\ QueueFifo!FifoAssumption
    /\ MemoryCopyAssumption
    /\ NumbersAssumption
    /\ ContextSwitchAssumption

NoSwitch == /\ routine = "none" /\ reg = 0 /\ cpsr = 0 /\ spsr = 0 /\ memory = 0
            /\ pc = 0 /\ running = 0 /\ left = 0 /\ steps = 0

NoNumber == /\ tried = 0 /\ base = 10 /\ loop = "none" /\ num = 0 /\ power = 0
            /\ text = << >> /\ src = 1 /\ value = 0 /\ ds = << >>

\* A part that does not run is in one of its first states, or switched off.
Init ==
    /\ part \in {"pqueue", "ring", "queue", "memory", "numbers", "ctx_switch"}
    /\ pqueue_init
    /\ part # "pqueue" => build = "PQ_RING"
    /\ rbuf_init
    /\ part # "ring" => mem = [i \in 0 .. Size - 1 |-> CHOOSE c \in Char : TRUE]
    /\ q_init
    /\ part # "queue" => bytes[0] = <<CHOOSE i \in Items : TRUE, 0>>
    /\ MemInit
    /\ part # "memory" => call.fn = "memset" /\ call.dest = 0 /\ call.size = 0
    /\ IF part = "numbers" THEN NumInit ELSE NoNumber
    /\ IF part = "ctx_switch" THEN CsInit ELSE NoSwitch

OnlyPqueue == UNCHANGED <<part, rbufVars, queueVars, memVars, numVars, csVars>>
OnlyRing == UNCHANGED <<part, pqueueVars, queueVars, memVars, numVars, csVars>>
OnlyQueue == UNCHANGED <<part, pqueueVars, rbufVars, memVars, numVars, csVars>>
OnlyMemory == UNCHANGED <<part, pqueueVars, rbufVars, queueVars, numVars, csVars>>
OnlyNumbers == UNCHANGED <<part, pqueueVars, rbufVars, queueVars, memVars, csVars>>
OnlySwitch == UNCHANGED <<part, pqueueVars, rbufVars, queueVars, memVars, numVars>>

Next ==
    \/ part = "pqueue" /\ OnlyPqueue /\ PQueueNext
    \/ part = "ring" /\ OnlyRing /\ rbufNext
    \/ part = "queue" /\ OnlyQueue /\ queueNext
    \/ part = "memory" /\ OnlyMemory /\ MemNext
    \/ part = "numbers" /\ OnlyNumbers /\ NumNext
    \/ part = "ctx_switch" /\ OnlySwitch /\ CsNext

Spec == Init /\ [][Next]_<<part, pqueueVars, rbufVars, queueVars, memVars, numVars, csVars>>
=============================================================================
