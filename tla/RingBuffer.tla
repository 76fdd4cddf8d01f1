----------------------------- MODULE RingBuffer -----------------------------
(***************************************************************************)
(* The ring buffer of ringbuf.c.  Callers keep to the asserts of rbuf_putc  *)
(* and rbuf_write.                                                          *)
(***************************************************************************)
EXTENDS Integers, Sequences

CONSTANTS Char, Size,
          Bufs    \* what callers write at once

\* What is assumed of the constants.
RingBufferAssumption == Size \in Nat \ {0} /\ Bufs \subseteq Seq(Char)

VARIABLES mem, rd, wr, len,
          c_out   \* what the last call wrote through c_out, if it returned true

rbufVars == <<mem, rd, wr, len, c_out>>

\* rbuf_init; the memory holds anything.
rbuf_init ==
    /\ mem \in [0 .. Size - 1 -> Char]
    /\ rd = 0
    /\ wr = 0
    /\ len = 0
    /\ c_out = << >>

\* Mutant: the index wraps one late.
WrapLate(i) == i % (Size + 1)

Wrap(i) == i % Size

rbuf_putc(c) ==
    /\ len < Size
    /\ mem' = [mem EXCEPT ![wr] = c]
    /\ wr' = Wrap(wr + 1)
    /\ len' = len + 1
    /\ c_out' = << >>
    /\ UNCHANGED rd

rbuf_peekc ==
    /\ c_out' = IF len = 0 THEN << >> ELSE <<mem[rd]>>
    /\ UNCHANGED <<mem, rd, wr, len>>

getc_empty ==
    /\ len = 0
    /\ c_out' = << >>
    /\ UNCHANGED <<mem, rd, wr, len>>

rbuf_getc ==
    /\ len # 0
    /\ c_out' = <<mem[rd]>>
    /\ rd' = Wrap(rd + 1)
    /\ len' = len - 1
    /\ UNCHANGED <<mem, wr>>

\* The characters of buf from place `from` on, n of them, copied to index `to`
Copied(m, to, buf, from, n) ==
    [i \in DOMAIN m |-> IF i \in to .. to + n - 1 THEN buf[from + 1 + i - to] ELSE m[i]]

\* Up to the end of the memory, and the rest at its beginning
rbuf_write(buf) ==
    LET n     == Len(buf)
        space == Size - wr
    IN
    /\ len + n <= Size
    /\ mem' = IF n <= space THEN Copied(mem, wr, buf, 0, n)
              ELSE Copied(Copied(mem, wr, buf, 0, space), 0, buf, space, n - space)
    /\ wr' = Wrap(wr + n)
    /\ len' = len + n
    /\ c_out' = << >>
    /\ UNCHANGED rd

rbufNext ==
    \/ \E c \in Char : rbuf_putc(c)
    \/ rbuf_peekc \/ getc_empty \/ rbuf_getc
    \/ \E buf \in Bufs : rbuf_write(buf)

rbufSpec == rbuf_init /\ [][rbufNext]_rbufVars

-----------------------------------------------------------------------------
(* Properties *)

\* Where the k-th character after the first one lies
Place(k) == IF rd + k < Size THEN rd + k ELSE rd + k - Size

Contents == [i \in 1 .. len |-> mem[Place(i - 1)]]

RingFifo == INSTANCE Fifo WITH
         Elements <- Char, Capacity <- Size, Chunks <- Bufs \cup {<<c>> : c \in Char},
         items <- Contents, out <- c_out

\* The ring is the first-in first-out buffer that ringbuf.h promises, also when
\* indices wrap in between, and when a write is cut in two by the end of the
\* memory.
RingImplementsFifo == RingFifo!FifoSpec
=============================================================================
