-------------------------------- MODULE Fifo --------------------------------
(***************************************************************************)
(* What ringbuf.h and queue.h promise: a first-in first-out store of bounded *)
(* capacity.  What is taken out is what was put in, in that order; looking   *)
(* and failing leave the store alone.                                       *)
(***************************************************************************)
EXTENDS Integers, Sequences

CONSTANTS Elements, Capacity,
          Chunks    \* the sequences of elements that may be put in at once

\* What is assumed of the constants.
FifoAssumption == Chunks \subseteq Seq(Elements)

VARIABLES items,
          out     \* what the last call handed out, an empty sequence if nothing

FifoInit == items = << >> /\ out = << >>

Put == \E s \in Chunks :
    /\ Len(items) + Len(s) <= Capacity
    /\ items' = items \o s
    /\ out' = << >>

Take == /\ items # << >>
        /\ items' = Tail(items)
        /\ out' = <<Head(items)>>

Peek == /\ items # << >>
        /\ out' = <<Head(items)>>
        /\ UNCHANGED items

\* The store is empty, or full.
Fails == /\ items = << >> \/ Len(items) = Capacity
         /\ out' = << >>
         /\ UNCHANGED items

FifoNext == Put \/ Take \/ Peek \/ Fails

FifoSpec == FifoInit /\ [][FifoNext]_<<items, out>>
=============================================================================
