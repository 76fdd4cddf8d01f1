--------------------------- MODULE PriorityQueue ---------------------------
(***************************************************************************)
(* What pqueue.h promises: a queue holds each of the values 0 .. MaxSize-1  *)
(* at most once, under a key that can only be decreased, and gives out a    *)
(* value of least key.  How ties are broken is left open.                   *)
(***************************************************************************)
EXTENDS Integers, Functions

CONSTANTS MaxSize,   \* maxsize of pqueue_init
          Keys       \* the keys that are used

Vals  == 0 .. MaxSize - 1
NoVal == -1

VARIABLES queue,   \* the function from the values queued to their keys
          front,   \* what pqueue_peekmin returns
          answer   \* what the last operation returned

pqVars == <<queue, front, answer>>

Least(q) == IF DOMAIN q = {} THEN {NoVal}
            ELSE {v \in DOMAIN q : \A u \in DOMAIN q : q[v] <= q[u]}

With(q, v, k) == [u \in DOMAIN q \cup {v} |-> IF u = v THEN k ELSE q[u]]

PqInit == queue = << >> /\ front = NoVal /\ answer = 0

Becomes(q) == queue' = q /\ front' \in Least(q)

Refused(code) == answer' = code /\ UNCHANGED <<queue, front>>

PqAdd(v, k) ==
    \/ v \notin Vals /\ Refused(-1)
    \/ v \in DOMAIN queue /\ Refused(-2)
    \/ v \in Vals \ DOMAIN queue /\ Becomes(With(queue, v, k)) /\ answer' = 0

PqDecreaseKey(v, k) ==
    \/ v \notin DOMAIN queue /\ Refused(-1)
    \/ v \in DOMAIN queue /\ k >= queue[v] /\ Refused(-2)
    \/ v \in DOMAIN queue /\ k < queue[v] /\ Becomes(With(queue, v, k)) /\ answer' = 0

PqPopMin == /\ front # NoVal
            /\ Becomes(Restrict(queue, DOMAIN queue \ {front}))
            /\ answer' = 0

PqNext == \/ \E v \in 0 .. MaxSize, k \in Keys : PqAdd(v, k)
          \/ \E v \in Vals, k \in Keys : PqDecreaseKey(v, k)
          \/ PqPopMin

PqSpec == PqInit /\ [][PqNext]_pqVars
=============================================================================
