------------------------------- MODULE PQueue -------------------------------
(***************************************************************************)
(* The priority queue of pqueue.c, in both of its builds: PQ_RING keeps a   *)
(* sorted ring, PQ_HEAP a binary heap.  entry[i] and pos[i] are the two     *)
(* parts of nodes[i].  A loop that moves entries one by one is a single     *)
(* assignment here.                                                         *)
(***************************************************************************)
EXTENDS Integers, FiniteSetsExt

CONSTANTS MaxSize, Keys

\* What is assumed of the constants.
PQueueAssumption == MaxSize \in Nat \ {0} /\ Keys \subseteq Int /\ Keys # {}

Slots == 0 .. MaxSize - 1
Vals  == 0 .. MaxSize - 1

VARIABLES build,   \* which of the two is compiled
          entry, pos, count, answer,
          start    \* stays 0 in the heap, which has none

pqueueVars == <<build, entry, pos, count, start, answer>>

\* pqueue_init; memory that it leaves alone is never read.
pqueue_init ==
    /\ build \in {"PQ_RING", "PQ_HEAP"}
    /\ entry = [i \in Slots |-> [key |-> 0, val |-> 0]]
    /\ pos = [v \in Vals |-> MaxSize]
    /\ count = 0
    /\ start = 0
    /\ answer = 0

-----------------------------------------------------------------------------
(* The ring *)

\* The slot that is k places behind start
Slot(k) == (start + k) % MaxSize

\* Mutant: a new entry goes in front of the entries with its key.
PlaceBeforeEqual(k, key) ==
    Min({j \in 0 .. k : \A i \in j .. k - 1 : entry[Slot(i)].key >= key})

\* Where a loop that starts k places behind start leaves off
PlaceFor(k, key) ==
    Min({j \in 0 .. k : \A i \in j .. k - 1 : entry[Slot(i)].key > key})

\* The entries from Place on move up by one, and (v, key) goes in between.
MoveIn(k, v, key) ==
    LET p     == PlaceFor(k, key)
        Moved == p .. k - 1
    IN  /\ entry' = [s \in Slots |->
              IF s = Slot(p) THEN [key |-> key, val |-> v]
              ELSE IF \E i \in Moved : s = Slot(i + 1)
                   THEN entry[IF s = 0 THEN MaxSize - 1 ELSE s - 1]
                   ELSE entry[s]]
        /\ pos' = [u \in Vals |->
              IF u = v THEN Slot(p)
              ELSE IF \E i \in Moved : u = entry[Slot(i)].val
                   THEN (pos[u] + 1) % MaxSize
                   ELSE pos[u]]

-----------------------------------------------------------------------------
(* The heap *)

Parent(i) == (i - 1) \div 2

\* The slots that an entry with this key passes on its way up from slot i
Rise(i, key) ==
    LET up[j \in Slots] == IF j = 0 THEN {0}
                           ELSE IF entry[Parent(j)].key <= key THEN {j}
                           ELSE {j} \cup up[Parent(j)]
    IN  up[i]

\* Mutant: the positions of the entries that move are not updated.
MovedStale(path, newEntry) == pos

\* Where the positions of the values lie once the slots of path are rewritten
Moved(path, newEntry) ==
    [v \in Vals |-> IF \E s \in path : newEntry[s].val = v
                    THEN CHOOSE s \in path : newEntry[s].val = v
                    ELSE pos[v]]

\* Entry (v, key) moves up from slot i; what it passes moves down.
SiftUp(i, v, key) ==
    LET path == Rise(i, key) IN
    /\ entry' = [s \in Slots |->
          IF s = Min(path) THEN [key |-> key, val |-> v]
          ELSE IF s \in path THEN entry[Parent(s)]
          ELSE entry[s]]
    /\ pos' = Moved(path, entry')

\* Mutant: only the left child is looked at.
FallsToLeft(i, n, key) == {2 * i + 1} \cap 0 .. n - 1

\* The children of slot i in a heap of n entries that come before key
FallsTo(i, n, key) ==
    {j \in {2 * i + 1, 2 * i + 2} \cap 0 .. n - 1 : entry[j].key < key}

\* The lighter of them, the left one if they are equal
Lighter(i, n, key) ==
    LET c == FallsTo(i, n, key) IN
    Min({j \in c : \A k \in c : entry[j].key <= entry[k].key})

\* The slots that an entry with this key passes on its way down from the root
Fall(n, key) ==
    LET down[i \in Slots] == IF FallsTo(i, n, key) = {} THEN {i}
                             ELSE {i} \cup down[Lighter(i, n, key)]
    IN  down[0]

-----------------------------------------------------------------------------
(* The operations *)

Refuse(code) == answer' = code /\ UNCHANGED <<build, entry, pos, count, start>>

AddFails(v) == \/ v >= MaxSize /\ Refuse(-1)
               \/ v < MaxSize /\ pos[v] < MaxSize /\ Refuse(-2)

Add(v, key) ==
    /\ v < MaxSize
    /\ pos[v] = MaxSize
    /\ \/ build = "PQ_RING" /\ MoveIn(count, v, key)
       \/ build = "PQ_HEAP" /\ SiftUp(count, v, key)
    /\ count' = count + 1
    /\ answer' = 0
    /\ UNCHANGED <<build, start>>

\* The code does not check that val is in range.
DecreaseKeyFails(v, key) ==
    \/ pos[v] = MaxSize /\ Refuse(-1)
    \/ pos[v] # MaxSize /\ key >= entry[pos[v]].key /\ Refuse(-2)

DecreaseKey(v, key) ==
    /\ pos[v] # MaxSize
    /\ key < entry[pos[v]].key
    /\ \/ build = "PQ_RING" /\ MoveIn((pos[v] + MaxSize - start) % MaxSize, v, key)
       \/ build = "PQ_HEAP" /\ SiftUp(pos[v], v, key)
    /\ answer' = 0
    /\ UNCHANGED <<build, count, start>>

PopFromRing ==
    /\ pos' = [pos EXCEPT ![entry[start].val] = MaxSize]
    /\ start' = (start + 1) % MaxSize
    /\ UNCHANGED entry

\* The last entry takes the root's place and falls; the popped one is left in
\* the slot of the last.
PopFromHeap ==
    LET n    == count - 1
        last == entry[n]
        path == Fall(n, last.key)
    IN
    /\ entry' = [s \in Slots |->
          IF s = n THEN entry[0]
          ELSE IF s = Max(path) THEN last
          ELSE IF s \in path THEN entry[Lighter(s, n, last.key)]
          ELSE entry[s]]
    /\ pos' = [Moved(path \ {n}, entry') EXCEPT ![entry[0].val] = MaxSize]
    /\ UNCHANGED start

\* Callers pop only what they have peeked at.
PopMin ==
    /\ count > 0
    /\ \/ build = "PQ_RING" /\ PopFromRing
       \/ build = "PQ_HEAP" /\ PopFromHeap
    /\ count' = count - 1
    /\ answer' = 0
    /\ UNCHANGED build

PQueueNext ==
    \/ \E v \in 0 .. MaxSize : AddFails(v) \/ \E key \in Keys : Add(v, key)
    \/ \E v \in Vals, key \in Keys : DecreaseKeyFails(v, key) \/ DecreaseKey(v, key)
    \/ PopMin

PQueueSpec == pqueue_init /\ [][PQueueNext]_pqueueVars

-----------------------------------------------------------------------------
(* Properties *)

\* "nodes[i] always has the position for value i" (pqueue.h), for exactly the
\* values that are queued.  And the assert of pqueue_add, that it is
\* "impossible to more than fill the queue": a value not queued finds room.
PositionsExact ==
    /\ \A v \in Vals : pos[v] = MaxSize => count < MaxSize
    /\ \A k \in 0 .. count - 1 : pos[entry[Slot(k)].val] = Slot(k)
    /\ \A v \in Vals : pos[v] # MaxSize =>
          entry[pos[v]].val = v /\ \E k \in 0 .. count - 1 : pos[v] = Slot(k)

\* How far behind start value v is
Behind(v) == (pos[v] + MaxSize - start) % MaxSize

Queued == {v \in Vals : pos[v] # MaxSize}

\* In the ring equal keys leave in the order in which their values came to have
\* them: a value that comes to a key goes behind those that have it, and two
\* values that keep their keys keep their order.
OldestFirst ==
    [][build = "PQ_RING" =>
       \A u, v \in Queued' :
          /\ u # v
          /\ entry'[pos'[u]].key = entry'[pos'[v]].key
          /\ u \in Queued /\ entry[pos[u]].key = entry'[pos'[u]].key
          /\ \/ v \notin Queued
             \/ entry[pos[v]].key # entry[pos[u]].key
             \/ Behind(u) < Behind(v)
          => Behind(u)' < Behind(v)']_pqueueVars

\* Both are the priority queue that pqueue.h promises.
PQ == INSTANCE PriorityQueue WITH
          queue <- [v \in Queued |-> entry[pos[v]].key],
          front <- IF count = 0 THEN -1 ELSE entry[start].val
ImplementsPriorityQueue == PQ!PqSpec
=============================================================================
