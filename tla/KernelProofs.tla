---------------------------- MODULE KernelProofs ----------------------------
(* Proofs about the kernel of module Kernel, for every number of tasks,     *)
(* priorities, IRQs and TID sequence numbers.                               *)
EXTENDS Kernel, FiniteSetTheorems, SequenceTheorems, WellFoundedInduction, TLAPS

-----------------------------------------------------------------------------
(* Lemmas about sets and sequences *)

\* ctz16 of a non-zero bitmap: a non-empty set of priorities has a least.
\* Its elements are ordered by the finite sets of what is not above them.
LEMMA MinProperties ==
    ASSUME NEW S \in SUBSET Prios, S # {}
    PROVE  Min(S) \in S /\ \A p \in S : Min(S) <= p
<1> DEFINE UpTo(n) == {m \in S : m <= n}
           T       == {UpTo(n) : n \in S}
           R       == StrictSubsetOrdering(Prios)
<1>1. S \subseteq Nat
  BY SizeAssumption DEF Prios
<1>2. IsFiniteSet(Prios)
  BY FS_Interval, SizeAssumption DEF Prios
<1>3. T \subseteq FiniteSubsetsOf(Prios)
  <2> SUFFICES ASSUME NEW n \in S PROVE UpTo(n) \in FiniteSubsetsOf(Prios)
    OBVIOUS
  <2>1. UpTo(n) \in SUBSET Prios
    OBVIOUS
  <2> QED BY <1>2, <2>1, FS_FiniteSubsetsOfFinite
<1>4. IsWellFoundedOn(R, FiniteSubsetsOf(Prios))
  BY FS_StrictSubsetOrderingWellFounded
<1>5. T # {}
  OBVIOUS
<1>6. PICK x \in T : \A y \in T : ~ (<<y, x>> \in R)
  <2> HIDE DEF T, R
  <2> QED BY <1>3, <1>4, <1>5, WFMin
<1>7. PICK n \in S : x = UpTo(n)
  BY <1>6
<1>8. ASSUME NEW m \in S, m < n PROVE FALSE
  <2>1. m \in Nat /\ n \in Nat
    BY <1>1
  <2>2. \A k \in S : k <= m => k <= n
    BY <1>1, <1>8, <2>1
  <2>3. UpTo(m) \subseteq UpTo(n)
    BY <2>2
  <2>4. n \in UpTo(n) /\ n \notin UpTo(m)
    BY <1>8, <2>1
  <2>5. <<UpTo(m), UpTo(n)>> \in R
    BY <2>3, <2>4 DEF StrictSubsetOrdering
  <2> QED BY <1>6, <1>7, <2>5
<1>9. \A m \in S : n <= m
  BY <1>1, <1>8
<1> QED
  BY <1>9 DEF Min

\* What is in a queue of descriptors is a descriptor.
LEMMA RangeSubset ==
    ASSUME NEW S, NEW q \in Seq(S)
    PROVE  ToSet(q) \subseteq S
BY ElementOfSeq DEF ToSet

\* A queue after task_enqueue: one more element, at the tail.
LEMMA AppendFacts ==
    ASSUME NEW S, NEW q \in Seq(S), NEW x \in S
    PROVE  /\ Append(q, x) \in Seq(S)
           /\ Append(q, x) # <<>>
           /\ ToSet(Append(q, x)) = ToSet(q) \cup {x}
           /\ IsInjective(q) /\ x \notin ToSet(q) => IsInjective(Append(q, x))
<1> DEFINE r == Append(q, x)
<1>1. /\ r \in Seq(S)
      /\ r # <<>>
      /\ Len(r) = Len(q) + 1
      /\ \A i \in 1 .. Len(q) : r[i] = q[i]
      /\ r[Len(q) + 1] = x
  BY AppendProperties
<1>2. /\ DOMAIN q = 1 .. Len(q) /\ Len(q) \in Nat
      /\ DOMAIN r = 1 .. Len(q) + 1
  BY <1>1, LenProperties
<1> HIDE DEF r
<1>3. ToSet(r) = ToSet(q) \cup {x}
  <2>1. ASSUME NEW y \in ToSet(r) PROVE y \in ToSet(q) \cup {x}
    <3>1. PICK i \in 1 .. Len(q) + 1 : y = r[i]
      BY <1>2, <2>1 DEF ToSet
    <3>2. CASE i = Len(q) + 1
      BY <1>1, <3>1, <3>2
    <3>3. CASE i # Len(q) + 1
      <4>1. i \in 1 .. Len(q)
        BY <1>2, <3>3
      <4> QED BY <1>1, <1>2, <3>1, <4>1 DEF ToSet
    <3> QED BY <3>2, <3>3
  <2>2. ASSUME NEW y \in ToSet(q) \cup {x} PROVE y \in ToSet(r)
    <3>1. CASE y = x
      BY <1>1, <1>2, <3>1 DEF ToSet
    <3>2. CASE y \in ToSet(q)
      <4>1. PICK i \in 1 .. Len(q) : y = q[i]
        BY <1>2, <3>2 DEF ToSet
      <4>2. i \in DOMAIN r /\ r[i] = y
        BY <1>1, <1>2, <4>1
      <4> QED BY <4>2 DEF ToSet
    <3> QED BY <2>2, <3>1, <3>2
  <2> QED BY <2>1, <2>2
<1>4. ASSUME IsInjective(q), x \notin ToSet(q) PROVE IsInjective(r)
  <2> SUFFICES ASSUME NEW a \in DOMAIN r, NEW b \in DOMAIN r, r[a] = r[b]
               PROVE  a = b
    BY DEF IsInjective
  <2>1. \A i \in 1 .. Len(q) : q[i] \in ToSet(q)
    BY <1>2 DEF ToSet
  <2> QED
    BY <1>1, <1>2, <1>4, <2>1 DEF IsInjective
<1> QED
  BY <1>1, <1>3, <1>4 DEF r

\* A queue after task_dequeue: the head is gone, and gone for good when the
\* queue held nothing twice.
LEMMA TailFacts ==
    ASSUME NEW S, NEW q \in Seq(S), q # <<>>
    PROVE  /\ Head(q) \in S
           /\ Head(q) \in ToSet(q)
           /\ Tail(q) \in Seq(S)
           /\ ToSet(Tail(q)) \subseteq ToSet(q)
           /\ IsInjective(q) => /\ IsInjective(Tail(q))
                                /\ ToSet(Tail(q)) = ToSet(q) \ {Head(q)}
<1> DEFINE r == Tail(q)
<1>1. /\ Head(q) \in S
      /\ r \in Seq(S)
      /\ Len(r) = Len(q) - 1
      /\ \A i \in 1 .. Len(r) : r[i] = q[i + 1]
  BY HeadTailProperties
<1>2. /\ DOMAIN q = 1 .. Len(q) /\ Len(q) \in Nat \ {0}
      /\ DOMAIN r = 1 .. Len(q) - 1
      /\ Head(q) = q[1]
  BY <1>1, LenProperties, EmptySeq
<1> HIDE DEF r
<1>3. Head(q) \in ToSet(q)
  BY <1>2 DEF ToSet
<1>4. \A i \in DOMAIN r : i + 1 \in DOMAIN q /\ r[i] = q[i + 1]
  BY <1>1, <1>2
<1>5. ToSet(r) \subseteq ToSet(q)
  BY <1>4 DEF ToSet
<1>6. ASSUME IsInjective(q) PROVE IsInjective(r)
  BY <1>2, <1>4, <1>6 DEF IsInjective
<1>7. ASSUME IsInjective(q) PROVE ToSet(r) = ToSet(q) \ {Head(q)}
  <2>1. Head(q) \notin ToSet(r)
    BY <1>2, <1>4, <1>7 DEF IsInjective, ToSet
  <2>2. ASSUME NEW y \in ToSet(q), y # Head(q) PROVE y \in ToSet(r)
    <3>1. PICK i \in 1 .. Len(q) : y = q[i]
      BY <1>2 DEF ToSet
    <3>2. i # 1
      BY <1>2, <2>2, <3>1
    <3>3. i - 1 \in DOMAIN r /\ r[i - 1] = y
      BY <1>2, <1>4, <3>1, <3>2
    <3> QED BY <3>3 DEF ToSet
  <2> QED BY <1>5, <2>1, <2>2
<1> QED
  BY <1>1, <1>3, <1>5, <1>6, <1>7 DEF r

LEMMA EmptyFacts ==
    /\ ToSet(<<>>) = {}
    /\ IsInjective(<<>>)
    /\ \A S : \A q \in Seq(S) : q # <<>> => ToSet(q) # {}
<1>1. DOMAIN <<>> = {}
  OBVIOUS
<1>2. \A S : \A q \in Seq(S) : q # <<>> => ToSet(q) # {}
  BY TailFacts
<1> QED BY <1>1, <1>2 DEF ToSet, IsInjective

-----------------------------------------------------------------------------
(* Lemmas about the scheduler's data, for any states, priorities and queues *)

\* The queues q hold exactly the tasks that st and pr make READY.
Holds(q, st, pr) ==
    /\ q \in [Prios -> Seq(Ix)]
    /\ \A p \in Prios :
          /\ IsInjective(q[p])
          /\ ToSet(q[p]) = {t \in Ix : st[t] = "READY" /\ pr[t] = p}

NonEmpty(q) == {p \in Prios : q[p] # <<>>}

CountOf(st, s) == Cardinality({t \in Ix : st[t] = s})

\* task_enqueue on a ready queue, and TASK_SET_STATE, as operators the
\* provers need not expand
Enq(q, p, t)     == [q EXCEPT ![p] = Append(@, t)]
SetTo(st, t, v)  == [st EXCEPT ![t] = v]

LEMMA IxFacts == IsFiniteSet(Ix) /\ IdleIx \in Ix /\ NoTask \notin Ix
BY FS_Interval, SizeAssumption DEF Ix, IdleIx, NoTask

\* The effect of one task_enqueue on a ready queue
LEMMA EnqueueReady ==
    ASSUME NEW st \in [Ix -> States], NEW pr \in [Ix -> Prios], NEW q,
           NEW t \in Ix, Holds(q, st, pr), st[t] # "READY"
    PROVE  /\ Holds(Enq(q, pr[t], t), SetTo(st, t, "READY"), pr)
           /\ NonEmpty(Enq(q, pr[t], t)) = NonEmpty(q) \cup {pr[t]}
<1> DEFINE r   == Enq(q, pr[t], t)
           st2 == SetTo(st, t, "READY")
<1>0. /\ r = [q EXCEPT ![pr[t]] = Append(@, t)]
      /\ st2 = [st EXCEPT ![t] = "READY"]
  BY DEF Enq, SetTo
<1> HIDE DEF r, st2
<1>1. q \in [Prios -> Seq(Ix)] /\ pr[t] \in Prios
  BY DEF Holds
<1>2. t \notin ToSet(q[pr[t]])
  BY <1>1 DEF Holds
<1>3. /\ Append(q[pr[t]], t) \in Seq(Ix)
      /\ Append(q[pr[t]], t) # <<>>
      /\ ToSet(Append(q[pr[t]], t)) = ToSet(q[pr[t]]) \cup {t}
      /\ IsInjective(Append(q[pr[t]], t))
  BY <1>1, <1>2, AppendFacts DEF Holds
<1>4. /\ r[pr[t]] = Append(q[pr[t]], t)
      /\ \A p \in Prios : p # pr[t] => r[p] = q[p]
      /\ r \in [Prios -> Seq(Ix)]
  BY <1>0, <1>1, <1>3
<1>5. ASSUME NEW p \in Prios
      PROVE  /\ IsInjective(r[p])
             /\ ToSet(r[p]) = {u \in Ix : st2[u] = "READY" /\ pr[u] = p}
  <2>1. /\ IsInjective(q[p])
        /\ ToSet(q[p]) = {u \in Ix : st[u] = "READY" /\ pr[u] = p}
    BY DEF Holds
  <2>2. CASE p = pr[t]
    <3>1. IsInjective(r[p])
      BY <1>3, <1>4, <2>2
    <3>2. ToSet(r[p]) = ToSet(q[p]) \cup {t}
      BY <1>3, <1>4, <2>2
    <3>3. \A u \in Ix : (st2[u] = "READY" /\ pr[u] = p)
                          <=> (st[u] = "READY" /\ pr[u] = p) \/ u = t
      BY <1>0, <2>2
    <3>4. {u \in Ix : st2[u] = "READY" /\ pr[u] = p}
            = {u \in Ix : st[u] = "READY" /\ pr[u] = p} \cup {t}
      BY <3>3
    <3> QED BY <2>1, <3>1, <3>2, <3>4
  <2>3. CASE p # pr[t]
    <3>1. r[p] = q[p]
      BY <1>4, <2>3
    <3>2. \A u \in Ix : (st2[u] = "READY" /\ pr[u] = p)
                          <=> (st[u] = "READY" /\ pr[u] = p)
      BY <1>0, <2>3
    <3> QED BY <2>1, <3>1, <3>2
  <2> QED BY <2>2, <2>3
<1>6. Holds(r, st2, pr)
  BY <1>4, <1>5 DEF Holds
<1>7. NonEmpty(r) = NonEmpty(q) \cup {pr[t]}
  BY <1>1, <1>3, <1>4 DEF NonEmpty
<1> QED BY <1>6, <1>7 DEF r, st2

\* Changing the state of tasks that are not READY, and stay so, and the
\* priority of such tasks, changes nothing for the ready queues.
LEMMA SameReady ==
    ASSUME NEW st, NEW pr, NEW st2, NEW pr2, NEW q, Holds(q, st, pr),
           \A t \in Ix : \/ st2[t] = st[t] /\ pr2[t] = pr[t]
                         \/ st2[t] # "READY" /\ st[t] # "READY"
    PROVE  Holds(q, st2, pr2)
<1>1. \A p \in Prios : {t \in Ix : st2[t] = "READY" /\ pr2[t] = p}
                        = {t \in Ix : st[t] = "READY" /\ pr[t] = p}
  OBVIOUS
<1> QED BY <1>1 DEF Holds

\* One task changes state: the number of tasks in any state.
LEMMA CountChange ==
    ASSUME NEW st \in [Ix -> States], NEW t \in Ix, NEW v, NEW s
    PROVE  /\ CountOf(st, s) \in Nat
           /\ st[t] # s /\ v = s => CountOf(SetTo(st, t, v), s) = CountOf(st, s) + 1
           /\ st[t] = s /\ v # s => CountOf(SetTo(st, t, v), s) = CountOf(st, s) - 1
           /\ st[t] # s /\ v # s => CountOf(SetTo(st, t, v), s) = CountOf(st, s)
<1> DEFINE A  == {u \in Ix : st[u] = s}
           st2 == [st EXCEPT ![t] = v]
           B  == {u \in Ix : st2[u] = s}
<1>1. IsFiniteSet(A) /\ Cardinality(A) \in Nat
  BY IxFacts, FS_Subset, FS_CardinalityType
<1>2. /\ IsFiniteSet(A \ {t})
      /\ Cardinality(A \ {t}) = IF t \in A THEN Cardinality(A) - 1
                                           ELSE Cardinality(A)
  <2> HIDE DEF A
  <2> QED BY <1>1, FS_RemoveElement
<1>3. /\ Cardinality(A \cup {t}) = IF t \in A THEN Cardinality(A)
                                             ELSE Cardinality(A) + 1
  <2> HIDE DEF A
  <2> QED BY <1>1, FS_AddElement
<1>4. CASE v = s
  <2>1. B = A \cup {t}
    BY <1>4
  <2> QED BY <1>1, <1>3, <1>4, <2>1 DEF CountOf, SetTo
<1>5. CASE v # s
  <2>1. B = A \ {t}
    BY <1>5
  <2> QED BY <1>1, <1>2, <1>5, <2>1 DEF CountOf, SetTo
<1> QED BY <1>4, <1>5, <1>1 DEF CountOf, SetTo

LEMMA SameCount ==
    ASSUME NEW st, NEW st2, NEW s, \A t \in Ix : st2[t] = s <=> st[t] = s
    PROVE  CountOf(st2, s) = CountOf(st, s)
<1>1. {t \in Ix : st2[t] = s} = {t \in Ix : st[t] = s}
  OBVIOUS
<1> QED BY <1>1 DEF CountOf

-----------------------------------------------------------------------------
(* The part of the invariant that the scheduler's data make up *)

\* Ready queues q, bitmap ne and counter n fit the states and priorities.
Sched(q, ne, n, st, pr) ==
    /\ st \in [Ix -> States]
    /\ pr \in [Ix -> Prios]
    /\ Holds(q, st, pr)
    /\ ne = NonEmpty(q)
    /\ n = CountOf(st, "READY")
    /\ n \in Int

SchedInv == Sched(rdy_queues, rdy_queue_ne, rdy_count, state, prio)

\* task_ready keeps them fitting.
LEMMA ReadyStep ==
    ASSUME NEW q, NEW ne, NEW n, NEW st, NEW pr, NEW t \in Ix,
           Sched(q, ne, n, st, pr), st[t] # "READY"
    PROVE  Sched(Enq(q, pr[t], t), ne \cup {pr[t]}, n + 1,
                 SetTo(st, t, "READY"), pr)
<1>1. /\ st \in [Ix -> States] /\ pr \in [Ix -> Prios] /\ Holds(q, st, pr)
      /\ ne = NonEmpty(q) /\ n = CountOf(st, "READY") /\ n \in Int
  BY DEF Sched
<1>2. /\ Holds(Enq(q, pr[t], t), SetTo(st, t, "READY"), pr)
      /\ NonEmpty(Enq(q, pr[t], t)) = NonEmpty(q) \cup {pr[t]}
  BY <1>1, EnqueueReady
<1>3. CountOf(SetTo(st, t, "READY"), "READY") = CountOf(st, "READY") + 1
  BY <1>1, CountChange
<1>4. SetTo(st, t, "READY") \in [Ix -> States]
  BY <1>1 DEF SetTo, States
<1> QED
  BY <1>1, <1>2, <1>3, <1>4 DEF Sched

\* The effect of task_dequeue on the ready queue of p, and on the bitmap
Deq(q, p)      == [q EXCEPT ![p] = Tail(@)]
DeqBits(q, ne, p) == IF Tail(q[p]) = <<>> THEN ne \ {p} ELSE ne

\* task_schedule keeps them fitting.
LEMMA DispatchStep ==
    ASSUME NEW q, NEW ne, NEW n, NEW st, NEW pr, NEW p \in Prios,
           Sched(q, ne, n, st, pr), q[p] # <<>>
    PROVE  /\ Head(q[p]) \in Ix
           /\ st[Head(q[p])] = "READY"
           /\ pr[Head(q[p])] = p
           /\ Sched(Deq(q, p), DeqBits(q, ne, p), n - 1,
                    SetTo(st, Head(q[p]), "ACTIVE"), pr)
<1> DEFINE t   == Head(q[p])
           r   == Deq(q, p)
           st2 == SetTo(st, t, "ACTIVE")
<1>1. /\ st \in [Ix -> States] /\ pr \in [Ix -> Prios]
      /\ q \in [Prios -> Seq(Ix)]
      /\ IsInjective(q[p])
      /\ ToSet(q[p]) = {u \in Ix : st[u] = "READY" /\ pr[u] = p}
      /\ ne = NonEmpty(q) /\ n = CountOf(st, "READY") /\ n \in Int
  BY DEF Sched, Holds
<1>2. /\ t \in Ix
      /\ t \in ToSet(q[p])
      /\ Tail(q[p]) \in Seq(Ix)
      /\ IsInjective(Tail(q[p]))
      /\ ToSet(Tail(q[p])) = ToSet(q[p]) \ {t}
  BY <1>1, TailFacts
<1>3. st[t] = "READY" /\ pr[t] = p
  BY <1>1, <1>2
<1>4. /\ r \in [Prios -> Seq(Ix)]
      /\ r[p] = Tail(q[p])
      /\ \A o \in Prios : o # p => r[o] = q[o]
  BY <1>1, <1>2 DEF Deq
<1>5. /\ st2 \in [Ix -> States]
      /\ st2[t] = "ACTIVE"
      /\ \A u \in Ix : u # t => st2[u] = st[u]
  BY <1>1, <1>2 DEF SetTo, States
<1> HIDE DEF r, st2, t
<1>6. ASSUME NEW o \in Prios
      PROVE  /\ IsInjective(r[o])
             /\ ToSet(r[o]) = {u \in Ix : st2[u] = "READY" /\ pr[u] = o}
  <2>1. CASE o = p
    <3>1. {u \in Ix : st2[u] = "READY" /\ pr[u] = p}
            = {u \in Ix : st[u] = "READY" /\ pr[u] = p} \ {t}
      BY <1>5
    <3> QED BY <1>1, <1>2, <1>4, <2>1, <3>1
  <2>2. CASE o # p
    <3>1. {u \in Ix : st2[u] = "READY" /\ pr[u] = o}
            = {u \in Ix : st[u] = "READY" /\ pr[u] = o}
      BY <1>3, <1>5, <2>2
    <3>2. /\ IsInjective(q[o])
          /\ ToSet(q[o]) = {u \in Ix : st[u] = "READY" /\ pr[u] = o}
      BY DEF Sched, Holds
    <3> QED BY <1>4, <2>2, <3>1, <3>2
  <2> QED BY <2>1, <2>2
<1>7. Holds(r, st2, pr)
  BY <1>4, <1>6 DEF Holds
<1>8. DeqBits(q, ne, p) = NonEmpty(r)
  BY <1>1, <1>4 DEF DeqBits, NonEmpty
<1>9. n - 1 = CountOf(st2, "READY") /\ n - 1 \in Int
  <2>1. st \in [Ix -> States] /\ t \in Ix /\ st[t] = "READY"
    BY <1>1, <1>2, <1>3
  <2>2. CountOf(SetTo(st, t, "ACTIVE"), "READY") = CountOf(st, "READY") - 1
    BY <2>1, CountChange
  <2> QED BY <1>1, <2>2 DEF st2
<1> QED
  BY <1>1, <1>2, <1>3, <1>5, <1>7, <1>8, <1>9 DEF Sched, r, st2, t

\* st and pr differ from the present states and priorities only for tasks
\* that are READY neither before nor after.
OnlyUnready(st, pr) ==
    /\ st \in [Ix -> States]
    /\ pr \in [Ix -> Prios]
    /\ \A t \in Ix : \/ st[t] = state[t] /\ pr[t] = prio[t]
                     \/ st[t] # "READY" /\ state[t] # "READY"

LEMMA SchedUnready ==
    ASSUME SchedInv, NEW st, NEW pr, OnlyUnready(st, pr)
    PROVE  Sched(rdy_queues, rdy_queue_ne, rdy_count, st, pr)
<1>1. Holds(rdy_queues, st, pr)
  BY SameReady DEF SchedInv, Sched, OnlyUnready
<1>2. CountOf(st, "READY") = CountOf(state, "READY")
  BY SameCount DEF OnlyUnready
<1> QED
  BY <1>1, <1>2 DEF SchedInv, Sched, OnlyUnready

\* The action task_ready
LEMMA ReadyOne ==
    ASSUME SchedInv, NEW t \in Ix, NEW st, NEW nq,
           st[t] # "READY", OnlyUnready(st, prio),
           task_ready(t, st, nq, prio), prio' = prio
    PROVE  SchedInv'
<1>1. Sched(rdy_queues, rdy_queue_ne, rdy_count, st, prio)
  BY SchedUnready
<1>2. Sched(Enq(rdy_queues, prio[t], t), rdy_queue_ne \cup {prio[t]},
            rdy_count + 1, SetTo(st, t, "READY"), prio)
  BY <1>1, ReadyStep
<1>3. /\ rdy_queues' = Enq(rdy_queues, prio[t], t)
      /\ rdy_queue_ne' = rdy_queue_ne \cup {prio[t]}
      /\ rdy_count' = rdy_count + 1
      /\ state' = SetTo(st, t, "READY")
  BY DEF task_ready, Enq, SetTo
<1> QED
  BY <1>2, <1>3 DEF SchedInv

\* The action task_ready2
LEMMA ReadyTwo ==
    ASSUME SchedInv, NEW t \in Ix, NEW u \in Ix, t # u, NEW st, NEW nq, NEW pr,
           st[t] # "READY", st[u] # "READY", OnlyUnready(st, pr),
           task_ready2(t, u, st, nq, pr), prio' = pr
    PROVE  SchedInv'
<1> DEFINE q1  == Enq(rdy_queues, pr[t], t)
           st1 == SetTo(st, t, "READY")
<1>1. Sched(rdy_queues, rdy_queue_ne, rdy_count, st, pr)
  BY SchedUnready
<1>2. Sched(q1, rdy_queue_ne \cup {pr[t]}, rdy_count + 1, st1, pr)
  BY <1>1, ReadyStep
<1>3. st1[u] # "READY"
  BY <1>1 DEF SetTo, Sched
<1>4. Sched(Enq(q1, pr[u], u), (rdy_queue_ne \cup {pr[t]}) \cup {pr[u]},
            (rdy_count + 1) + 1, SetTo(st1, u, "READY"), pr)
  <2> HIDE DEF q1, st1
  <2> QED BY <1>2, <1>3, ReadyStep
<1>5. /\ rdy_queues' = Enq(q1, pr[u], u)
      /\ rdy_queue_ne' = (rdy_queue_ne \cup {pr[t]}) \cup {pr[u]}
      /\ state' = SetTo(st1, u, "READY")
  BY DEF task_ready2, Enq, SetTo
<1>6. rdy_count' = (rdy_count + 1) + 1
  BY DEF task_ready2, SchedInv, Sched
<1> QED
  BY <1>4, <1>5, <1>6 DEF SchedInv

\* The invariant's statements about the same data
LEMMA SchedInvMeaning ==
    TypeOK => (SchedInv <=> /\ ReadyQueuesExact
                            /\ rdy_count = Cardinality(InState("READY"))
                            /\ rdy_queue_ne = {p \in Prios : rdy_queues[p] # <<>>})
BY DEF TypeOK, SchedInv, Sched, Holds, ReadyQueuesExact, CountOf, InState, NonEmpty

LEMMA SchedInvTypes ==
    SchedInv => /\ state \in [Ix -> States]
                /\ prio \in [Ix -> Prios]
                /\ rdy_queues \in [Prios -> Seq(Ix)]
                /\ rdy_queue_ne \in SUBSET Prios
                /\ rdy_count \in Int
BY DEF SchedInv, Sched, Holds, NonEmpty

\* The running task, in a handler
LEMMA ActiveFacts ==
    ASSUME KernelInv, phase = "user"
    PROVE  /\ active \in Ix
           /\ state[active] = "ACTIVE"
           /\ ~ in_queue[active]
           /\ irq[active] \in Irqs => evt_tid[irq[active]] # NoTid
<1>1. active \in Ix /\ state[active] = "ACTIVE"
  BY DEF KernelInv, TypeOK, Running
<1>2. ~ in_queue[active]
  BY <1>1 DEF KernelInv, QueueDiscipline, QueueMarksExact
<1>3. ASSUME irq[active] \in Irqs PROVE evt_tid[irq[active]] # NoTid
  <2>1. irq[active] # NoIrq
    BY <1>3, IrqAssumption
  <2>2. evt_tid[irq[active]] = TASK_TID(active)
    BY <1>1, <2>1 DEF KernelInv, EventOwnership
  <2>3. active # -1
    BY <1>1, IxFacts DEF NoTask
  <2> QED BY <2>2, <2>3 DEF TASK_TID, NoTid
<1> QED BY <1>1, <1>2, <1>3

\* The same of the next state
LEMMA SchedInvTypesNext ==
    SchedInv' => /\ state' \in [Ix -> States]
                 /\ prio' \in [Ix -> Prios]
                 /\ rdy_queues' \in [Prios -> Seq(Ix)]
                 /\ rdy_queue_ne' \in SUBSET Prios
                 /\ rdy_count' \in Int
BY DEF SchedInv, Sched, Holds, NonEmpty

-----------------------------------------------------------------------------
(* The inductive invariant, action by action *)

\* KernelInv, arranged for the proofs
Parts == /\ TypeOK
         /\ NoAssertFails
         /\ Running
         /\ SchedInv
         /\ FreeListExact
         /\ SendQueuesSound
         /\ QueueMarksExact
         /\ evblk_count = CountOf(state, "EVENT_BLOCKED")
         /\ EventOwnership

LEMMA KernelInvParts == KernelInv <=> Parts
BY SchedInvMeaning
   DEF KernelInv, Parts, QueueDiscipline, CountersExact, CountOf, InState

LEMMA KernelInvPartsNext == KernelInv' <=> Parts'
BY KernelInvParts, PTL

\* A handler that only readies its caller
LEMMA ResumeStep ==
    ASSUME KernelInv, phase = "user", Resume,
           UNCHANGED <<identVars, ipcVars, eventVars>>,
           shutdown' \in BOOLEAN, busy' \in BOOLEAN, pending' \in SUBSET Irqs,
           cleanup' \in [Ix -> Tids \cup {NoTid}]
    PROVE  KernelInv'
<1> DEFINE a == active
<1>1. Parts
  BY KernelInvParts
<1>2. a \in Ix /\ state[a] = "ACTIVE" /\ ~ in_queue[a] /\ a # NoTask
  BY ActiveFacts, IxFacts
<1>3. ToKernel /\ task_ready(a, state, in_queue, prio)
  BY <1>2 DEF Resume
<1>4. OnlyUnready(state, prio)
  BY <1>1 DEF Parts, SchedInv, Sched, OnlyUnready
<1>5. SchedInv'
  BY <1>1, <1>2, <1>3, <1>4, ReadyOne DEF Parts, identVars
<1>6. /\ state' = [state EXCEPT ![a] = "READY"]
      /\ in_queue' = [in_queue EXCEPT ![a] = TRUE]
      /\ state \in [Ix -> States] /\ in_queue \in [Ix -> BOOLEAN]
      /\ phase' = "kern" /\ active' = NoTask
  BY <1>1, <1>3 DEF Parts, TypeOK, task_ready, ToKernel
<1>7. TypeOK'
  BY <1>1, <1>5, <1>6, SchedInvTypes
     DEF Parts, TypeOK, identVars, ipcVars, eventVars, SchedInv, Sched, Holds, NonEmpty
<1>8. NoAssertFails' /\ Running'
  BY <1>1, <1>2, <1>6, IxFacts DEF Parts, NoAssertFails, Running
<1>9. FreeListExact'
  BY <1>1, <1>2, <1>6 DEF Parts, FreeListExact, identVars
<1>10. SendQueuesSound'
  BY <1>1, <1>2, <1>6 DEF Parts, SendQueuesSound, ipcVars
<1>11. QueueMarksExact'
  BY <1>1, <1>2, <1>6 DEF Parts, QueueMarksExact
<1>12. CountOf(state', "EVENT_BLOCKED") = CountOf(state, "EVENT_BLOCKED")
  BY <1>2, <1>6, SameCount
<1>13. EventOwnership'
  BY <1>1, <1>2, <1>6
     DEF Parts, EventOwnership, eventVars, identVars, IsTask, TASK_TID, InState
<1>14. Parts'
  BY <1>1, <1>5, <1>7, <1>8, <1>9, <1>10, <1>11, <1>12, <1>13 DEF Parts, eventVars
<1> QED BY <1>14, KernelInvPartsNext

\* A system call that can only ready its caller
LEMMA QueryLikeStep ==
    ASSUME KernelInv,
           \/ Query \/ RegisterCleanup \/ Shutdown
           \/ \E p \in CreatePrios : CreateFails(p)
           \/ \E tid \in TidArgs : SendFails(tid) \/ ReplyFails(tid)
           \/ \E i \in Irqs \cup {NoIrq} : RegisterEventFails(i)
    PROVE  KernelInv'
<1>1. /\ phase = "user"
      /\ Resume
      /\ UNCHANGED <<identVars, ipcVars, eventVars, intcVars>>
      /\ shutdown' \in {shutdown, TRUE}
      /\ cleanup' \in {cleanup, [cleanup EXCEPT ![active] = TASK_TID(active)]}
  BY DEF Query, RegisterCleanup, Shutdown, CreateFails, SendFails, ReplyFails,
         RegisterEventFails, Calling, miscVars, eventVars
<1>2. active \in Ix
  BY <1>1, ActiveFacts
<1>3. TASK_TID(active) \in Tids
  BY <1>2 DEF KernelInv, TypeOK, TASK_TID, Tids
<1>4. /\ shutdown' \in BOOLEAN /\ busy' \in BOOLEAN /\ pending' \in SUBSET Irqs
      /\ cleanup' \in [Ix -> Tids \cup {NoTid}]
  BY <1>1, <1>2, <1>3 DEF KernelInv, TypeOK, intcVars
<1> QED BY <1>1, <1>4, ResumeStep

\* kern_handle_irq when the callback answers -1
LEMMA IrqIgnoredStep ==
    ASSUME KernelInv, NEW i \in Irqs, IrqIgnored(i)
    PROVE  KernelInv'
<1>1. phase = "user" /\ i \in enabled /\ TypeOK
  BY DEF IrqIgnored, IrqRaised, KernelInv
<1>2. ~ in_queue[active]
  BY <1>1, ActiveFacts
<1>3. evt_tid[i] # NoTid
  <2>1. PICK t \in InState("EVENT_BLOCKED") : irq[t] = i
    BY <1>1 DEF KernelInv, EventOwnership
  <2>2. t \in Ix /\ state[t] = "EVENT_BLOCKED" /\ irq[t] # NoIrq
    BY <2>1, IrqAssumption DEF InState
  <2>3. evt_tid[i] = TASK_TID(t)
    BY <2>1, <2>2 DEF KernelInv, EventOwnership
  <2>4. t # -1
    BY <2>2, IxFacts DEF NoTask
  <2> QED BY <2>3, <2>4 DEF TASK_TID, NoTid
<1>4. /\ ToKernel
      /\ task_ready(active, state, in_queue, prio)
      /\ pending' = pending \ {i}
      /\ busy' = TRUE
      /\ UNCHANGED <<identVars, ipcVars, eventVars, miscVars>>
  BY <1>2, <1>3 DEF IrqIgnored
<1>5. Resume
  BY <1>2, <1>4 DEF Resume
<1>6. /\ shutdown' \in BOOLEAN /\ busy' \in BOOLEAN /\ pending' \in SUBSET Irqs
      /\ cleanup' \in [Ix -> Tids \cup {NoTid}]
  BY <1>1, <1>4 DEF TypeOK, miscVars
<1> QED BY <1>1, <1>4, <1>5, <1>6, ResumeStep

\* task_schedule, whose asserts hold because the idle task is READY
LEMMA ScheduleStep ==
    ASSUME KernelInv, Schedule
    PROVE  KernelInv'
<1> DEFINE p == Min(rdy_queue_ne)
           t == Head(rdy_queues[p])
<1>1. Parts /\ phase = "kern"
  BY KernelInvParts DEF Schedule
<1>2. /\ rdy_queues \in [Prios -> Seq(Ix)] /\ prio \in [Ix -> Prios]
      /\ rdy_queue_ne = NonEmpty(rdy_queues)
      /\ rdy_count = CountOf(state, "READY")
      /\ Holds(rdy_queues, state, prio)
  BY <1>1 DEF Parts, SchedInv, Sched, Holds
<1>3. IdleIx \in Ix /\ state[IdleIx] = "READY"
  BY <1>1, IxFacts DEF Parts, Running
<1>4. rdy_queues[prio[IdleIx]] # <<>> /\ prio[IdleIx] \in Prios
  <2>1. IdleIx \in ToSet(rdy_queues[prio[IdleIx]])
    BY <1>2, <1>3 DEF Holds
  <2> QED BY <1>2, <1>3, <2>1, EmptyFacts
<1>5. rdy_queue_ne # {} /\ rdy_queue_ne \in SUBSET Prios
  BY <1>2, <1>4 DEF NonEmpty
<1>6. p \in Prios /\ rdy_queues[p] # <<>>
  BY <1>2, <1>5, MinProperties DEF NonEmpty
<1>7. rdy_count > 0
  <2> DEFINE A == {u \in Ix : state[u] = "READY"}
  <2>1. IsFiniteSet(A) /\ A # {}
    BY <1>3, IxFacts, FS_Subset
  <2>2. Cardinality(A) \in Nat /\ Cardinality(A) # 0
    BY <2>1, FS_CardinalityType, FS_EmptySet
  <2> QED BY <1>2, <2>2 DEF CountOf
<1>8. /\ t \in Ix /\ state[t] = "READY"
      /\ Sched(Deq(rdy_queues, p), DeqBits(rdy_queues, rdy_queue_ne, p),
               rdy_count - 1, SetTo(state, t, "ACTIVE"), prio)
  BY <1>1, <1>6, DispatchStep DEF Parts, SchedInv
<1>9. Dispatch
  BY <1>5, <1>6, <1>7, <1>8 DEF Schedule, ScheduleAsserts
<1>10. /\ rdy_queues' = Deq(rdy_queues, p)
       /\ rdy_queue_ne' = DeqBits(rdy_queues, rdy_queue_ne, p)
       /\ rdy_count' = rdy_count - 1
       /\ state' = [state EXCEPT ![t] = "ACTIVE"]
       /\ state' = SetTo(state, t, "ACTIVE")
       /\ in_queue' = [in_queue EXCEPT ![t] = FALSE]
       /\ phase' = "user" /\ active' = t
       /\ UNCHANGED <<identVars, ipcVars, eventVars, intcVars, miscVars>>
  BY <1>9 DEF Dispatch, Deq, DeqBits, SetTo
<1> HIDE DEF p, t
<1>11. SchedInv'
  BY <1>8, <1>10 DEF SchedInv, identVars
<1>12. /\ state \in [Ix -> States] /\ in_queue \in [Ix -> BOOLEAN]
       /\ TypeOK
  BY <1>1 DEF Parts, TypeOK
<1>13. TypeOK'
  BY <1>8, <1>10, <1>11, <1>12, SchedInvTypes
     DEF TypeOK, SchedInv, Sched, Holds, NonEmpty, identVars, ipcVars, eventVars,
         intcVars, miscVars
<1>14. NoAssertFails' /\ Running'
  <2>1. active = NoTask /\ \A u \in Ix : state[u] # "ACTIVE"
    BY <1>1, IxFacts DEF Parts, Running
  <2> QED
    BY <1>3, <1>8, <1>10, <1>12, <2>1, IxFacts DEF NoAssertFails, Running
<1>15. FreeListExact'
  BY <1>1, <1>8, <1>10, <1>12 DEF Parts, FreeListExact, identVars
<1>16. SendQueuesSound'
  BY <1>1, <1>8, <1>10, <1>12 DEF Parts, SendQueuesSound, ipcVars
<1>17. QueueMarksExact'
  BY <1>1, <1>8, <1>10, <1>12 DEF Parts, QueueMarksExact
<1>18. CountOf(state', "EVENT_BLOCKED") = CountOf(state, "EVENT_BLOCKED")
  <2>1. \A u \in Ix : state'[u] = "EVENT_BLOCKED" <=> state[u] = "EVENT_BLOCKED"
    BY <1>8, <1>10, <1>12
  <2> QED BY <2>1, SameCount
<1>19. EventOwnership'
  BY <1>1, <1>8, <1>10, <1>12
     DEF Parts, EventOwnership, eventVars, identVars, IsTask, TASK_TID, InState
<1>20. Parts'
  BY <1>1, <1>10, <1>11, <1>13, <1>14, <1>15, <1>16, <1>17, <1>18, <1>19
     DEF Parts, eventVars
<1> QED BY <1>20, KernelInvPartsNext

\* The steps that change no task: the end of the loop, a panic, a device
LEMMA QuietStep ==
    ASSUME KernelInv,
           \/ Halt \/ SkipSchedule \/ Panic \/ FpuTrap \/ Terminated
           \/ \E i \in Irqs : DeviceAssert(i)
           \/ UNCHANGED vars
    PROVE  KernelInv'
<1>1. /\ UNCHANGED <<active, schedVars, identVars, ipcVars, irq, evt_tid,
                    evblk_count, busy, miscVars>>
      /\ \/ phase' = phase /\ UNCHANGED enabled
         \/ phase \in {"user", "retry"} /\ phase' \in {"user", "retry"} /\ UNCHANGED enabled
         \/ phase' = "halted" /\ enabled' = {}
         \/ phase' = "panic" /\ UNCHANGED enabled
      /\ pending' = pending \/ \E i \in Irqs : pending' = pending \cup {i}
  BY DEF Halt, SkipSchedule, Panic, FpuTrap, Calling, Terminated, DeviceAssert, vars, eventVars, intcVars, miscVars
<1>2. TypeOK' /\ NoAssertFails' /\ Running'
  BY <1>1 DEF KernelInv, TypeOK, NoAssertFails, Running, schedVars, identVars,
              ipcVars, miscVars
<1>3. QueueDiscipline'
  BY <1>1 DEF KernelInv, QueueDiscipline, ReadyQueuesExact, FreeListExact,
              SendQueuesSound, QueueMarksExact, schedVars, identVars, ipcVars
<1>4. CountersExact'
  BY <1>1 DEF KernelInv, CountersExact, InState, schedVars
<1>5. EventOwnership'
  BY <1>1 DEF KernelInv, EventOwnership, InState, IsTask, TASK_TID, schedVars, identVars
<1> QED BY <1>2, <1>3, <1>4, <1>5 DEF KernelInv

\* task_create: the child comes off the free list and child and parent
\* become READY.
LEMMA CreateStep ==
    ASSUME KernelInv, NEW p, Create(p)
    PROVE  KernelInv'
<1> DEFINE a  == active
           t  == Head(free_tasks)
           pr == [prio EXCEPT ![t] = p]
<1>1. Parts /\ phase = "user" /\ p \in Prios /\ free_tasks # <<>>
  BY KernelInvParts DEF Create, Calling
<1>2. a \in Ix /\ state[a] = "ACTIVE" /\ ~ in_queue[a] /\ a # NoTask
  BY <1>1, ActiveFacts, IxFacts
<1>3. /\ t \in Ix
      /\ t \in ToSet(free_tasks)
      /\ Tail(free_tasks) \in Seq(Ix)
      /\ IsInjective(Tail(free_tasks))
      /\ ToSet(Tail(free_tasks)) = ToSet(free_tasks) \ {t}
  BY <1>1, TailFacts DEF Parts, TypeOK, FreeListExact
<1>4. state[t] = "FREE" /\ t # a
  BY <1>1, <1>2, <1>3 DEF Parts, FreeListExact
<1>5. NewTask(t, p)
  BY <1>1, <1>2, <1>4 DEF Create
<1> HIDE DEF t
<1>6. /\ phase' = "kern" /\ active' = NoTask
      /\ free_tasks' = Tail(free_tasks)
      /\ prio' = pr
      /\ cleanup' = [cleanup EXCEPT ![t] = NoTid]
      /\ irq' = [irq EXCEPT ![t] = NoIrq]
      /\ senders' = [senders EXCEPT ![t] = <<>>]
      /\ task_ready2(t, a, state, [in_queue EXCEPT ![t] = FALSE], pr)
      /\ UNCHANGED <<tid_seq, send_to, evt_tid, enabled, evblk_count, intcVars,
                     shutdown>>
  BY <1>5 DEF NewTask, ToKernel, t
<1>7. TypeOK
  BY <1>1 DEF Parts
<1>8. pr \in [Ix -> Prios] /\ OnlyUnready(state, pr)
  BY <1>1, <1>3, <1>4, <1>7 DEF TypeOK, OnlyUnready
<1>9. SchedInv'
  <2> HIDE DEF pr
  <2> QED BY <1>1, <1>2, <1>3, <1>4, <1>6, <1>8, ReadyTwo DEF Parts
<1>10. /\ state' = [state EXCEPT ![t] = "READY", ![a] = "READY"]
       /\ in_queue' = [[in_queue EXCEPT ![t] = FALSE] EXCEPT ![t] = TRUE, ![a] = TRUE]
       /\ state \in [Ix -> States] /\ in_queue \in [Ix -> BOOLEAN]
  BY <1>6, <1>7 DEF task_ready2, TypeOK
<1> HIDE DEF pr
<1>11. TypeOK'
  <2>1. /\ senders' \in [Ix -> Seq(Ix)]
        /\ irq' \in [Ix -> Irqs \cup {NoIrq}]
        /\ cleanup' \in [Ix -> Tids \cup {NoTid}]
        /\ in_queue' \in [Ix -> BOOLEAN]
    BY <1>2, <1>3, <1>6, <1>7, <1>10 DEF TypeOK
  <2> QED
    BY <1>3, <1>6, <1>7, <1>9, <2>1, SchedInvTypes
       DEF TypeOK, intcVars, SchedInv, Sched, Holds, NonEmpty
<1>12. NoAssertFails' /\ Running'
  BY <1>1, <1>2, <1>3, <1>4, <1>6, <1>10, IxFacts DEF Parts, NoAssertFails, Running
<1>13. FreeListExact'
  BY <1>1, <1>2, <1>3, <1>4, <1>6, <1>10 DEF Parts, FreeListExact
<1>14. SendQueuesSound'
  BY <1>1, <1>2, <1>3, <1>4, <1>6, <1>7, <1>10, EmptyFacts
     DEF Parts, SendQueuesSound, TypeOK
<1>15. QueueMarksExact'
  BY <1>1, <1>2, <1>3, <1>4, <1>10 DEF Parts, QueueMarksExact
<1>16. CountOf(state', "EVENT_BLOCKED") = CountOf(state, "EVENT_BLOCKED")
  <2>1. \A u \in Ix : state'[u] = "EVENT_BLOCKED" <=> state[u] = "EVENT_BLOCKED"
    BY <1>2, <1>3, <1>4, <1>10
  <2> QED BY <2>1, SameCount
<1>17. EventOwnership'
  BY <1>1, <1>2, <1>3, <1>4, <1>6, <1>7, <1>10, IrqAssumption
     DEF Parts, EventOwnership, IsTask, TASK_TID, InState, TypeOK, Tids, NoTid
<1>18. Parts'
  BY <1>1, <1>6, <1>9, <1>11, <1>12, <1>13, <1>14, <1>15, <1>16, <1>17 DEF Parts
<1> QED BY <1>18, KernelInvPartsNext

\* task_free, with evt_unregister, for Exit and for an undefined instruction
LEMMA FreeStep ==
    ASSUME KernelInv, Exit \/ KillUndef
    PROVE  KernelInv'
<1> DEFINE a == active
<1>1. Parts /\ phase = "user" /\ a # IdleIx
  BY KernelInvParts DEF Exit, KillUndef, Calling
<1>2. a \in Ix /\ state[a] = "ACTIVE" /\ ~ in_queue[a] /\ a # NoTask
  BY <1>1, ActiveFacts, IxFacts
<1>3. task_free
  BY <1>1, ActiveFacts DEF Exit, KillUndef, FreeAsserts
<1>4. /\ phase' = "kern" /\ active' = NoTask
      /\ state' = [state EXCEPT ![a] = "FREE"]
      /\ tid_seq' = [tid_seq EXCEPT ![a] = (@ + 1) % SeqCount]
      /\ evt_tid' = [i \in Irqs |-> IF i = irq[a] THEN NoTid ELSE evt_tid[i]]
      /\ enabled' = enabled \ {irq[a]}
      /\ in_queue' = [in_queue EXCEPT ![a] = TRUE]
      /\ free_tasks' = Append(free_tasks, a)
      /\ UNCHANGED <<prio, rdy_queues, rdy_queue_ne, rdy_count, ipcVars, irq,
                     evblk_count, intcVars, miscVars>>
  BY <1>3 DEF task_free, ToKernel
<1>5. TypeOK /\ state \in [Ix -> States]
  BY <1>1 DEF Parts, TypeOK
<1>6. OnlyUnready(state', prio)
  BY <1>2, <1>4, <1>5 DEF TypeOK, OnlyUnready, States
<1>7. SchedInv'
  BY <1>1, <1>4, <1>6, SchedUnready DEF Parts, SchedInv
<1>8. a \notin ToSet(free_tasks) /\ free_tasks \in Seq(Ix)
  BY <1>1, <1>2, <1>5 DEF Parts, FreeListExact, TypeOK
<1>9. /\ free_tasks' \in Seq(Ix)
      /\ IsInjective(free_tasks')
      /\ ToSet(free_tasks') = ToSet(free_tasks) \cup {a}
  BY <1>1, <1>2, <1>4, <1>8, AppendFacts DEF Parts, FreeListExact
<1>10. tid_seq' \in [Ix -> Seqs]
  <2>1. tid_seq[a] \in Nat
    BY <1>2, <1>5 DEF TypeOK, Seqs
  <2>2. (tid_seq[a] + 1) % SeqCount \in Seqs
    BY <2>1, SizeAssumption DEF Seqs
  <2> QED BY <1>4, <1>5, <2>2 DEF TypeOK
<1>11. TypeOK'
  BY <1>2, <1>4, <1>5, <1>7, <1>9, <1>10, SchedInvTypes
     DEF TypeOK, ipcVars, intcVars, miscVars, States
<1>12. NoAssertFails' /\ Running'
  BY <1>1, <1>2, <1>4, <1>5, IxFacts DEF Parts, NoAssertFails, Running
<1>13. FreeListExact'
  BY <1>1, <1>2, <1>4, <1>5, <1>9 DEF Parts, FreeListExact
<1>14. SendQueuesSound'
  BY <1>1, <1>2, <1>4, <1>5 DEF Parts, SendQueuesSound, ipcVars
<1>15. QueueMarksExact'
  BY <1>1, <1>2, <1>4, <1>5 DEF Parts, QueueMarksExact, TypeOK
<1>16. CountOf(state', "EVENT_BLOCKED") = CountOf(state, "EVENT_BLOCKED")
  <2>1. \A u \in Ix : state'[u] = "EVENT_BLOCKED" <=> state[u] = "EVENT_BLOCKED"
    BY <1>2, <1>4, <1>5
  <2> QED BY <2>1, SameCount
<1>17. EventOwnership'
  <2>1. ASSUME NEW i \in Irqs, evt_tid'[i] # NoTid
        PROVE  IsTask(evt_tid[i])' /\ irq'[evt_tid'[i].ix] = i
    <3>1. i # irq[a] /\ evt_tid'[i] = evt_tid[i] /\ evt_tid[i] # NoTid
      BY <1>4, <2>1
    <3>2. IsTask(evt_tid[i]) /\ irq[evt_tid[i].ix] = i
      BY <1>1, <3>1 DEF Parts, EventOwnership
    <3>3. evt_tid[i].ix # a
      BY <3>1, <3>2
    <3> QED BY <1>2, <1>4, <1>5, <3>1, <3>2, <3>3 DEF IsTask, TypeOK
  <2>2. ASSUME NEW t \in Ix, state'[t] # "FREE", irq'[t] # NoIrq
        PROVE  evt_tid'[irq'[t]] = TASK_TID(t)'
    <3>1. t # a /\ state[t] # "FREE" /\ irq[t] # NoIrq /\ irq' = irq
      BY <1>2, <1>4, <1>5, <2>2
    <3>2. evt_tid[irq[t]] = TASK_TID(t) /\ irq[t] \in Irqs
      BY <1>1, <1>5, <3>1 DEF Parts, EventOwnership, TypeOK
    <3>3. irq[a] # irq[t]
      <4>1. irq[a] # NoIrq => evt_tid[irq[a]] = TASK_TID(a)
        BY <1>1, <1>2 DEF Parts, EventOwnership
      <4> QED BY <3>1, <3>2, <4>1 DEF TASK_TID
    <3> QED BY <1>4, <1>5, <3>1, <3>2, <3>3 DEF TASK_TID, TypeOK
  <2>3. enabled' = {irq'[t] : t \in InState("EVENT_BLOCKED")'}
    <3>1. enabled = {irq[t] : t \in InState("EVENT_BLOCKED")}
      BY <1>1 DEF Parts, EventOwnership
    <3>2. InState("EVENT_BLOCKED")' = InState("EVENT_BLOCKED") /\ irq' = irq
      BY <1>2, <1>4, <1>5 DEF InState
    <3>3. ASSUME NEW t \in InState("EVENT_BLOCKED") PROVE irq[t] # irq[a]
      <4>1. t \in Ix /\ t # a /\ state[t] = "EVENT_BLOCKED"
        BY <1>2, <3>3 DEF InState
      <4>2. irq[t] \in Irqs /\ irq[t] # NoIrq
        BY <1>5, <3>1, IrqAssumption DEF TypeOK
      <4>3. evt_tid[irq[t]] = TASK_TID(t)
        BY <1>1, <4>1, <4>2 DEF Parts, EventOwnership
      <4>4. irq[a] # NoIrq => evt_tid[irq[a]] = TASK_TID(a)
        BY <1>1, <1>2 DEF Parts, EventOwnership
      <4> QED BY <4>1, <4>2, <4>3, <4>4 DEF TASK_TID
    <3> QED BY <1>4, <3>1, <3>2, <3>3
  <2> QED BY <2>1, <2>2, <2>3 DEF EventOwnership
<1>18. Parts'
  BY <1>1, <1>4, <1>7, <1>11, <1>12, <1>13, <1>14, <1>15, <1>16, <1>17 DEF Parts
<1> QED BY <1>18, KernelInvPartsNext

\* ipc_send_start with a receiver in Receive
LEMMA SendRendezvousStep ==
    ASSUME KernelInv, NEW tid \in TidArgs, SendRendezvous(tid)
    PROVE  KernelInv'
<1> DEFINE a  == active
           r  == tid.ix
           st == [state EXCEPT ![a] = "REPLY_BLOCKED"]
<1>1. Parts /\ phase = "user" /\ a # IdleIx
  BY KernelInvParts DEF SendRendezvous, Calling
<1>2. a \in Ix /\ state[a] = "ACTIVE" /\ ~ in_queue[a] /\ a # NoTask
  BY <1>1, ActiveFacts, IxFacts
<1>3. r \in Ix /\ state[r] = "SEND_BLOCKED" /\ r # a
  BY <1>2 DEF SendRendezvous, IsTask
<1>4. ~ in_queue[r]
  BY <1>1, <1>3 DEF Parts, QueueMarksExact
<1>5. /\ phase' = "kern" /\ active' = NoTask
      /\ send_to' = [send_to EXCEPT ![a] = tid]
      /\ task_ready(r, st, in_queue, prio)
      /\ UNCHANGED <<identVars, senders, eventVars, intcVars, miscVars>>
  BY <1>4 DEF SendRendezvous, ToKernel
<1>6. TypeOK /\ state \in [Ix -> States] /\ tid \in Tids \cup {NoTid}
  BY <1>1 DEF Parts, TypeOK, TidArgs
<1>7. OnlyUnready(st, prio) /\ st[r] # "READY"
  BY <1>2, <1>3, <1>6 DEF TypeOK, OnlyUnready, States
<1>8. SchedInv'
  <2> HIDE DEF st
  <2> QED BY <1>1, <1>3, <1>5, <1>7, ReadyOne DEF Parts, identVars
<1>9. /\ state' = [st EXCEPT ![r] = "READY"]
      /\ in_queue' = [in_queue EXCEPT ![r] = TRUE]
  BY <1>5 DEF task_ready
<1>10. TypeOK'
  BY <1>2, <1>3, <1>5, <1>6, <1>8, <1>9, SchedInvTypes
     DEF TypeOK, identVars, eventVars, intcVars, miscVars, SchedInv, Sched, Holds,
         NonEmpty
<1>11. NoAssertFails' /\ Running'
  BY <1>1, <1>2, <1>3, <1>5, <1>6, <1>9, IxFacts DEF Parts, NoAssertFails, Running
<1>12. FreeListExact'
  BY <1>1, <1>2, <1>3, <1>5, <1>6, <1>9 DEF Parts, FreeListExact, identVars
<1>13. SendQueuesSound'
  <2> SUFFICES ASSUME NEW o \in Ix
               PROVE  /\ IsInjective(senders'[o])
                      /\ \A s \in ToSet(senders'[o]) :
                            state'[s] = "RECEIVE_BLOCKED" /\ send_to'[s].ix = o
    BY DEF SendQueuesSound
  <2>1. /\ IsInjective(senders[o])
        /\ \A s \in ToSet(senders[o]) :
              state[s] = "RECEIVE_BLOCKED" /\ send_to[s].ix = o
    BY <1>1 DEF Parts, SendQueuesSound
  <2>2. ToSet(senders[o]) \subseteq Ix
    BY <1>6, RangeSubset DEF TypeOK
  <2>3. \A s \in ToSet(senders[o]) : s # a /\ s # r
    BY <1>2, <1>3, <2>1
  <2>4. \A s \in ToSet(senders[o]) :
           state'[s] = state[s] /\ send_to'[s] = send_to[s]
    BY <1>2, <1>3, <1>5, <1>6, <1>9, <2>2, <2>3 DEF TypeOK
  <2> QED BY <1>5, <2>1, <2>4
<1>14. QueueMarksExact'
  BY <1>1, <1>2, <1>3, <1>5, <1>6, <1>9 DEF Parts, QueueMarksExact, TypeOK
<1>15. CountOf(state', "EVENT_BLOCKED") = CountOf(state, "EVENT_BLOCKED")
  <2>1. \A u \in Ix : state'[u] = "EVENT_BLOCKED" <=> state[u] = "EVENT_BLOCKED"
    BY <1>2, <1>3, <1>6, <1>9
  <2> QED BY <2>1, SameCount
<1>16. EventOwnership'
  BY <1>1, <1>2, <1>3, <1>5, <1>6, <1>9
     DEF Parts, EventOwnership, eventVars, identVars, IsTask, TASK_TID, InState
<1>17. Parts'
  BY <1>1, <1>5, <1>8, <1>10, <1>11, <1>12, <1>13, <1>14, <1>15, <1>16
     DEF Parts, eventVars
<1> QED BY <1>17, KernelInvPartsNext

\* ipc_send_start with a receiver that is not in Receive; the receiver may be
\* the sender itself
LEMMA SendEnqueueStep ==
    ASSUME KernelInv, NEW tid \in TidArgs, SendEnqueue(tid)
    PROVE  KernelInv'
<1> DEFINE a == active
           r == tid.ix
<1>1. Parts /\ phase = "user" /\ a # IdleIx
  BY KernelInvParts DEF SendEnqueue, Calling
<1>2. a \in Ix /\ state[a] = "ACTIVE" /\ ~ in_queue[a] /\ a # NoTask
  BY <1>1, ActiveFacts, IxFacts
<1>3. r \in Ix
  BY DEF SendEnqueue, IsTask
<1>4. /\ phase' = "kern" /\ active' = NoTask
      /\ state' = [state EXCEPT ![a] = "RECEIVE_BLOCKED"]
      /\ senders' = [senders EXCEPT ![r] = Append(@, a)]
      /\ in_queue' = [in_queue EXCEPT ![a] = TRUE]
      /\ send_to' = [send_to EXCEPT ![a] = tid]
      /\ UNCHANGED <<rdy_queues, rdy_queue_ne, rdy_count, identVars, eventVars,
                     intcVars, miscVars>>
  BY <1>2 DEF SendEnqueue, ToKernel
<1>5. TypeOK /\ state \in [Ix -> States] /\ tid \in Tids \cup {NoTid}
  BY <1>1 DEF Parts, TypeOK, TidArgs
<1>6. OnlyUnready(state', prio)
  BY <1>2, <1>4, <1>5 DEF TypeOK, OnlyUnready, States
<1>7. SchedInv'
  BY <1>1, <1>4, <1>6, SchedUnready DEF Parts, SchedInv, identVars
<1>8. /\ senders[r] \in Seq(Ix) /\ IsInjective(senders[r])
      /\ a \notin ToSet(senders[r])
  BY <1>1, <1>2, <1>3, <1>5 DEF Parts, SendQueuesSound, TypeOK
<1>9. /\ Append(senders[r], a) \in Seq(Ix)
      /\ IsInjective(Append(senders[r], a))
      /\ ToSet(Append(senders[r], a)) = ToSet(senders[r]) \cup {a}
  BY <1>2, <1>8, AppendFacts
<1>10. TypeOK'
  BY <1>2, <1>3, <1>4, <1>5, <1>7, <1>9, SchedInvTypes
     DEF TypeOK, identVars, eventVars, intcVars, miscVars, SchedInv, Sched
<1>11. NoAssertFails' /\ Running'
  BY <1>1, <1>2, <1>4, <1>5, IxFacts DEF Parts, NoAssertFails, Running
<1>12. FreeListExact'
  BY <1>1, <1>2, <1>4, <1>5 DEF Parts, FreeListExact, identVars
<1>13. SendQueuesSound'
  <2> SUFFICES ASSUME NEW o \in Ix
               PROVE  /\ IsInjective(senders'[o])
                      /\ \A s \in ToSet(senders'[o]) :
                            state'[s] = "RECEIVE_BLOCKED" /\ send_to'[s].ix = o
    BY DEF SendQueuesSound
  <2>1. /\ IsInjective(senders[o])
        /\ \A s \in ToSet(senders[o]) :
              /\ state[s] = "RECEIVE_BLOCKED" /\ send_to[s].ix = o
              /\ s # a /\ state'[s] = state[s] /\ send_to'[s] = send_to[s]
    BY <1>1, <1>2, <1>4, <1>5 DEF Parts, SendQueuesSound, TypeOK
  <2>2. state'[a] = "RECEIVE_BLOCKED" /\ send_to'[a] = tid
    BY <1>2, <1>4, <1>5 DEF TypeOK
  <2>3. CASE o = r
    BY <1>3, <1>4, <1>5, <1>9, <2>1, <2>2, <2>3 DEF TypeOK
  <2>4. CASE o # r
    BY <1>4, <1>5, <2>1, <2>4 DEF TypeOK
  <2> QED BY <2>3, <2>4
<1>14. QueueMarksExact'
  BY <1>1, <1>2, <1>4, <1>5 DEF Parts, QueueMarksExact, TypeOK
<1>15. CountOf(state', "EVENT_BLOCKED") = CountOf(state, "EVENT_BLOCKED")
  <2>1. \A u \in Ix : state'[u] = "EVENT_BLOCKED" <=> state[u] = "EVENT_BLOCKED"
    BY <1>2, <1>4, <1>5
  <2> QED BY <2>1, SameCount
<1>16. EventOwnership'
  BY <1>1, <1>2, <1>4, <1>5
     DEF Parts, EventOwnership, eventVars, identVars, IsTask, TASK_TID, InState
<1>17. Parts'
  BY <1>1, <1>4, <1>7, <1>10, <1>11, <1>12, <1>13, <1>14, <1>15, <1>16
     DEF Parts, eventVars
<1> QED BY <1>17, KernelInvPartsNext

\* ipc_receive_start with a sender waiting
LEMMA ReceiveRendezvousStep ==
    ASSUME KernelInv, ReceiveRendezvous
    PROVE  KernelInv'
<1> DEFINE a  == active
           s  == Head(senders[a])
           st == [state EXCEPT ![s] = "REPLY_BLOCKED"]
<1>1. Parts /\ phase = "user" /\ a # IdleIx /\ senders[a] # <<>>
  BY KernelInvParts DEF ReceiveRendezvous, Calling
<1>2. a \in Ix /\ state[a] = "ACTIVE" /\ ~ in_queue[a] /\ a # NoTask
  BY <1>1, ActiveFacts, IxFacts
<1>3. TypeOK /\ state \in [Ix -> States] /\ senders[a] \in Seq(Ix)
  BY <1>1, <1>2 DEF Parts, TypeOK
<1>4. /\ s \in Ix /\ s \in ToSet(senders[a])
      /\ Tail(senders[a]) \in Seq(Ix)
      /\ IsInjective(Tail(senders[a]))
      /\ ToSet(Tail(senders[a])) = ToSet(senders[a]) \ {s}
  BY <1>1, <1>2, <1>3, TailFacts DEF Parts, SendQueuesSound
<1>5. state[s] = "RECEIVE_BLOCKED" /\ send_to[s].ix = a /\ s # a
  BY <1>1, <1>2, <1>4 DEF Parts, SendQueuesSound
<1>6. /\ phase' = "kern" /\ active' = NoTask
      /\ senders' = [senders EXCEPT ![a] = Tail(@)]
      /\ task_ready(a, st, [in_queue EXCEPT ![s] = FALSE], prio)
      /\ UNCHANGED <<identVars, send_to, eventVars, intcVars, miscVars>>
  BY <1>2 DEF ReceiveRendezvous, ToKernel
<1> HIDE DEF s
<1>7. OnlyUnready(st, prio) /\ st[a] # "READY"
  BY <1>2, <1>3, <1>4, <1>5 DEF TypeOK, OnlyUnready, States
<1>8. SchedInv'
  <2> HIDE DEF st
  <2> QED BY <1>1, <1>2, <1>6, <1>7, ReadyOne DEF Parts, identVars
<1>9. /\ state' = [st EXCEPT ![a] = "READY"]
      /\ in_queue' = [[in_queue EXCEPT ![s] = FALSE] EXCEPT ![a] = TRUE]
  BY <1>6 DEF task_ready
<1>10. TypeOK'
  BY <1>2, <1>3, <1>4, <1>6, <1>8, <1>9, SchedInvTypes
     DEF TypeOK, identVars, eventVars, intcVars, miscVars, SchedInv, Sched, Holds,
         NonEmpty
<1>11. NoAssertFails' /\ Running'
  BY <1>1, <1>2, <1>3, <1>4, <1>5, <1>6, <1>9, IxFacts
     DEF Parts, NoAssertFails, Running
<1>12. FreeListExact'
  BY <1>1, <1>2, <1>3, <1>4, <1>5, <1>6, <1>9 DEF Parts, FreeListExact, identVars
<1>13. SendQueuesSound'
  <2> SUFFICES ASSUME NEW o \in Ix
               PROVE  /\ IsInjective(senders'[o])
                      /\ \A x \in ToSet(senders'[o]) :
                            state'[x] = "RECEIVE_BLOCKED" /\ send_to'[x].ix = o
    BY DEF SendQueuesSound
  <2>0. /\ \A x \in ToSet(senders[o]) :
              state[x] = "RECEIVE_BLOCKED" /\ send_to[x].ix = o
        /\ ToSet(senders[o]) \subseteq Ix
    BY <1>1, <1>3, RangeSubset DEF Parts, SendQueuesSound, TypeOK
  <2>1. \A x \in ToSet(senders[o]) :
           /\ state[x] = "RECEIVE_BLOCKED" /\ send_to[x].ix = o
           /\ x # s => state'[x] = state[x]
    BY <1>2, <1>3, <1>4, <1>9, <2>0
  <2>2. CASE o = a
    BY <1>2, <1>3, <1>4, <1>6, <2>1, <2>2 DEF TypeOK
  <2>3. CASE o # a
    <3>1. senders'[o] = senders[o] /\ s \notin ToSet(senders[o])
      BY <1>3, <1>5, <1>6, <2>1, <2>3 DEF TypeOK
    <3> QED BY <1>1, <1>6, <2>1, <3>1 DEF Parts, SendQueuesSound
  <2> QED BY <2>2, <2>3
<1>14. QueueMarksExact'
  BY <1>1, <1>2, <1>3, <1>4, <1>5, <1>9 DEF Parts, QueueMarksExact, TypeOK
<1>15. CountOf(state', "EVENT_BLOCKED") = CountOf(state, "EVENT_BLOCKED")
  <2>1. \A u \in Ix : state'[u] = "EVENT_BLOCKED" <=> state[u] = "EVENT_BLOCKED"
    BY <1>2, <1>3, <1>4, <1>5, <1>9
  <2> QED BY <2>1, SameCount
<1>16. EventOwnership'
  BY <1>1, <1>2, <1>3, <1>4, <1>5, <1>6, <1>9
     DEF Parts, EventOwnership, eventVars, identVars, IsTask, TASK_TID, InState
<1>17. Parts'
  BY <1>1, <1>6, <1>8, <1>10, <1>11, <1>12, <1>13, <1>14, <1>15, <1>16
     DEF Parts, eventVars
<1> QED BY <1>17, KernelInvPartsNext

\* ipc_receive_start with no sender waiting
LEMMA ReceiveBlocksStep ==
    ASSUME KernelInv, ReceiveBlocks
    PROVE  KernelInv'
<1> DEFINE a == active
<1>1. Parts /\ phase = "user" /\ a # IdleIx
  BY KernelInvParts DEF ReceiveBlocks, Calling
<1>2. a \in Ix /\ state[a] = "ACTIVE" /\ ~ in_queue[a] /\ a # NoTask
  BY <1>1, ActiveFacts, IxFacts
<1>3. /\ phase' = "kern" /\ active' = NoTask
      /\ state' = [state EXCEPT ![a] = "SEND_BLOCKED"]
      /\ UNCHANGED <<in_queue, rdy_queues, rdy_queue_ne, rdy_count, identVars,
                     ipcVars, eventVars, intcVars, miscVars>>
  BY DEF ReceiveBlocks, ToKernel
<1>4. TypeOK /\ state \in [Ix -> States]
  BY <1>1 DEF Parts, TypeOK
<1>5. OnlyUnready(state', prio)
  BY <1>2, <1>3, <1>4 DEF TypeOK, OnlyUnready, States
<1>6. SchedInv'
  BY <1>1, <1>3, <1>5, SchedUnready DEF Parts, SchedInv, identVars
<1>7. TypeOK'
  BY <1>3, <1>4, <1>6, SchedInvTypesNext
     DEF TypeOK, identVars, ipcVars, eventVars, intcVars, miscVars
<1>8. NoAssertFails' /\ Running'
  BY <1>1, <1>2, <1>3, <1>4, IxFacts DEF Parts, NoAssertFails, Running
<1>9. FreeListExact'
  BY <1>1, <1>2, <1>3, <1>4 DEF Parts, FreeListExact, identVars
<1>10. SendQueuesSound'
  BY <1>1, <1>2, <1>3, <1>4 DEF Parts, SendQueuesSound, ipcVars
<1>11. QueueMarksExact'
  BY <1>1, <1>2, <1>3, <1>4 DEF Parts, QueueMarksExact
<1>12. CountOf(state', "EVENT_BLOCKED") = CountOf(state, "EVENT_BLOCKED")
  <2>1. \A u \in Ix : state'[u] = "EVENT_BLOCKED" <=> state[u] = "EVENT_BLOCKED"
    BY <1>2, <1>3, <1>4
  <2> QED BY <2>1, SameCount
<1>13. EventOwnership'
  BY <1>1, <1>2, <1>3, <1>4
     DEF Parts, EventOwnership, eventVars, identVars, IsTask, TASK_TID, InState
<1>14. Parts'
  BY <1>1, <1>3, <1>6, <1>7, <1>8, <1>9, <1>10, <1>11, <1>12, <1>13
     DEF Parts, eventVars
<1> QED BY <1>14, KernelInvPartsNext

\* ipc_reply_start to a task that waits for a reply
LEMMA ReplyStep ==
    ASSUME KernelInv, NEW tid \in TidArgs, Reply(tid)
    PROVE  KernelInv'
<1> DEFINE a == active
           s == tid.ix
<1>1. Parts /\ phase = "user" /\ a # IdleIx
  BY KernelInvParts DEF Reply, Calling
<1>2. a \in Ix /\ state[a] = "ACTIVE" /\ ~ in_queue[a] /\ a # NoTask
  BY <1>1, ActiveFacts, IxFacts
<1>3. s \in Ix /\ state[s] = "REPLY_BLOCKED" /\ s # a
  BY <1>2 DEF Reply, IsTask
<1>4. ~ in_queue[s]
  BY <1>1, <1>3 DEF Parts, QueueMarksExact
<1>5. /\ phase' = "kern" /\ active' = NoTask
      /\ send_to' = [send_to EXCEPT ![s] = NoTid]
      /\ task_ready2(s, a, state, in_queue, prio)
      /\ UNCHANGED <<identVars, senders, eventVars, intcVars, miscVars>>
  BY <1>2, <1>4 DEF Reply, ToKernel
<1>6. TypeOK /\ state \in [Ix -> States]
  BY <1>1 DEF Parts, TypeOK
<1>7. OnlyUnready(state, prio)
  BY <1>6 DEF TypeOK, OnlyUnready
<1>8. SchedInv'
  BY <1>1, <1>2, <1>3, <1>5, <1>7, ReadyTwo DEF Parts, identVars
<1>9. /\ state' = [state EXCEPT ![s] = "READY", ![a] = "READY"]
      /\ in_queue' = [in_queue EXCEPT ![s] = TRUE, ![a] = TRUE]
  BY <1>5 DEF task_ready2
<1>10. TypeOK'
  BY <1>2, <1>3, <1>5, <1>6, <1>8, <1>9, SchedInvTypesNext
     DEF TypeOK, identVars, eventVars, intcVars, miscVars
<1>11. NoAssertFails' /\ Running'
  BY <1>1, <1>2, <1>3, <1>5, <1>6, <1>9, IxFacts DEF Parts, NoAssertFails, Running
<1>12. FreeListExact'
  BY <1>1, <1>2, <1>3, <1>5, <1>6, <1>9 DEF Parts, FreeListExact, identVars
<1>13. SendQueuesSound'
  <2> SUFFICES ASSUME NEW o \in Ix
               PROVE  /\ IsInjective(senders'[o])
                      /\ \A x \in ToSet(senders'[o]) :
                            state'[x] = "RECEIVE_BLOCKED" /\ send_to'[x].ix = o
    BY DEF SendQueuesSound
  <2>1. /\ IsInjective(senders[o])
        /\ \A x \in ToSet(senders[o]) :
              state[x] = "RECEIVE_BLOCKED" /\ send_to[x].ix = o
    BY <1>1 DEF Parts, SendQueuesSound
  <2>2. ToSet(senders[o]) \subseteq Ix
    BY <1>6, RangeSubset DEF TypeOK
  <2>3. \A x \in ToSet(senders[o]) : x # a /\ x # s
    BY <1>2, <1>3, <2>1
  <2>4. \A x \in ToSet(senders[o]) :
           state'[x] = state[x] /\ send_to'[x] = send_to[x]
    BY <1>2, <1>3, <1>5, <1>6, <1>9, <2>2, <2>3 DEF TypeOK
  <2> QED BY <1>5, <2>1, <2>4
<1>14. QueueMarksExact'
  BY <1>1, <1>2, <1>3, <1>5, <1>6, <1>9 DEF Parts, QueueMarksExact, TypeOK
<1>15. CountOf(state', "EVENT_BLOCKED") = CountOf(state, "EVENT_BLOCKED")
  <2>1. \A u \in Ix : state'[u] = "EVENT_BLOCKED" <=> state[u] = "EVENT_BLOCKED"
    BY <1>2, <1>3, <1>6, <1>9
  <2> QED BY <2>1, SameCount
<1>16. EventOwnership'
  BY <1>1, <1>2, <1>3, <1>5, <1>6, <1>9
     DEF Parts, EventOwnership, eventVars, identVars, IsTask, TASK_TID, InState
<1>17. Parts'
  BY <1>1, <1>5, <1>8, <1>10, <1>11, <1>12, <1>13, <1>14, <1>15, <1>16
     DEF Parts, eventVars
<1> QED BY <1>17, KernelInvPartsNext

\* kern_RegisterEvent on a free IRQ
LEMMA RegisterEventStep ==
    ASSUME KernelInv, NEW i \in Irqs \cup {NoIrq}, RegisterEvent(i)
    PROVE  KernelInv'
<1> DEFINE a == active
<1>1. Parts /\ phase = "user" /\ a # IdleIx /\ i \in Irqs /\ irq[a] = NoIrq
      /\ evt_tid[i] = NoTid
  BY KernelInvParts DEF RegisterEvent, Calling
<1>2. a \in Ix /\ state[a] = "ACTIVE" /\ ~ in_queue[a] /\ a # NoTask
  BY <1>1, ActiveFacts, IxFacts
<1>3. /\ phase' = "kern" /\ active' = NoTask
      /\ task_ready(a, state, in_queue, prio)
      /\ evt_tid' = [evt_tid EXCEPT ![i] = TASK_TID(a)]
      /\ irq' = [irq EXCEPT ![a] = i]
      /\ UNCHANGED <<identVars, ipcVars, enabled, evblk_count, intcVars, miscVars>>
  BY <1>2 DEF RegisterEvent, ToKernel
<1>4. TypeOK /\ state \in [Ix -> States]
  BY <1>1 DEF Parts, TypeOK
<1>5. SchedInv'
  <2>1. OnlyUnready(state, prio)
    BY <1>4 DEF TypeOK, OnlyUnready
  <2> QED BY <1>1, <1>2, <1>3, <2>1, ReadyOne DEF Parts, identVars
<1>6. /\ state' = [state EXCEPT ![a] = "READY"]
      /\ in_queue' = [in_queue EXCEPT ![a] = TRUE]
  BY <1>3 DEF task_ready
<1>7. TypeOK'
  <2>1. TASK_TID(a) \in Tids
    BY <1>2, <1>4 DEF TypeOK, TASK_TID, Tids
  <2> QED
    BY <1>1, <1>2, <1>3, <1>4, <1>5, <1>6, <2>1, SchedInvTypesNext
       DEF TypeOK, identVars, ipcVars, intcVars, miscVars
<1>8. NoAssertFails' /\ Running'
  BY <1>1, <1>2, <1>3, <1>4, <1>6, IxFacts DEF Parts, NoAssertFails, Running
<1>9. FreeListExact'
  BY <1>1, <1>2, <1>3, <1>4, <1>6 DEF Parts, FreeListExact, identVars
<1>10. SendQueuesSound'
  BY <1>1, <1>2, <1>3, <1>4, <1>6 DEF Parts, SendQueuesSound, ipcVars
<1>11. QueueMarksExact'
  BY <1>1, <1>2, <1>4, <1>6 DEF Parts, QueueMarksExact, TypeOK
<1>12. CountOf(state', "EVENT_BLOCKED") = CountOf(state, "EVENT_BLOCKED")
  <2>1. \A u \in Ix : state'[u] = "EVENT_BLOCKED" <=> state[u] = "EVENT_BLOCKED"
    BY <1>2, <1>4, <1>6
  <2> QED BY <2>1, SameCount
<1>13. EventOwnership'
  <2>1. /\ TASK_TID(a) = [ix |-> a, seq |-> tid_seq[a]]
        /\ tid_seq' = tid_seq /\ enabled' = enabled
        /\ \A t \in Ix : t # a => state'[t] = state[t] /\ irq'[t] = irq[t]
        /\ state'[a] = "READY" /\ irq'[a] = i /\ i # NoIrq
    BY <1>1, <1>2, <1>3, <1>4, <1>6, IrqAssumption DEF TASK_TID, identVars, TypeOK
  <2>2. ASSUME NEW j \in Irqs, evt_tid'[j] # NoTid
        PROVE  IsTask(evt_tid[j])' /\ irq'[evt_tid'[j].ix] = j
    <3>1. CASE j = i
      <4>1. evt_tid'[j] = [ix |-> a, seq |-> tid_seq[a]]
        BY <1>1, <1>3, <1>4, <2>1, <3>1 DEF TypeOK
      <4> QED BY <1>2, <2>1, <3>1, <4>1 DEF IsTask
    <3>2. CASE j # i
      <4>1. evt_tid'[j] = evt_tid[j]
        BY <1>3, <1>4, <3>2 DEF TypeOK
      <4>2. IsTask(evt_tid[j]) /\ irq[evt_tid[j].ix] = j /\ j # NoIrq
        BY <1>1, <2>2, <4>1, IrqAssumption DEF Parts, EventOwnership
      <4>3. evt_tid[j].ix # a
        BY <1>1, <4>2
      <4> QED BY <2>1, <4>1, <4>2, <4>3 DEF IsTask
    <3> QED BY <3>1, <3>2
  <2>3. ASSUME NEW t \in Ix, state'[t] # "FREE", irq'[t] # NoIrq
        PROVE  evt_tid'[irq'[t]] = TASK_TID(t)'
    <3>1. CASE t = a
      BY <1>1, <1>2, <1>3, <1>4, <2>1, <3>1 DEF TypeOK, TASK_TID
    <3>2. CASE t # a
      <4>1. state[t] # "FREE" /\ irq[t] # NoIrq /\ irq'[t] = irq[t]
        BY <2>1, <2>3, <3>2
      <4>2. evt_tid[irq[t]] = TASK_TID(t) /\ irq[t] \in Irqs
        BY <1>1, <1>4, <4>1 DEF Parts, EventOwnership, TypeOK
      <4>3. TASK_TID(t) # NoTid
        BY IxFacts DEF TASK_TID, NoTid, NoTask
      <4> QED BY <1>1, <1>3, <1>4, <2>1, <4>1, <4>2, <4>3 DEF TypeOK, TASK_TID
    <3> QED BY <3>1, <3>2
  <2>4. enabled' = {irq'[t] : t \in InState("EVENT_BLOCKED")'}
    <3>1. enabled = {irq[t] : t \in InState("EVENT_BLOCKED")}
      BY <1>1 DEF Parts, EventOwnership
    <3>2. /\ InState("EVENT_BLOCKED")' = InState("EVENT_BLOCKED")
          /\ \A t \in InState("EVENT_BLOCKED") : irq'[t] = irq[t]
      BY <1>2, <2>1 DEF InState
    <3> QED BY <2>1, <3>1, <3>2
  <2> QED BY <2>2, <2>3, <2>4 DEF EventOwnership
<1>14. Parts'
  BY <1>1, <1>3, <1>5, <1>7, <1>8, <1>9, <1>10, <1>11, <1>12, <1>13 DEF Parts
<1> QED BY <1>14, KernelInvPartsNext

\* kern_AwaitEvent by a task that has registered its event
LEMMA AwaitEventStep ==
    ASSUME KernelInv, AwaitEvent
    PROVE  KernelInv'
<1> DEFINE a == active
<1>1. Parts /\ phase = "user" /\ a # IdleIx /\ irq[a] # NoIrq
  BY KernelInvParts DEF AwaitEvent, Calling
<1>2. a \in Ix /\ state[a] = "ACTIVE" /\ ~ in_queue[a] /\ a # NoTask
  BY <1>1, ActiveFacts, IxFacts
<1>3. /\ phase' = "kern" /\ active' = NoTask
      /\ state' = [state EXCEPT ![a] = "EVENT_BLOCKED"]
      /\ enabled' = enabled \cup {irq[a]}
      /\ evblk_count' = evblk_count + 1
      /\ UNCHANGED <<in_queue, rdy_queues, rdy_queue_ne, rdy_count, identVars,
                     ipcVars, irq, evt_tid, intcVars, miscVars>>
  BY DEF AwaitEvent, ToKernel
<1>4. TypeOK /\ state \in [Ix -> States] /\ irq[a] \in Irqs
  BY <1>1, <1>2 DEF Parts, TypeOK
<1>5. OnlyUnready(state', prio)
  BY <1>2, <1>3, <1>4 DEF TypeOK, OnlyUnready, States
<1>6. SchedInv'
  BY <1>1, <1>3, <1>5, SchedUnready DEF Parts, SchedInv, identVars
<1>7. TypeOK'
  BY <1>3, <1>4, <1>6, SchedInvTypesNext
     DEF TypeOK, identVars, ipcVars, intcVars, miscVars
<1>8. NoAssertFails' /\ Running'
  BY <1>1, <1>2, <1>3, <1>4, IxFacts DEF Parts, NoAssertFails, Running
<1>9. FreeListExact'
  BY <1>1, <1>2, <1>3, <1>4 DEF Parts, FreeListExact, identVars
<1>10. SendQueuesSound'
  BY <1>1, <1>2, <1>3, <1>4 DEF Parts, SendQueuesSound, ipcVars
<1>11. QueueMarksExact'
  BY <1>1, <1>2, <1>3, <1>4 DEF Parts, QueueMarksExact
<1>12. evblk_count' = CountOf(state', "EVENT_BLOCKED")
  <2>1. state' = SetTo(state, a, "EVENT_BLOCKED")
    BY <1>3 DEF SetTo
  <2>2. CountOf(SetTo(state, a, "EVENT_BLOCKED"), "EVENT_BLOCKED")
          = CountOf(state, "EVENT_BLOCKED") + 1
    BY <1>2, <1>4, CountChange
  <2> QED BY <1>1, <1>3, <2>1, <2>2 DEF Parts
<1>13. EventOwnership'
  <2>1. /\ enabled = {irq[t] : t \in InState("EVENT_BLOCKED")}
        /\ InState("EVENT_BLOCKED")' = InState("EVENT_BLOCKED") \cup {a}
    BY <1>1, <1>2, <1>3, <1>4 DEF Parts, EventOwnership, InState
  <2>2. enabled' = {irq'[t] : t \in InState("EVENT_BLOCKED")'}
    BY <1>3, <2>1
  <2> QED
    BY <1>1, <1>2, <1>3, <1>4, <2>2
       DEF Parts, EventOwnership, identVars, IsTask, TASK_TID
<1>14. Parts'
  BY <1>6, <1>7, <1>8, <1>9, <1>10, <1>11, <1>12, <1>13 DEF Parts
<1> QED BY <1>14, KernelInvPartsNext

\* kern_handle_irq when the callback answers with a result
LEMMA IrqWakesStep ==
    ASSUME KernelInv, NEW i \in Irqs, IrqWakes(i)
    PROVE  KernelInv'
<1> DEFINE a == active
           w == evt_tid[i].ix
<1>1. Parts /\ phase = "user" /\ i \in enabled
  BY KernelInvParts DEF IrqWakes, IrqRaised
<1>2. a \in Ix /\ state[a] = "ACTIVE" /\ ~ in_queue[a] /\ a # NoTask
  BY <1>1, ActiveFacts, IxFacts
<1>3. TypeOK /\ state \in [Ix -> States] /\ i # NoIrq
  BY <1>1, IrqAssumption DEF Parts, TypeOK
<1>4. PICK t \in Ix : state[t] = "EVENT_BLOCKED" /\ irq[t] = i
  BY <1>1 DEF Parts, EventOwnership, InState
<1>5. evt_tid[i] = TASK_TID(t)
  BY <1>1, <1>3, <1>4 DEF Parts, EventOwnership
<1>6. w = t /\ w \in Ix /\ w # a /\ evt_tid[i] # NoTid
  BY <1>2, <1>4, <1>5, IxFacts DEF TASK_TID, NoTid, NoTask
<1>7. IsTask(evt_tid[i]) /\ ~ in_queue[w] /\ state[w] = "EVENT_BLOCKED" /\ irq[w] = i
  BY <1>1, <1>4, <1>6 DEF Parts, EventOwnership, QueueMarksExact
<1>8. /\ phase' = "kern" /\ active' = NoTask
      /\ task_ready2(a, w, state, in_queue, prio)
      /\ evblk_count' = evblk_count - 1
      /\ enabled' = enabled \ {i}
      /\ pending' = pending \ {i}
      /\ busy' = FALSE
      /\ UNCHANGED <<identVars, ipcVars, irq, evt_tid, miscVars>>
  BY <1>2, <1>7 DEF IrqWakes, IrqAsserts, ToKernel
<1> HIDE DEF w
<1>9. SchedInv'
  <2>1. OnlyUnready(state, prio)
    BY <1>3 DEF TypeOK, OnlyUnready
  <2> QED BY <1>1, <1>2, <1>6, <1>7, <1>8, <2>1, ReadyTwo DEF Parts, identVars
<1>10. /\ state' = [state EXCEPT ![a] = "READY", ![w] = "READY"]
       /\ in_queue' = [in_queue EXCEPT ![a] = TRUE, ![w] = TRUE]
  BY <1>8 DEF task_ready2
<1>11. /\ state'[a] = "READY" /\ state'[w] = "READY"
       /\ \A u \in Ix : u # a /\ u # w => state'[u] = state[u]
  BY <1>2, <1>3, <1>6, <1>10
<1>12. CountOf(state', "EVENT_BLOCKED") = CountOf(state, "EVENT_BLOCKED") - 1
  <2>1. CountOf(SetTo(state, w, "READY"), "EVENT_BLOCKED")
          = CountOf(state, "EVENT_BLOCKED") - 1
    BY <1>3, <1>6, <1>7, CountChange
  <2>2. \A u \in Ix : state'[u] = "EVENT_BLOCKED"
                        <=> SetTo(state, w, "READY")[u] = "EVENT_BLOCKED"
    BY <1>2, <1>3, <1>6, <1>11 DEF SetTo
  <2> QED BY <2>1, <2>2, SameCount
<1>13. TypeOK'
  <2>1. in_queue' \in [Ix -> BOOLEAN]
    BY <1>2, <1>3, <1>6, <1>10 DEF TypeOK
  <2>2. evblk_count' \in Int /\ enabled' \in SUBSET Irqs /\ pending' \in SUBSET Irqs
    BY <1>3, <1>8 DEF TypeOK
  <2>3. busy' \in BOOLEAN
    BY <1>8
  <2> QED
    BY <1>3, <1>8, <1>9, <2>1, <2>2, <2>3, SchedInvTypesNext
       DEF TypeOK, identVars, ipcVars, miscVars
<1>14. NoAssertFails' /\ Running'
  <2>1. state[IdleIx] # "EVENT_BLOCKED"
    BY <1>1 DEF Parts, Running
  <2> QED
    BY <1>1, <1>2, <1>7, <1>8, <1>11, <2>1, IxFacts DEF Parts, NoAssertFails, Running
<1>15. FreeListExact'
  <2>1. free_tasks' = free_tasks
        /\ \A u \in Ix : state'[u] = "FREE" <=> state[u] = "FREE"
    BY <1>2, <1>7, <1>8, <1>11 DEF identVars
  <2> QED BY <1>1, <2>1 DEF Parts, FreeListExact
<1>16. SendQueuesSound'
  <2> SUFFICES ASSUME NEW o \in Ix
               PROVE  /\ IsInjective(senders'[o])
                      /\ \A x \in ToSet(senders'[o]) :
                            state'[x] = "RECEIVE_BLOCKED" /\ send_to'[x].ix = o
    BY DEF SendQueuesSound
  <2>1. /\ IsInjective(senders[o])
        /\ \A x \in ToSet(senders[o]) :
              state[x] = "RECEIVE_BLOCKED" /\ send_to[x].ix = o
    BY <1>1 DEF Parts, SendQueuesSound
  <2>2. ToSet(senders[o]) \subseteq Ix
    BY <1>3, RangeSubset DEF TypeOK
  <2>3. \A x \in ToSet(senders[o]) : state'[x] = state[x]
    BY <1>2, <1>7, <1>11, <2>1, <2>2
  <2> QED BY <1>8, <2>1, <2>3 DEF ipcVars
<1>17. QueueMarksExact'
  BY <1>1, <1>2, <1>3, <1>6, <1>10, <1>11 DEF Parts, QueueMarksExact, TypeOK
<1>18. EventOwnership'
  <2>1. /\ evt_tid' = evt_tid /\ irq' = irq /\ tid_seq' = tid_seq
        /\ \A u \in Ix : state'[u] = "FREE" <=> state[u] = "FREE"
    BY <1>2, <1>7, <1>8, <1>11 DEF identVars
  <2>2. ASSUME NEW j \in Irqs, evt_tid'[j] # NoTid
        PROVE  IsTask(evt_tid[j])' /\ irq'[evt_tid'[j].ix] = j
    BY <1>1, <2>1, <2>2 DEF Parts, EventOwnership, IsTask
  <2>3. ASSUME NEW u \in Ix, state'[u] # "FREE", irq'[u] # NoIrq
        PROVE  evt_tid'[irq'[u]] = TASK_TID(u)'
    BY <1>1, <2>1, <2>3 DEF Parts, EventOwnership, TASK_TID
  <2>4. enabled' = {irq'[u] : u \in InState("EVENT_BLOCKED")'}
    <3>1. enabled = {irq[u] : u \in InState("EVENT_BLOCKED")}
      BY <1>1 DEF Parts, EventOwnership
    <3>2. InState("EVENT_BLOCKED")' = InState("EVENT_BLOCKED") \ {w}
      BY <1>2, <1>11 DEF InState
    <3>3. ASSUME NEW u \in InState("EVENT_BLOCKED"), u # w PROVE irq[u] # i
      <4>1. u \in Ix /\ state[u] = "EVENT_BLOCKED"
        BY DEF InState
      <4>2. irq[u] = i => evt_tid[i] = TASK_TID(u)
        BY <1>1, <1>3, <4>1 DEF Parts, EventOwnership
      <4> QED BY <1>5, <1>6, <3>3, <4>2 DEF TASK_TID
    <3> QED BY <1>7, <1>8, <2>1, <3>1, <3>2, <3>3
  <2> QED BY <2>2, <2>3, <2>4 DEF EventOwnership
<1>19. Parts'
  BY <1>1, <1>8, <1>9, <1>12, <1>13, <1>14, <1>15, <1>16, <1>17, <1>18 DEF Parts
<1> QED BY <1>19, KernelInvPartsNext

-----------------------------------------------------------------------------
(* The initial states *)

\* kern_init queues one task: a queue of one element.
LEMMA SingletonFacts ==
    ASSUME NEW S, NEW x \in S
    PROVE  <<x>> \in Seq(S) /\ IsInjective(<<x>>) /\ ToSet(<<x>>) = {x}
<1>1. <<x>> \in Seq(S) /\ DOMAIN <<x>> = {1} /\ <<x>>[1] = x
  OBVIOUS
<1>2. IsInjective(<<x>>)
  BY <1>1 DEF IsInjective
<1>3. ToSet(<<x>>) = {x}
  <2>1. ToSet(<<x>>) = {<<x>>[n] : n \in {1}}
    BY <1>1 DEF ToSet
  <2> QED BY <1>1, <2>1
<1> QED BY <1>1, <1>2, <1>3

\* The free list of kern_init holds every descriptor but the first two.
LEMMA InitialFreeList ==
    LET q == [n \in 1 .. MaxTasks - 2 |-> n + 1]
    IN  q \in Seq(Ix) /\ IsInjective(q) /\ ToSet(q) = Ix \ {IdleIx, InitIx}
<1> DEFINE q == [n \in 1 .. MaxTasks - 2 |-> n + 1]
<1>1. q \in [1 .. MaxTasks - 2 -> Ix] /\ MaxTasks - 2 \in Nat
  BY SizeAssumption DEF Ix
<1>2. q \in Seq(Ix)
  BY <1>1, SeqDef
<1>3. IsInjective(q)
  BY <1>1 DEF IsInjective
<1>4. ToSet(q) = {n + 1 : n \in 1 .. MaxTasks - 2}
  BY DEF ToSet
<1>5. {n + 1 : n \in 1 .. MaxTasks - 2} = Ix \ {IdleIx, InitIx}
  <2>1. ASSUME NEW t \in Ix \ {IdleIx, InitIx}
        PROVE  t \in {n + 1 : n \in 1 .. MaxTasks - 2}
    <3>1. t - 1 \in 1 .. MaxTasks - 2 /\ t = (t - 1) + 1
      BY <2>1, SizeAssumption DEF Ix, IdleIx, InitIx
    <3> QED BY <3>1
  <2>2. ASSUME NEW n \in 1 .. MaxTasks - 2
        PROVE  n + 1 \in Ix \ {IdleIx, InitIx}
    BY SizeAssumption DEF Ix, IdleIx, InitIx
  <2> QED BY <2>1, <2>2
<1> QED BY <1>2, <1>3, <1>4, <1>5

\* kern_init establishes the invariant.
LEMMA InitStep == Init => KernelInv
<1> SUFFICES ASSUME Init PROVE KernelInv
  OBVIOUS
<1>1. /\ IdleIx \in Ix /\ InitIx \in Ix /\ IdleIx # InitIx /\ NoTask \notin Ix
      /\ IdlePrio \in Prios /\ InitPrio \in Prios /\ IdlePrio # InitPrio /\ 0 \in Prios
      /\ 0 \in Seqs
  BY IxFacts, SizeAssumption, InitPrioAssumption
     DEF Ix, IdleIx, InitIx, Prios, IdlePrio, Seqs
<1>2. /\ \A t \in Ix : state[t] = IF t \in {IdleIx, InitIx} THEN "READY" ELSE "FREE"
      /\ state \in [Ix -> States]
      /\ prio \in [Ix -> Prios] /\ prio[IdleIx] = IdlePrio /\ prio[InitIx] = InitPrio
  <2>1. \A t \in Ix : (CASE t = IdleIx -> IdlePrio
                         [] t = InitIx -> InitPrio
                         [] OTHER -> 0) \in Prios
    BY <1>1
  <2> QED BY <1>1, <2>1 DEF Init, States
<1>3. /\ rdy_queues \in [Prios -> Seq(Ix)]
      /\ \A p \in Prios :
            rdy_queues[p] = IF p = IdlePrio THEN <<IdleIx>>
                            ELSE IF p = InitPrio THEN <<InitIx>> ELSE <<>>
  BY <1>1, SingletonFacts DEF Init
<1>4. Holds(rdy_queues, state, prio)
  <2> SUFFICES ASSUME NEW p \in Prios
               PROVE  /\ IsInjective(rdy_queues[p])
                      /\ ToSet(rdy_queues[p]) = {t \in Ix : state[t] = "READY" /\ prio[t] = p}
    BY <1>3 DEF Holds
  <2>1. CASE p = IdlePrio
    <3>1. rdy_queues[p] = <<IdleIx>>
      BY <1>3, <2>1
    <3>2. {t \in Ix : state[t] = "READY" /\ prio[t] = p} = {IdleIx}
      BY <1>1, <1>2, <2>1
    <3> QED BY <1>1, <3>1, <3>2, SingletonFacts
  <2>2. CASE p = InitPrio
    <3>1. rdy_queues[p] = <<InitIx>>
      BY <1>1, <1>3, <2>2
    <3>2. {t \in Ix : state[t] = "READY" /\ prio[t] = p} = {InitIx}
      BY <1>1, <1>2, <2>2
    <3> QED BY <1>1, <3>1, <3>2, SingletonFacts
  <2>3. CASE p # IdlePrio /\ p # InitPrio
    BY <1>1, <1>2, <1>3, <2>3, EmptyFacts
  <2> QED BY <2>1, <2>2, <2>3
<1>5. rdy_queue_ne = NonEmpty(rdy_queues)
  <2>1. <<IdleIx>> # <<>> /\ <<InitIx>> # <<>>
    OBVIOUS
  <2> QED BY <1>1, <1>3, <2>1 DEF Init, NonEmpty
<1>6. rdy_count = CountOf(state, "READY")
  <2>1. {t \in Ix : state[t] = "READY"} = {IdleIx} \cup {InitIx}
    BY <1>1, <1>2
  <2>2. IsFiniteSet({IdleIx}) /\ Cardinality({IdleIx}) = 1
    BY FS_Singleton
  <2>3. Cardinality({IdleIx} \cup {InitIx}) = 2
    BY <1>1, <2>2, FS_AddElement
  <2> QED BY <2>1, <2>3 DEF CountOf, Init
<1>7. evblk_count = CountOf(state, "EVENT_BLOCKED")
  <2>1. {t \in Ix : state[t] = "EVENT_BLOCKED"} = {}
    BY <1>2
  <2> QED BY <2>1, FS_EmptySet DEF CountOf, Init
<1>8. SchedInv
  BY <1>2, <1>4, <1>5, <1>6 DEF SchedInv, Sched, Init
<1>9. /\ free_tasks \in Seq(Ix) /\ IsInjective(free_tasks)
      /\ ToSet(free_tasks) = Ix \ {IdleIx, InitIx}
  BY InitialFreeList DEF Init
<1>10. /\ senders \in [Ix -> Seq(Ix)]
       /\ \A r \in Ix : IsInjective(senders[r]) /\ ToSet(senders[r]) = {}
  BY EmptyFacts DEF Init
<1>11. TypeOK
  <2>1. rdy_queue_ne \in SUBSET Prios
    BY <1>5 DEF NonEmpty
  <2>2. /\ phase = "kern" /\ active = NoTask
        /\ in_queue \in [Ix -> BOOLEAN]
        /\ evblk_count \in Int /\ rdy_count \in Int
    BY DEF Init
  <2>4. shutdown \in BOOLEAN
    BY DEF Init
  <2>5. busy \in BOOLEAN
    BY DEF Init
  <2>3. /\ tid_seq \in [Ix -> Seqs]
        /\ cleanup \in [Ix -> Tids \cup {NoTid}]
        /\ send_to \in [Ix -> Tids \cup {NoTid}]
        /\ irq \in [Ix -> Irqs \cup {NoIrq}]
        /\ evt_tid \in [Irqs -> Tids \cup {NoTid}]
        /\ enabled \in SUBSET Irqs /\ pending \in SUBSET Irqs
    BY <1>1 DEF Init
  <2> QED BY <1>2, <1>3, <1>9, <1>10, <2>1, <2>2, <2>3, <2>4, <2>5 DEF TypeOK
<1>12. NoAssertFails /\ Running
  BY <1>1, <1>2 DEF Init, NoAssertFails, Running
<1>13. FreeListExact
  BY <1>2, <1>9 DEF FreeListExact
<1>14. SendQueuesSound
  BY <1>10 DEF SendQueuesSound
<1>15. QueueMarksExact
  BY <1>2 DEF QueueMarksExact, Init
<1>16. EventOwnership
  <2>1. InState("EVENT_BLOCKED") = {}
    BY <1>2 DEF InState
  <2> QED BY <2>1 DEF EventOwnership, Init
<1>17. Parts
  BY <1>7, <1>8, <1>11, <1>12, <1>13, <1>14, <1>15, <1>16 DEF Parts
<1> QED BY <1>17, KernelInvParts

-----------------------------------------------------------------------------
(* The theorems *)

\* Every step of the kernel, of a task and of a device keeps the invariant.
LEMMA KernelInvStep == KernelInv /\ [Next]_vars => KernelInv'
<1> SUFFICES ASSUME KernelInv, [Next]_vars PROVE KernelInv'
  OBVIOUS
<1>1. CASE Schedule
  BY <1>1, ScheduleStep
<1>2. CASE Halt \/ SkipSchedule \/ Panic \/ FpuTrap \/ Terminated \/ UNCHANGED vars
  BY <1>2, QuietStep
<1>3. CASE \/ Query \/ RegisterCleanup \/ Shutdown
           \/ \E p \in CreatePrios : CreateFails(p)
           \/ \E tid \in TidArgs : SendFails(tid) \/ ReplyFails(tid)
           \/ \E i \in Irqs \cup {NoIrq} : RegisterEventFails(i)
  BY <1>3, QueryLikeStep
<1>4. CASE \E p \in CreatePrios : Create(p)
  BY <1>4, CreateStep
<1>5. CASE Exit \/ KillUndef
  BY <1>5, FreeStep
<1>6. CASE \E tid \in TidArgs : SendRendezvous(tid)
  BY <1>6, SendRendezvousStep
<1>7. CASE \E tid \in TidArgs : SendEnqueue(tid)
  BY <1>7, SendEnqueueStep
<1>8. CASE ReceiveRendezvous
  BY <1>8, ReceiveRendezvousStep
<1>9. CASE ReceiveBlocks
  BY <1>9, ReceiveBlocksStep
<1>10. CASE \E tid \in TidArgs : Reply(tid)
  BY <1>10, ReplyStep
<1>11. CASE \E i \in Irqs \cup {NoIrq} : RegisterEvent(i)
  BY <1>11, RegisterEventStep
<1>12. CASE AwaitEvent
  BY <1>12, AwaitEventStep
<1>13. CASE \E i \in Irqs : DeviceAssert(i)
  BY <1>13, QuietStep
<1>14. CASE \E i \in Irqs : IrqIgnored(i)
  BY <1>14, IrqIgnoredStep
<1>15. CASE \E i \in Irqs : IrqWakes(i)
  BY <1>15, IrqWakesStep
<1> QED
  BY <1>1, <1>2, <1>3, <1>4, <1>5, <1>6, <1>7, <1>8, <1>9, <1>10, <1>11,
     <1>12, <1>13, <1>14, <1>15
     DEF Next, KernelStep, UserTrap, SysCall, Irq

\* The kernel's data structures agree with each other and with the tasks'
\* states at every moment: queues, counters, bitmap, event table and marks.
THEOREM KernelInvariant == Spec => []KernelInv
<1>1. Init => KernelInv
  BY InitStep
<1>2. KernelInv /\ [Next]_vars => KernelInv'
  BY KernelInvStep
<1> QED BY <1>1, <1>2, PTL DEF Spec

\* Every variable keeps its type.
THEOREM TypeCorrect == Spec => []TypeOK
<1>1. KernelInv => TypeOK
  BY DEF KernelInv
<1> QED BY <1>1, KernelInvariant, PTL

\* No assert of task_schedule, task_enqueue, task_free, evt_enable,
\* evt_cur or kern_handle_irq can fail, whatever the tasks and devices do, as
\* long as no task awaits an event that it never registered.
THEOREM AssertsHold == Spec => []NoAssertFails
<1>1. KernelInv => NoAssertFails
  BY DEF KernelInv
<1> QED BY <1>1, KernelInvariant, PTL

\* No task is ever lost to, or twice in, the lists threaded through next_ix.
THEOREM QueuesCorrect == Spec => []QueueDiscipline
<1>1. KernelInv => QueueDiscipline
  BY DEF KernelInv
<1> QED BY <1>1, KernelInvariant, PTL

\* rdy_count and evblk_count, which decide when the kernel exits, are exact.
THEOREM CountersCorrect == Spec => []CountersExact
<1>1. KernelInv => CountersExact
  BY DEF KernelInv
<1> QED BY <1>1, KernelInvariant, PTL

\* An IRQ is unmasked only while the task that owns it, alive, awaits it.
THEOREM EventsCorrect == Spec => []EventOwnership
<1>1. KernelInv => EventOwnership
  BY DEF KernelInv
<1> QED BY <1>1, KernelInvariant, PTL
=============================================================================
