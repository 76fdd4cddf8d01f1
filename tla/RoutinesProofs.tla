--------------------------- MODULE RoutinesProofs ---------------------------
(* The library routines: the ring buffer and the queue of items are           *)
(* first-in first-out stores, a copy copies what it should, and the priority  *)
(* queue, ring or heap, is the one that pqueue.h promises.  The context       *)
(* switch gives every task its registers back.  And a number that is written   *)
(* reads back as itself.                                                      *)
EXTENDS RingBuffer, ItemQueue, MemoryCopy, PQueue, ContextSwitch, Numbers,
        SequenceTheorems, FiniteSetTheorems, WellFoundedInduction, TLAPS

\* What a step does to the contents, element by element
LEMMA Appended ==
    ASSUME NEW S, NEW s \in Seq(S), NEW t \in Seq(S), NEW u \in Seq(S),
           Len(u) = Len(s) + Len(t),
           \A i \in 1 .. Len(s) : u[i] = s[i],
           \A i \in 1 .. Len(t) : u[Len(s) + i] = t[i]
    PROVE  u = s \o t
<1>1. s \o t \in Seq(S) /\ Len(s \o t) = Len(u)
  OBVIOUS
<1>2. \A i \in 1 .. Len(u) : u[i] = (s \o t)[i]
  <2> SUFFICES ASSUME NEW i \in 1 .. Len(u) PROVE u[i] = (s \o t)[i]
    OBVIOUS
  <2>1. CASE i <= Len(s)
    BY <2>1
  <2>2. CASE i > Len(s)
    <3>1. i - Len(s) \in 1 .. Len(t) /\ i = Len(s) + (i - Len(s))
      BY <2>2
    <3> QED BY <2>2, <3>1
  <2> QED BY <2>1, <2>2
<1> QED BY <1>1, <1>2, SeqEqual

-----------------------------------------------------------------------------
(* The ring buffer *)

\* The indices lie in the memory, and apart by what the buffer holds: wr is
\* where the next character goes, and so rd if the buffer is full.
RingInv ==
    /\ mem \in [0 .. Size - 1 -> Char]
    /\ rd \in 0 .. Size - 1
    /\ wr \in 0 .. Size - 1
    /\ len \in 0 .. Size
    /\ wr = Place(len)

LEMMA WrapIsSubtraction ==
    ASSUME RingBufferAssumption, NEW i \in 0 .. 2 * Size - 1
    PROVE  Wrap(i) = IF i < Size THEN i ELSE i - Size
BY DEF RingBufferAssumption, Wrap

LEMMA PlaceFacts ==
    ASSUME RingBufferAssumption, RingInv
    PROVE  /\ Size \in Nat \ {0}
           /\ \A k \in 0 .. Size - 1 : Place(k) \in 0 .. Size - 1
           /\ \A k, l \in 0 .. Size - 1 : Place(k) = Place(l) => k = l
BY DEF RingBufferAssumption, RingInv, Place

ContentsAre ==
    /\ Contents \in Seq(Char) /\ Len(Contents) = len
    /\ \A i \in 1 .. len : Contents[i] = mem[Place(i - 1)]
    /\ Contents = << >> <=> len = 0

LEMMA RingInvGivesContents == RingBufferAssumption /\ RingInv => ContentsAre
<1> SUFFICES ASSUME RingBufferAssumption, RingInv PROVE ContentsAre
  OBVIOUS
<1>1. \A i \in 1 .. len : mem[Place(i - 1)] \in Char
  BY PlaceFacts DEF RingInv
<1>2. len \in Nat
  BY DEF RingBufferAssumption, RingInv
<1> QED BY <1>1, <1>2 DEF Contents, ContentsAre

LEMMA ContentsFacts ==
    ASSUME RingBufferAssumption, RingInv
    PROVE  /\ Contents \in Seq(Char) /\ Len(Contents) = len
           /\ \A i \in 1 .. len : Contents[i] = mem[Place(i - 1)]
           /\ Contents = << >> <=> len = 0
BY RingInvGivesContents DEF ContentsAre

\* The same of the next state
LEMMA ContentsFactsNext ==
    ASSUME RingBufferAssumption, RingInv'
    PROVE  /\ Contents' \in Seq(Char) /\ Len(Contents') = len'
           /\ \A i \in 1 .. len' : Contents'[i] = mem'[Place(i - 1)']
           /\ Contents' = << >> <=> len' = 0
<1>1. ContentsAre'
  BY RingInvGivesContents, PTL
<1> QED BY <1>1 DEF ContentsAre

CopiedIs(m, to, buf, from, n, new) ==
    /\ new \in [0 .. Size - 1 -> Char]
    /\ \A i \in 0 .. Size - 1 :
           new[i] = IF i \in to .. to + n - 1 THEN buf[from + 1 + i - to] ELSE m[i]

LEMMA CopiedFacts ==
    ASSUME NEW m \in [0 .. Size - 1 -> Char], NEW buf \in Seq(Char), NEW to \in Nat,
           NEW from \in Nat, NEW n \in Nat, from + n <= Len(buf)
    PROVE  CopiedIs(m, to, buf, from, n, Copied(m, to, buf, from, n))
<1> SUFFICES ASSUME NEW i \in 0 .. Size - 1, i \in to .. to + n - 1
             PROVE  buf[from + 1 + i - to] \in Char
  BY DEF Copied, CopiedIs
<1>1. from + 1 + i - to \in 1 .. Len(buf)
  OBVIOUS
<1> QED BY <1>1

\* A write, cut in two or not, lays buf behind the last character and leaves
\* the others alone.
LEMMA WriteFacts ==
    ASSUME RingBufferAssumption, RingInv, NEW buf \in Bufs, rbuf_write(buf)
    PROVE  /\ buf \in Seq(Char) /\ Len(buf) \in Nat /\ len + Len(buf) <= Size
           /\ mem' \in [0 .. Size - 1 -> Char]
           /\ \A k \in 0 .. len - 1 : mem'[Place(k)] = mem[Place(k)]
           /\ \A k \in 0 .. Len(buf) - 1 : mem'[Place(len + k)] = buf[k + 1]
<1>0. buf \in Seq(Char) /\ Size \in Nat \ {0} /\ wr \in 0 .. Size - 1
  BY DEF RingBufferAssumption, rbuf_write, RingInv
<1>n. PICK n \in Nat : n = Len(buf)
  BY <1>0
<1>s. PICK space \in 1 .. Size : space = Size - wr
  BY <1>0
<1>o. PICK once : once = Copied(mem, wr, buf, 0, space)
  OBVIOUS
<1>1. /\ Size \in Nat \ {0} /\ buf \in Seq(Char) /\ n \in Nat /\ len + n <= Size
      /\ wr \in 0 .. Size - 1 /\ rd \in 0 .. Size - 1 /\ len \in 0 .. Size
      /\ mem \in [0 .. Size - 1 -> Char] /\ wr = Place(len)
      /\ space \in 1 .. Size /\ space = Size - wr /\ n = Len(buf)
  BY <1>0, <1>n, <1>s DEF rbuf_write, RingInv
<1>a. /\ Size \in Nat /\ n \in Nat /\ wr \in Nat /\ len \in Nat /\ space \in Nat
      /\ space >= 1 /\ wr + space = Size /\ n <= Size /\ Len(buf) = n
  BY <1>1
<1>2. \A k \in 0 .. len - 1 :
         /\ Place(k) \in 0 .. Size - 1
         /\ n > 0 => Place(k) \notin wr .. wr + n - 1 /\ Place(k) \notin 0 .. wr + n - 1 - Size
  BY <1>1 DEF Place
<1>3. \A k \in 0 .. n - 1 : Place(len + k) = IF k < space THEN wr + k ELSE wr + k - Size
  BY <1>1 DEF Place
<1>4. mem' = IF n <= space THEN Copied(mem, wr, buf, 0, n)
             ELSE Copied(once, 0, buf, space, n - space)
  BY <1>n, <1>s, <1>o DEF rbuf_write
<1>5. CASE n <= space
  <2>1. mem' = Copied(mem, wr, buf, 0, n)
    BY <1>4, <1>5
  <2>3. /\ Copied(mem, wr, buf, 0, n) \in [0 .. Size - 1 -> Char]
        /\ \A i \in 0 .. Size - 1 :
              Copied(mem, wr, buf, 0, n)[i] =
                  IF i \in wr .. wr + n - 1 THEN buf[0 + 1 + i - wr] ELSE mem[i]
    <3>1. wr \in Nat /\ 0 \in Nat /\ 0 + n <= Len(buf)
      BY <1>1
    <3>2. CopiedIs(mem, wr, buf, 0, n, Copied(mem, wr, buf, 0, n))
      BY <1>1, <3>1, CopiedFacts
    <3> QED BY <3>2 DEF CopiedIs
  <2>4. ASSUME NEW k \in 0 .. n - 1
        PROVE  mem'[Place(len + k)] = buf[k + 1]
    <3>1. /\ Place(len + k) = wr + k /\ wr + k \in 0 .. Size - 1
          /\ wr + k \in wr .. wr + n - 1 /\ 0 + 1 + (wr + k) - wr = k + 1
      BY <1>a, <1>3, <1>5
    <3> QED BY <2>1, <2>3, <3>1
  <2>5. ASSUME NEW k \in 0 .. len - 1
        PROVE  mem'[Place(k)] = mem[Place(k)]
    <3>1. Place(k) \in 0 .. Size - 1 /\ Place(k) \notin wr .. wr + n - 1
      BY <1>1, <1>2
    <3> QED BY <2>1, <2>3, <3>1
  <2> QED BY <1>1, <2>1, <2>3, <2>4, <2>5
<1>6. CASE n > space
  <2>1. mem' = Copied(once, 0, buf, space, n - space)
    BY <1>1, <1>4, <1>6
  <2>3. /\ once \in [0 .. Size - 1 -> Char]
        /\ \A i \in 0 .. Size - 1 :
              once[i] = IF i \in wr .. wr + space - 1 THEN buf[0 + 1 + i - wr] ELSE mem[i]
    <3>1. wr \in Nat /\ 0 \in Nat /\ space \in Nat /\ 0 + space <= Len(buf)
      BY <1>1, <1>6
    <3>2. CopiedIs(mem, wr, buf, 0, space, once)
      BY <1>1, <1>o, <3>1, CopiedFacts
    <3> QED BY <3>2 DEF CopiedIs
  <2>4. /\ Copied(once, 0, buf, space, n - space) \in [0 .. Size - 1 -> Char]
        /\ \A i \in 0 .. Size - 1 :
              Copied(once, 0, buf, space, n - space)[i] =
                  IF i \in 0 .. 0 + (n - space) - 1 THEN buf[space + 1 + i - 0] ELSE once[i]
    <3>1. 0 \in Nat /\ space \in Nat /\ n - space \in Nat /\ space + (n - space) <= Len(buf)
      BY <1>a, <1>6
    <3>2. CopiedIs(once, 0, buf, space, n - space, Copied(once, 0, buf, space, n - space))
      BY <1>1, <2>3, <3>1, CopiedFacts
    <3> QED BY <3>2 DEF CopiedIs
  <2>5. ASSUME NEW k \in 0 .. n - 1
        PROVE  mem'[Place(len + k)] = buf[k + 1]
    <3>1. CASE k < space
      <4>1. /\ Place(len + k) = wr + k /\ wr + k \in 0 .. Size - 1
            /\ wr + k \in wr .. wr + space - 1 /\ wr + k \notin 0 .. 0 + (n - space) - 1
            /\ 0 + 1 + (wr + k) - wr = k + 1
        BY <1>a, <1>3, <3>1
      <4> QED BY <2>1, <2>3, <2>4, <4>1
    <3>2. CASE k >= space
      <4>1. /\ Place(len + k) = wr + k - Size /\ wr + k - Size \in 0 .. Size - 1
            /\ wr + k - Size \in 0 .. 0 + (n - space) - 1
            /\ space + 1 + (wr + k - Size) - 0 = k + 1
        BY <1>a, <1>3, <3>2
      <4> QED BY <2>1, <2>4, <4>1
    <3> QED BY <1>1, <3>1, <3>2
  <2>6. ASSUME NEW k \in 0 .. len - 1
        PROVE  mem'[Place(k)] = mem[Place(k)]
    <3>1. /\ Place(k) \in 0 .. Size - 1 /\ Place(k) \notin wr .. wr + space - 1
          /\ Place(k) \notin 0 .. 0 + (n - space) - 1
      BY <1>a, <1>2, <1>6
    <3> QED BY <2>1, <2>3, <2>4, <3>1
  <2> QED BY <1>1, <2>1, <2>4, <2>5, <2>6
<1> QED BY <1>1, <1>5, <1>6

-----------------------------------------------------------------------------
(* The invariant *)

LEMMA RingInit == RingBufferAssumption /\ rbuf_init => RingInv
BY DEF RingBufferAssumption, rbuf_init, RingInv, Place

LEMMA RingInvStep == RingBufferAssumption /\ RingInv /\ [rbufNext]_rbufVars => RingInv'
<1> SUFFICES ASSUME RingBufferAssumption, RingInv, [rbufNext]_rbufVars PROVE RingInv'
  OBVIOUS
<1>1. Size \in Nat \ {0}
  BY DEF RingBufferAssumption
<1>2. CASE \E c \in Char : rbuf_putc(c)
  <2>1. Wrap(wr + 1) = IF wr + 1 < Size THEN wr + 1 ELSE wr + 1 - Size
    BY <1>1, WrapIsSubtraction DEF RingInv
  <2> QED BY <1>1, <1>2, <2>1 DEF rbuf_putc, RingInv, Place
<1>3. CASE rbuf_peekc \/ getc_empty \/ UNCHANGED rbufVars
  BY <1>1, <1>3 DEF rbuf_peekc, getc_empty, rbufVars, RingInv, Place
<1>4. CASE rbuf_getc
  <2>1. Wrap(rd + 1) = IF rd + 1 < Size THEN rd + 1 ELSE rd + 1 - Size
    BY <1>1, WrapIsSubtraction DEF RingInv
  <2> QED BY <1>1, <1>4, <2>1 DEF rbuf_getc, RingInv, Place
<1>5. CASE \E buf \in Bufs : rbuf_write(buf)
  <2>1. PICK buf \in Bufs : rbuf_write(buf)
    BY <1>5
  <2> DEFINE n == Len(buf)
  <2>2. buf \in Seq(Char) /\ n \in 0 .. Size /\ len + n <= Size
    BY <1>1, <2>1 DEF RingBufferAssumption, rbuf_write, RingInv
  <2>3. Wrap(wr + n) = IF wr + n < Size THEN wr + n ELSE wr + n - Size
    BY <1>1, <2>2, WrapIsSubtraction DEF RingInv
  <2>4. mem' \in [0 .. Size - 1 -> Char]
    BY <2>1, WriteFacts
  <2> QED BY <1>1, <2>1, <2>2, <2>3, <2>4 DEF rbuf_write, RingInv, Place
<1> QED BY <1>2, <1>3, <1>4, <1>5 DEF rbufNext

-----------------------------------------------------------------------------
(* The refinement *)

LEMMA PutIsPut ==
    ASSUME RingBufferAssumption, RingInv, RingInv', NEW c \in Char, rbuf_putc(c)
    PROVE  RingFifo!Put
<1>1. /\ Contents \in Seq(Char) /\ Contents' \in Seq(Char)
      /\ Len(Contents) = len /\ Len(Contents') = len + 1
      /\ len \in Nat /\ len + 1 <= Size
  BY ContentsFacts, ContentsFactsNext DEF rbuf_putc, RingInv, RingBufferAssumption
<1>2. /\ rd' = rd /\ wr = Place(len) /\ len' = len + 1
      /\ mem' = [mem EXCEPT ![wr] = c] /\ mem \in [0 .. Size - 1 -> Char]
  BY DEF rbuf_putc, RingInv
<1>3. \A k \in 0 .. len : Place(k) \in 0 .. Size - 1
  BY <1>1, PlaceFacts
<1>4. \A k \in 0 .. len - 1 : Place(k) # wr
  <2>1. len \in 0 .. Size - 1 /\ \A k \in 0 .. len - 1 : k \in 0 .. Size - 1 /\ k # len
    BY <1>1, PlaceFacts
  <2> QED BY <1>2, <2>1, PlaceFacts
<1>5. \A i \in 1 .. len + 1 : Contents'[i] = mem'[Place(i - 1)]
  BY <1>2, ContentsFactsNext DEF Place
<1>6. ASSUME NEW i \in 1 .. len PROVE Contents'[i] = Contents[i]
  <2>1. i \in 1 .. len + 1 /\ i - 1 \in 0 .. len - 1 /\ i - 1 \in 0 .. len
    BY <1>1
  <2>2. mem'[Place(i - 1)] = mem[Place(i - 1)]
    BY <1>2, <1>3, <1>4, <2>1
  <2> QED BY <1>5, <2>1, <2>2, ContentsFacts
<1>7. Contents'[len + 1] = c
  <2>1. len + 1 \in 1 .. len + 1 /\ (len + 1) - 1 = len /\ len \in 0 .. len
    BY <1>1
  <2> QED BY <1>2, <1>3, <1>5, <2>1
<1>8. Contents' = Contents \o <<c>>
  <2>1. <<c>> \in Seq(Char) /\ Len(<<c>>) = 1 /\ <<c>>[1] = c
    OBVIOUS
  <2>2. \A i \in 1 .. Len(<<c>>) : Contents'[Len(Contents) + i] = <<c>>[i]
    BY <1>1, <1>7, <2>1
  <2> QED BY <1>1, <1>6, <2>1, <2>2, Appended
<1> QED BY <1>1, <1>8 DEF RingFifo!Put, rbuf_putc

LEMMA WriteIsPut ==
    ASSUME RingBufferAssumption, RingInv, RingInv', NEW buf \in Bufs, rbuf_write(buf)
    PROVE  RingFifo!Put
<1>1. /\ Contents \in Seq(Char) /\ Contents' \in Seq(Char) /\ buf \in Seq(Char)
      /\ Len(Contents) = len /\ Len(Contents') = len + Len(buf)
      /\ len \in Nat /\ Len(buf) \in Nat /\ len + Len(buf) <= Size
      /\ rd' = rd /\ len' = len + Len(buf)
  BY ContentsFacts, ContentsFactsNext, WriteFacts
     DEF rbuf_write, RingInv, RingBufferAssumption
<1>2. \A i \in 1 .. len' : Contents'[i] = mem'[Place(i - 1)]
  BY <1>1, ContentsFactsNext DEF Place
<1>3. \A i \in 1 .. len : Contents'[i] = Contents[i]
  <2> SUFFICES ASSUME NEW i \in 1 .. len PROVE Contents'[i] = Contents[i]
    OBVIOUS
  <2>1. i \in 1 .. len' /\ i - 1 \in 0 .. len - 1
    BY <1>1
  <2>2. mem'[Place(i - 1)] = mem[Place(i - 1)]
    BY <2>1, WriteFacts
  <2>3. Contents[i] = mem[Place(i - 1)]
    BY ContentsFacts
  <2> QED BY <1>2, <2>1, <2>2, <2>3
<1>4. \A i \in 1 .. Len(buf) : Contents'[len + i] = buf[i]
  <2> SUFFICES ASSUME NEW i \in 1 .. Len(buf) PROVE Contents'[len + i] = buf[i]
    OBVIOUS
  <2>1. /\ len + i \in 1 .. len' /\ i - 1 \in 0 .. Len(buf) - 1
        /\ (len + i) - 1 = len + (i - 1) /\ (i - 1) + 1 = i
    BY <1>1
  <2> QED BY <1>2, <2>1, WriteFacts
<1>5. Contents' = Contents \o buf
  BY <1>1, <1>3, <1>4, Appended
<1> QED BY <1>1, <1>5 DEF RingFifo!Put, rbuf_write

LEMMA GetIsTake ==
    ASSUME RingBufferAssumption, RingInv, RingInv', rbuf_getc
    PROVE  RingFifo!Take
<1>1. /\ Contents \in Seq(Char) /\ Contents' \in Seq(Char)
      /\ len \in 1 .. Size /\ Len(Contents) = len /\ Len(Contents') = len - 1
      /\ Contents # << >> /\ Size \in Nat \ {0} /\ len' = len - 1
  BY ContentsFacts, ContentsFactsNext DEF rbuf_getc, RingInv, RingBufferAssumption
<1>2. \A k \in 0 .. len - 2 : Place(k)' = Place(k + 1)
  <2>1. Wrap(rd + 1) = IF rd + 1 < Size THEN rd + 1 ELSE rd + 1 - Size
    BY <1>1, WrapIsSubtraction DEF RingInv
  <2>2. rd \in 0 .. Size - 1 /\ rd' = Wrap(rd + 1)
    BY DEF rbuf_getc, RingInv
  <2>3. \A k \in 0 .. len - 2 : k \in Nat /\ k + 1 < Size
    BY <1>1
  <2>4. \A k : Place(k)' = IF rd' + k < Size THEN rd' + k ELSE rd' + k - Size
    BY <1>1 DEF Place
  <2> QED BY <1>1, <2>1, <2>2, <2>3, <2>4 DEF Place
<1>3. \A i \in 1 .. len - 1 : Contents'[i] = Contents[i + 1]
  <2> SUFFICES ASSUME NEW i \in 1 .. len - 1 PROVE Contents'[i] = Contents[i + 1]
    OBVIOUS
  <2>1. /\ i \in 1 .. len' /\ i - 1 \in 0 .. len - 2 /\ i + 1 \in 1 .. len
        /\ (i - 1) + 1 = (i + 1) - 1
    BY <1>1
  <2>2. Contents'[i] = mem'[Place(i - 1)']
    BY <2>1, ContentsFactsNext
  <2>3. Contents[i + 1] = mem[Place((i + 1) - 1)]
    BY <2>1, ContentsFacts
  <2>4. Place(i - 1)' = Place((i + 1) - 1)
    BY <1>2, <2>1
  <2> QED BY <2>2, <2>3, <2>4 DEF rbuf_getc
<1>4. Contents' = Tail(Contents)
  <2>1. Tail(Contents) \in Seq(Char) /\ Len(Tail(Contents)) = len - 1
        /\ \A i \in 1 .. len - 1 : Tail(Contents)[i] = Contents[i + 1]
    BY <1>1
  <2> QED BY <1>1, <1>3, <2>1, SeqEqual
<1>5. Head(Contents) = mem[rd]
  BY <1>1, ContentsFacts DEF Place, RingInv
<1> QED BY <1>1, <1>4, <1>5 DEF RingFifo!Take, rbuf_getc

\* The ring buffer is a first-in first-out store of Size characters.
THEOREM RingIsFifo ==
    ASSUME RingBufferAssumption
    PROVE  rbufSpec => RingImplementsFifo
<1>1. rbuf_init => RingFifo!FifoInit
  BY RingInit, ContentsFacts DEF rbuf_init, RingFifo!FifoInit
<1>2. RingInv /\ RingInv' /\ [rbufNext]_rbufVars => [RingFifo!FifoNext]_<<Contents, c_out>>
  <2> SUFFICES ASSUME RingInv, RingInv', [rbufNext]_rbufVars
               PROVE  [RingFifo!FifoNext]_<<Contents, c_out>>
    OBVIOUS
  <2>1. CASE \E c \in Char : rbuf_putc(c)
    BY <2>1, PutIsPut DEF RingFifo!FifoNext
  <2>2. CASE \E buf \in Bufs : rbuf_write(buf)
    BY <2>2, WriteIsPut DEF RingFifo!FifoNext
  <2>3. CASE rbuf_getc
    BY <2>3, GetIsTake DEF RingFifo!FifoNext
  <2>4. CASE getc_empty
    BY <2>4, ContentsFacts DEF getc_empty, Contents, Place, RingFifo!FifoNext, RingFifo!Fails
  <2>5. CASE rbuf_peekc
    <3>1. UNCHANGED Contents
      BY <2>5 DEF rbuf_peekc, Contents, Place
    <3>2. CASE len = 0
      BY <2>5, <3>1, <3>2, ContentsFacts DEF rbuf_peekc, RingFifo!FifoNext, RingFifo!Fails
    <3>3. CASE len # 0
      <4>1. Head(Contents) = mem[rd] /\ Contents # << >>
        BY <3>3, ContentsFacts DEF Place, RingInv, RingBufferAssumption
      <4> QED BY <2>5, <3>1, <3>3, <4>1 DEF rbuf_peekc, RingFifo!FifoNext, RingFifo!Peek
    <3> QED BY <3>2, <3>3
  <2>6. CASE UNCHANGED rbufVars
    BY <2>6 DEF rbufVars, Contents, Place
  <2> QED BY <2>1, <2>2, <2>3, <2>4, <2>5, <2>6 DEF rbufNext
<1> QED BY <1>1, <1>2, RingInit, RingInvStep, PTL DEF rbufSpec, RingImplementsFifo, RingFifo!FifoSpec

-----------------------------------------------------------------------------
(* The queue of items *)

\* How many items the memory has room for
Rooms == memsize \div eltsize

LEMMA Quotient ==
    ASSUME NEW m \in Nat, NEW e \in 1 .. m
    PROVE  /\ m \div e \in Nat \ {0}
           /\ (m \div e) * e \in 1 .. m
<1>1. m = e * (m \div e) + (m % e) /\ m % e \in 0 .. e - 1 /\ m \div e \in Int
  OBVIOUS
<1>2. m \div e > 0
  <2> SUFFICES ASSUME m \div e <= 0 PROVE FALSE
    BY <1>1
  <2>1. e * (m \div e) <= 0
    BY <1>1
  <2> QED BY <1>1, <2>1
<1>3. (m \div e) * e = e * (m \div e)
  BY <1>1
<1>4. e * (m \div e) > 0
  BY <1>1, <1>2
<1> QED BY <1>1, <1>2, <1>3, <1>4

LEMMA MultipleQuotient ==
    ASSUME NEW n \in Nat, NEW e \in Nat \ {0}
    PROVE  (n * e) \div e = n
<1> DEFINE q == (n * e) \div e
           r == (n * e) % e
<1>1. n * e \in Nat
  OBVIOUS
<1>2. n * e = e * q + r /\ r \in 0 .. e - 1 /\ q \in Int
  BY <1>1
<1> HIDE DEF q, r
<1>3. CASE q < n
  <2>1. e * (q + 1) <= e * n
    BY <1>2, <1>3
  <2> QED BY <1>2, <2>1
<1>4. CASE q > n
  <2>1. e * (n + 1) <= e * q
    BY <1>2, <1>4
  <2> QED BY <1>2, <2>1
<1>5. q = n
  BY <1>2, <1>3, <1>4
<1> QED BY <1>5 DEF q

LEMMA Remainder ==
    ASSUME NEW b \in Nat \ {0}, NEW n \in 0 .. 2 * b - 1
    PROVE  n % b = IF n < b THEN n ELSE n - b
OBVIOUS

LEMMA CellsApart ==
    ASSUME NEW e \in Nat \ {0}, NEW a \in Nat, NEW b \in Nat, a < b, NEW k \in 0 .. e - 1
    PROVE  a * e + k < b * e
<1>1. (a + 1) * e <= b * e
  OBVIOUS
<1>2. (a + 1) * e = a * e + e
  OBVIOUS
<1> QED BY <1>1, <1>2

LEMMA CapFacts ==
    ASSUME ItemQueueAssumption
    PROVE  /\ Rooms \in Nat \ {0} /\ eltsize \in Nat \ {0} /\ memsize \in Nat
           /\ cap = Rooms * eltsize /\ cap \in 1 .. memsize
           /\ cap \div eltsize = Rooms
<1>1. memsize \in Nat /\ eltsize \in 1 .. memsize
  BY DEF ItemQueueAssumption
<1>2. Rooms \in Nat \ {0} /\ Rooms * eltsize \in 1 .. memsize
  BY <1>1, Quotient DEF Rooms
<1>3. cap = Rooms * eltsize
  BY DEF cap, Rooms
<1>4. (Rooms * eltsize) \div eltsize = Rooms
  BY <1>1, <1>2, MultipleQuotient
<1> QED BY <1>1, <1>2, <1>3, <1>4

\* Where the i-th cell from the first of the memory on lies
Cell(i) == IF i < Rooms THEN i ELSE i - Rooms

LEMMA CellAt ==
    ASSUME ItemQueueAssumption, NEW i \in 0 .. 2 * Rooms - 1
    PROVE  (i * eltsize) % cap = Cell(i) * eltsize
<1>1. Rooms \in Nat \ {0} /\ eltsize \in Nat \ {0} /\ cap = Rooms * eltsize /\ cap \in Nat \ {0}
  BY CapFacts
<1>2. i * eltsize < 2 * cap
  <2>1. i * eltsize + 0 < (2 * Rooms) * eltsize
    BY <1>1, CellsApart
  <2> QED BY <1>1, <2>1
<1>3. (i * eltsize) % cap = IF i * eltsize < cap THEN i * eltsize ELSE i * eltsize - cap
  <2> DEFINE n == i * eltsize
  <2>1. n \in 0 .. 2 * cap - 1
    BY <1>1, <1>2
  <2> HIDE DEF n
  <2>2. n % cap = IF n < cap THEN n ELSE n - cap
    BY <1>1, <2>1, Remainder
  <2> QED BY <2>2 DEF n
<1>4. CASE i < Rooms
  <2>1. i * eltsize + 0 < Rooms * eltsize
    BY <1>1, <1>4, CellsApart
  <2> QED BY <1>1, <1>3, <1>4, <2>1 DEF Cell
<1>5. CASE i >= Rooms
  <2>1. Rooms * eltsize <= i * eltsize /\ (i - Rooms) * eltsize = i * eltsize - Rooms * eltsize
    BY <1>1, <1>5
  <2> QED BY <1>1, <1>3, <1>5, <2>1 DEF Cell
<1> QED BY <1>1, <1>4, <1>5

\* r cells are behind the one where the queue begins: rd and wr are where cells
\* begin, apart by what the queue holds.
QueueFrom(r) ==
    /\ q_rd = r * eltsize
    /\ q_wr = Cell(r + q_count) * eltsize

QueueInv ==
    /\ bytes \in [0 .. memsize - 1 -> Items \X Int]
    /\ q_count \in 0 .. Rooms
    /\ q_size = q_count * eltsize
    /\ \E r \in 0 .. Rooms - 1 : QueueFrom(r)

LEMMA CellInMemory ==
    ASSUME ItemQueueAssumption, NEW c \in 0 .. Rooms - 1, NEW k \in 0 .. eltsize - 1
    PROVE  c * eltsize + k \in 0 .. memsize - 1
<1>1. Rooms \in Nat \ {0} /\ eltsize \in Nat \ {0} /\ cap = Rooms * eltsize /\ cap \in 1 .. memsize
      /\ memsize \in Nat
  BY CapFacts
<1>2. c * eltsize + k < Rooms * eltsize
  BY <1>1, CellsApart
<1>3. c * eltsize \in Nat
  BY <1>1
<1> QED BY <1>1, <1>2, <1>3

LEMMA QueueInitInv == ASSUME ItemQueueAssumption, q_init PROVE QueueInv
<1>1. /\ Rooms \in Nat \ {0} /\ eltsize \in Nat \ {0} /\ memsize \in Nat
  BY CapFacts
<1>2. QueueFrom(0)
  BY <1>1 DEF q_init, QueueFrom, Cell
<1>3. bytes \in [0 .. memsize - 1 -> Items \X Int]
  BY DEF q_init
<1> QED BY <1>1, <1>2, <1>3 DEF q_init, QueueInv

LEMMA EnqueueInv ==
    ASSUME ItemQueueAssumption, QueueInv, NEW x \in Items, q_enqueue(x),
           NEW r \in 0 .. Rooms - 1, QueueFrom(r)
    PROVE  QueueInv' /\ QueueFrom(r)' /\ q_count < Rooms /\ q_count' = q_count + 1
<1>1. /\ Rooms \in Nat \ {0} /\ eltsize \in Nat \ {0} /\ memsize \in Nat /\ cap = Rooms * eltsize
  BY CapFacts
<1>2. q_count \in 0 .. Rooms /\ q_size = q_count * eltsize /\ q_size # cap
  BY DEF QueueInv, q_enqueue, HasRoom
<1>3. q_count < Rooms
  BY <1>1, <1>2
<1> DEFINE w == Cell(r + q_count)
<1>4. w \in 0 .. Rooms - 1 /\ q_wr = w * eltsize /\ q_rd = r * eltsize
  BY <1>1, <1>2 DEF QueueFrom, Cell
<1>5. Cell(w + 1) = Cell(r + (q_count + 1))
  BY <1>1, <1>2, <1>3 DEF Cell
<1>6. q_wr' = Cell(w + 1) * eltsize
  <2>1. q_wr' = (q_wr + eltsize) % cap
    BY DEF q_enqueue
  <2>2. q_wr + eltsize = (w + 1) * eltsize
    BY <1>1, <1>4
  <2>3. w + 1 \in 0 .. 2 * Rooms - 1
    BY <1>1, <1>4
  <2> HIDE DEF w
  <2> QED BY <2>1, <2>2, <2>3, CellAt
<1> HIDE DEF w
<1>7. q_count' = q_count + 1 /\ q_rd' = q_rd /\ q_size' = q_size + eltsize
  BY DEF q_enqueue
<1>8. QueueFrom(r)'
  BY <1>4, <1>5, <1>6, <1>7 DEF QueueFrom, Cell, Rooms
<1>9. q_size' = q_count' * eltsize
  BY <1>1, <1>2, <1>7
<1>10. bytes' \in [0 .. memsize - 1 -> Items \X Int]
  <2>1. /\ bytes' = [o \in DOMAIN bytes |->
                      IF o \in q_wr .. q_wr + eltsize - 1 THEN <<x, o - q_wr>> ELSE bytes[o]]
        /\ bytes \in [0 .. memsize - 1 -> Items \X Int]
    BY DEF q_enqueue, QueueInv
  <2>2. q_wr \in Int
    BY <1>1, <1>4
  <2>3. \A o \in 0 .. memsize - 1 : <<x, o - q_wr>> \in Items \X Int /\ bytes[o] \in Items \X Int
    BY <1>1, <2>1, <2>2
  <2> QED BY <2>1, <2>3
<1>11. q_count' \in 0 .. Rooms
  BY <1>1, <1>2, <1>3, <1>7
<1> QED BY <1>3, <1>7, <1>8, <1>9, <1>10, <1>11 DEF QueueInv, Rooms

LEMMA DequeueInv ==
    ASSUME ItemQueueAssumption, QueueInv, q_dequeue,
           NEW r \in 0 .. Rooms - 1, QueueFrom(r)
    PROVE  QueueInv' /\ QueueFrom(Cell(r + 1))' /\ q_count > 0 /\ q_count' = q_count - 1
<1>1. /\ Rooms \in Nat \ {0} /\ eltsize \in Nat \ {0} /\ memsize \in Nat /\ cap = Rooms * eltsize
  BY CapFacts
<1>2. q_count \in 0 .. Rooms /\ q_size = q_count * eltsize /\ q_size # 0
  BY DEF QueueInv, q_dequeue
<1>3. q_count > 0
  BY <1>1, <1>2
<1>4. q_rd = r * eltsize /\ q_wr = Cell(r + q_count) * eltsize
  BY DEF QueueFrom
<1>5. /\ q_count' = q_count - 1 /\ q_wr' = q_wr /\ q_size' = q_size - eltsize
      /\ q_rd' = (q_rd + eltsize) % cap /\ bytes' = bytes
  BY DEF q_dequeue
<1>6. q_rd' = Cell(r + 1) * eltsize
  <2>1. q_rd + eltsize = (r + 1) * eltsize
    BY <1>1, <1>4
  <2>2. r + 1 \in 0 .. 2 * Rooms - 1
    BY <1>1
  <2> QED BY <1>5, <2>1, <2>2, CellAt
<1>7. Cell(r + 1) \in 0 .. Rooms - 1 /\ Cell(r + q_count) = Cell(Cell(r + 1) + (q_count - 1))
  BY <1>1, <1>2, <1>3 DEF Cell
<1>8. QueueFrom(Cell(r + 1))'
  BY <1>4, <1>5, <1>6, <1>7 DEF QueueFrom, Cell, Rooms
<1>9. q_size' = q_count' * eltsize
  BY <1>1, <1>2, <1>5
<1>10. q_count' \in 0 .. Rooms
  BY <1>1, <1>2, <1>3, <1>5
<1>11. bytes' \in [0 .. memsize - 1 -> Items \X Int]
  BY <1>5 DEF QueueInv
<1> QED BY <1>3, <1>5, <1>7, <1>8, <1>9, <1>10, <1>11 DEF QueueInv, Rooms

-----------------------------------------------------------------------------
(* The queue implements Fifo *)

\* The bytes of the cell c of the memory m
InCell(m, c) == [k \in 0 .. eltsize - 1 |-> m[c * eltsize + k]]

LEMMA CellOfItem ==
    ASSUME ItemQueueAssumption, NEW r \in 0 .. Rooms - 1, NEW i \in 1 .. Rooms
    PROVE  (r * eltsize + (i - 1) * eltsize) % cap = Cell(r + (i - 1)) * eltsize
<1>1. Rooms \in Nat \ {0} /\ eltsize \in Nat \ {0}
  BY CapFacts
<1>2. r * eltsize + (i - 1) * eltsize = (r + (i - 1)) * eltsize
  BY <1>1
<1>3. r + (i - 1) \in 0 .. 2 * Rooms - 1
  BY <1>1
<1> QED BY <1>2, <1>3, CellAt

\* The items in the queue, item by item
ItemsKnown(r) ==
    /\ q_count \in 0 .. Rooms /\ Len(ItemsQueued) = q_count
    /\ ItemsQueued \in Seq([0 .. eltsize - 1 -> Items \X Int])
    /\ \A i \in 1 .. q_count : ItemsQueued[i] = InCell(bytes, Cell(r + (i - 1)))
    /\ ItemsQueued = << >> <=> q_count = 0

LEMMA ItemsAre ==
    ASSUME ItemQueueAssumption, QueueInv, NEW r \in 0 .. Rooms - 1, QueueFrom(r)
    PROVE  ItemsKnown(r)
<1>1. Rooms \in Nat \ {0} /\ eltsize \in Nat \ {0}
  BY CapFacts
<1>2. q_count \in 0 .. Rooms /\ q_rd = r * eltsize /\ bytes \in [0 .. memsize - 1 -> Items \X Int]
  BY DEF QueueInv, QueueFrom
<1>3. ASSUME NEW i \in 1 .. q_count
      PROVE  /\ ItemAt(i) = InCell(bytes, Cell(r + (i - 1)))
             /\ ItemAt(i) \in [0 .. eltsize - 1 -> Items \X Int]
  <2>1. i \in 1 .. Rooms
    BY <1>1, <1>2
  <2>2. (q_rd + (i - 1) * eltsize) % cap = Cell(r + (i - 1)) * eltsize
    BY <1>2, <2>1, CellOfItem
  <2>3. ItemAt(i) = InCell(bytes, Cell(r + (i - 1)))
    BY <2>2 DEF ItemAt, InCell
  <2>4. Cell(r + (i - 1)) \in 0 .. Rooms - 1
    BY <1>1, <2>1 DEF Cell
  <2>5. \A k \in 0 .. eltsize - 1 : bytes[Cell(r + (i - 1)) * eltsize + k] \in Items \X Int
    BY <1>2, <2>4, CellInMemory
  <2> QED BY <2>3, <2>5 DEF InCell
<1>4. ItemsQueued \in Seq([0 .. eltsize - 1 -> Items \X Int]) /\ Len(ItemsQueued) = q_count
  BY <1>2, <1>3 DEF ItemsQueued
<1>5. \A i \in 1 .. q_count : ItemsQueued[i] = InCell(bytes, Cell(r + (i - 1)))
  BY <1>2, <1>3 DEF ItemsQueued
<1>6. ItemsQueued = << >> <=> q_count = 0
  BY <1>2, <1>4
<1> QED BY <1>2, <1>4, <1>5, <1>6 DEF ItemsKnown

LEMMA ItemsAreNext ==
    ASSUME ItemQueueAssumption, NEW r \in 0 .. Rooms - 1
    PROVE  QueueInv' /\ QueueFrom(r)' => ItemsKnown(r)'
<1>1. QueueInv /\ QueueFrom(r) => ItemsKnown(r)
  BY ItemsAre
<1> QED BY <1>1, PTL

LEMMA EnqueueIsPut ==
    ASSUME ItemQueueAssumption, QueueInv, NEW x \in Items, q_enqueue(x)
    PROVE  QueueFifo!Put
<1>1. PICK r \in 0 .. Rooms - 1 : QueueFrom(r)
  BY DEF QueueInv
<1>2. QueueInv' /\ QueueFrom(r)' /\ q_count < Rooms /\ q_count' = q_count + 1
  BY <1>1, EnqueueInv
<1>3. ItemsKnown(r) /\ ItemsKnown(r)'
  BY <1>1, <1>2, ItemsAre, ItemsAreNext
<1>4. Rooms \in Nat \ {0} /\ eltsize \in Nat \ {0} /\ cap \div eltsize = Rooms
  BY CapFacts
<1> DEFINE w == Cell(r + q_count)
<1>5. /\ q_count \in 0 .. Rooms - 1 /\ w \in 0 .. Rooms - 1 /\ q_wr = w * eltsize
      /\ bytes' = [o \in 0 .. memsize - 1 |->
                    IF o \in q_wr .. q_wr + eltsize - 1 THEN <<x, o - q_wr>> ELSE bytes[o]]
  <2>1. q_count \in 0 .. Rooms - 1
    BY <1>2, <1>3, <1>4 DEF ItemsKnown
  <2>2. w \in 0 .. Rooms - 1 /\ q_wr = w * eltsize
    BY <1>1, <1>4, <2>1 DEF QueueFrom, Cell
  <2>3. DOMAIN bytes = 0 .. memsize - 1
    BY DEF QueueInv
  <2>4. bytes' = [o \in 0 .. memsize - 1 |->
                    IF o \in q_wr .. q_wr + eltsize - 1 THEN <<x, o - q_wr>> ELSE bytes[o]]
    BY <2>3 DEF q_enqueue
  <2> QED BY <2>1, <2>2, <2>4
<1>6. ASSUME NEW c \in 0 .. Rooms - 1, c # w PROVE InCell(bytes', c) = InCell(bytes, c)
  <2> SUFFICES ASSUME NEW k \in 0 .. eltsize - 1
               PROVE  bytes'[c * eltsize + k] = bytes[c * eltsize + k]
    BY DEF InCell
  <2> HIDE DEF w
  <2>1. c * eltsize + k \in 0 .. memsize - 1
    BY CellInMemory
  <2>2. c < w => c * eltsize + k < w * eltsize
    BY <1>4, <1>5, CellsApart
  <2>3. c > w => w * eltsize + (eltsize - 1) < c * eltsize
    BY <1>4, <1>5, CellsApart
  <2>4. c * eltsize \in Nat /\ w * eltsize \in Nat
    BY <1>4, <1>5
  <2>5. c * eltsize + k \notin q_wr .. q_wr + eltsize - 1
    BY <1>4, <1>5, <1>6, <2>2, <2>3, <2>4
  <2> QED BY <1>5, <2>1, <2>5
<1>7. InCell(bytes', w) = Whole(x)
  <2> SUFFICES ASSUME NEW k \in 0 .. eltsize - 1
               PROVE  bytes'[w * eltsize + k] = <<x, k>>
    BY DEF InCell, Whole
  <2> HIDE DEF w
  <2>1. w * eltsize + k \in 0 .. memsize - 1
    BY <1>5, CellInMemory
  <2>2. w * eltsize \in Nat
    BY <1>4, <1>5
  <2>3. w * eltsize + k \in q_wr .. q_wr + eltsize - 1 /\ (w * eltsize + k) - q_wr = k
    BY <1>4, <1>5, <2>2
  <2> QED BY <1>5, <2>1, <2>3
<1>8. ASSUME NEW i \in 1 .. q_count PROVE ItemsQueued'[i] = ItemsQueued[i]
  <2>1. i \in 1 .. q_count + 1
    BY <1>5
  <2>3. Cell(r + (i - 1)) \in 0 .. Rooms - 1 /\ Cell(r + (i - 1)) # w
    BY <1>4, <1>5 DEF Cell
  <2>2. ItemsQueued'[i] = InCell(bytes', Cell(r + (i - 1)))
    BY <1>2, <1>3, <2>1 DEF ItemsKnown, InCell, Cell, Rooms
  <2> QED BY <1>3, <1>6, <2>2, <2>3 DEF ItemsKnown
<1>9. ItemsQueued'[q_count + 1] = Whole(x)
  <2>1. q_count + 1 \in 1 .. q_count + 1 /\ r + ((q_count + 1) - 1) = r + q_count
    BY <1>5
  <2>2. ItemsQueued'[q_count + 1] = InCell(bytes', Cell(r + ((q_count + 1) - 1)))
    BY <1>2, <1>3, <2>1 DEF ItemsKnown, InCell, Cell, Rooms
  <2> QED BY <1>7, <2>1, <2>2
<1>10. ItemsQueued' = ItemsQueued \o <<Whole(x)>>
  <2> DEFINE S == [0 .. eltsize - 1 -> Items \X Int]
  <2>1. <<Whole(x)>> \in Seq(S) /\ Len(<<Whole(x)>>) = 1 /\ <<Whole(x)>>[1] = Whole(x)
    <3>1. Whole(x) \in S
      BY DEF Whole
    <3> QED BY <3>1
  <2>2. /\ ItemsQueued \in Seq(S) /\ ItemsQueued' \in Seq(S)
        /\ Len(ItemsQueued) = q_count /\ Len(ItemsQueued') = q_count + 1 /\ q_count \in Nat
    BY <1>2, <1>3, <1>5 DEF ItemsKnown
  <2>3. \A i \in 1 .. Len(<<Whole(x)>>) : ItemsQueued'[Len(ItemsQueued) + i] = <<Whole(x)>>[i]
    BY <1>9, <2>1, <2>2
  <2> HIDE DEF S
  <2> QED BY <1>8, <2>1, <2>2, <2>3, Appended
<1>11. Len(ItemsQueued) + Len(<<Whole(x)>>) <= cap \div eltsize
  BY <1>3, <1>4, <1>5 DEF ItemsKnown
<1>12. <<Whole(x)>> \in {<<Whole(y)>> : y \in Items} /\ buf_out' = << >>
  BY DEF q_enqueue
<1> QED BY <1>10, <1>11, <1>12 DEF QueueFifo!Put

LEMMA DequeueIsTake ==
    ASSUME ItemQueueAssumption, QueueInv, q_dequeue
    PROVE  QueueFifo!Take
<1>1. PICK r \in 0 .. Rooms - 1 : QueueFrom(r)
  BY DEF QueueInv
<1>2. QueueInv' /\ QueueFrom(Cell(r + 1))' /\ q_count > 0 /\ q_count' = q_count - 1
  BY <1>1, DequeueInv
<1>3. Rooms \in Nat \ {0} /\ eltsize \in Nat \ {0}
  BY CapFacts
<1>4. Cell(r + 1) \in 0 .. Rooms - 1
  BY <1>3 DEF Cell
<1>5. ItemsKnown(r) /\ ItemsKnown(Cell(r + 1))'
  <2>1. ItemsKnown(r)
    BY <1>1, ItemsAre
  <2> DEFINE c == Cell(r + 1)
  <2>2. c \in 0 .. Rooms - 1 /\ QueueFrom(c)'
    BY <1>2, <1>4 DEF QueueFrom, Cell, Rooms
  <2> HIDE DEF c
  <2>3. ItemsKnown(c)'
    BY <1>2, <2>2, ItemsAreNext
  <2> QED BY <2>1, <2>3 DEF c, ItemsKnown, InCell, Cell, Rooms
<1>6. q_count \in 1 .. Rooms /\ bytes' = bytes
  BY <1>2, <1>5 DEF ItemsKnown, q_dequeue
<1>7. ASSUME NEW i \in 1 .. q_count - 1 PROVE ItemsQueued'[i] = ItemsQueued[i + 1]
  <2>1. /\ i \in 1 .. q_count /\ i + 1 \in 1 .. q_count /\ i \in 1 .. q_count'
        /\ Cell(Cell(r + 1) + (i - 1)) = Cell(r + ((i + 1) - 1))
    BY <1>2, <1>3, <1>6 DEF Cell
  <2>2. ItemsQueued'[i] = InCell(bytes', Cell(Cell(r + 1) + (i - 1)))
    BY <1>5, <2>1 DEF ItemsKnown, InCell, Cell, Rooms
  <2> QED BY <1>5, <1>6, <2>1, <2>2 DEF ItemsKnown
<1> DEFINE S == [0 .. eltsize - 1 -> Items \X Int]
<1>8. /\ ItemsQueued \in Seq(S) /\ ItemsQueued' \in Seq(S) /\ ItemsQueued # << >>
      /\ Len(ItemsQueued) = q_count /\ Len(ItemsQueued') = q_count - 1
  BY <1>2, <1>5, <1>6 DEF ItemsKnown
<1> HIDE DEF S
<1>9. ItemsQueued' = Tail(ItemsQueued)
  <2>1. Tail(ItemsQueued) \in Seq(S) /\ Len(Tail(ItemsQueued)) = q_count - 1
        /\ \A i \in 1 .. q_count - 1 : Tail(ItemsQueued)[i] = ItemsQueued[i + 1]
    BY <1>6, <1>8
  <2> QED BY <1>6, <1>7, <1>8, <2>1, SeqEqual
<1>10. Head(ItemsQueued) = [k \in 0 .. eltsize - 1 |-> bytes[q_rd + k]]
  <2>1. 1 \in 1 .. q_count /\ Cell(r + (1 - 1)) = r /\ q_rd = r * eltsize
    BY <1>1, <1>3, <1>6 DEF Cell, QueueFrom
  <2>2. ItemsQueued[1] = InCell(bytes, r)
    BY <1>5, <2>1 DEF ItemsKnown
  <2> QED BY <1>8, <2>1, <2>2 DEF InCell
<1>11. buf_out' = <<Head(ItemsQueued)>>
  BY <1>10 DEF q_dequeue
<1> QED BY <1>8, <1>9, <1>11 DEF QueueFifo!Take

\* The queue is a first-in first-out store of as many whole items as its memory
\* has room for, for any size of the items and of the memory.
THEOREM QueueIsFifo ==
    ASSUME ItemQueueAssumption
    PROVE  queueSpec => QueueImplementsFifo
<1>1. q_init => QueueInv /\ QueueFifo!FifoInit
  <2>1. q_init => QueueInv
    BY QueueInitInv
  <2>2. q_init => ItemsQueued = << >>
    BY DEF q_init, ItemsQueued
  <2> QED BY <2>1, <2>2 DEF q_init, QueueFifo!FifoInit
<1>2. QueueInv /\ [queueNext]_queueVars => QueueInv' /\ [QueueFifo!FifoNext]_<<ItemsQueued, buf_out>>
  <2> SUFFICES ASSUME QueueInv, [queueNext]_queueVars
               PROVE  QueueInv' /\ [QueueFifo!FifoNext]_<<ItemsQueued, buf_out>>
    OBVIOUS
  <2>0. PICK r \in 0 .. Rooms - 1 : QueueFrom(r)
    BY DEF QueueInv
  <2>1. CASE \E x \in Items : q_enqueue(x)
    <3>1. QueueInv'
      BY <2>0, <2>1, EnqueueInv
    <3> QED BY <2>1, <3>1, EnqueueIsPut DEF QueueFifo!FifoNext
  <2>2. CASE q_dequeue
    <3>1. QueueInv'
      BY <2>0, <2>2, DequeueInv
    <3> QED BY <2>2, <3>1, DequeueIsTake DEF QueueFifo!FifoNext
  <2>3. UNCHANGED <<q_wr, q_rd, q_size, q_count, bytes>> => QueueInv' /\ UNCHANGED ItemsQueued
    <3> SUFFICES ASSUME UNCHANGED <<q_wr, q_rd, q_size, q_count, bytes>>
                 PROVE  QueueInv' /\ UNCHANGED ItemsQueued
      OBVIOUS
    <3>1. QueueFrom(r)'
      BY <2>0 DEF QueueFrom, Cell
    <3> QED BY <3>1 DEF QueueInv, ItemsQueued, ItemAt, Rooms
  <2>4. CASE dequeue_empty
    <3>1. ItemsQueued = << >>
      <4>1. q_count = 0
        <5>1. eltsize \in Nat \ {0} /\ q_count \in Nat /\ q_size = q_count * eltsize /\ q_size = 0
          BY <2>4, CapFacts DEF QueueInv, dequeue_empty
        <5> QED BY <5>1
      <4> QED BY <2>0, <4>1, ItemsAre DEF ItemsKnown
    <3> QED BY <2>3, <2>4, <3>1 DEF dequeue_empty, QueueFifo!FifoNext, QueueFifo!Fails
  <2>5. CASE enqueue_full
    <3>1. Len(ItemsQueued) = cap \div eltsize
      <4>1. /\ eltsize \in Nat \ {0} /\ Rooms \in Nat /\ q_count \in Nat
            /\ q_count * eltsize = Rooms * eltsize /\ cap \div eltsize = Rooms
        BY <2>5, CapFacts DEF QueueInv, enqueue_full, HasRoom
      <4>2. q_count = Rooms
        BY <4>1
      <4> QED BY <2>0, <4>1, <4>2, ItemsAre DEF ItemsKnown
    <3> QED BY <2>3, <2>5, <3>1 DEF enqueue_full, QueueFifo!FifoNext, QueueFifo!Fails
  <2>6. CASE UNCHANGED queueVars
    BY <2>3, <2>6 DEF queueVars
  <2> QED BY <2>1, <2>2, <2>4, <2>5, <2>6 DEF queueNext
<1> QED BY <1>1, <1>2, PTL DEF queueSpec, QueueImplementsFifo, QueueFifo!FifoSpec

-----------------------------------------------------------------------------
(* The memory copy *)

\* Where a byte at a comes from
ByteFor(a) == IF call.fn = "memset" THEN Filled ELSE call.src + (a - call.dest)

Bursts == {"burst_cpy40", "burst_cpy20", "burst_cpy12", "burst_cpy4"}

CopyTypes ==
    /\ call \in [fn : {"memcpy", "memset"}, dest : Nat, src : Nat, size : Nat]
    /\ r0 \in Nat /\ r1 \in Nat /\ r2 \in Int
    /\ at \in {"memcpy", "fix_alignment", "copy_rest", "memset_loop", "memcpy_done"} \cup Bursts

\* What is copied so far, and what the registers say of the rest
CopiedSoFar ==
    /\ call.dest <= r0 /\ r0 <= call.dest + call.size
    /\ DOMAIN copied = call.dest .. r0 - 1
    /\ copied = [a \in DOMAIN copied |-> copied[a]]
    /\ \A a \in call.dest .. r0 - 1 : copied[a] = ByteFor(a)

Registers ==
    /\ call.fn = "memcpy" => /\ at # "memset_loop"
                             /\ r0 + r2 = call.dest + call.size
                             /\ r1 - call.src = r0 - call.dest
    /\ call.fn = "memset" => /\ at \in {"memset_loop", "memcpy_done"}
                             /\ at = "memset_loop" => r0 + r2 = call.dest + call.size + 1

\* Words are only copied between addresses of words, and there is enough to
\* copy to reach them.
Alignment ==
    /\ aligned = TRUE
    /\ at \in Bursts => r0 % 4 = 0 /\ r1 % 4 = 0
    /\ at = "fix_alignment" => r0 % 4 # 0 /\ r0 % 4 = r1 % 4
    /\ at \in {"memcpy", "fix_alignment"} /\ r0 % 4 # 0 /\ r0 % 4 = r1 % 4 => r2 + (r0 % 4) >= 4
    /\ at = "memcpy_done" => r0 = call.dest + call.size

MemInv == CopyTypes /\ CopiedSoFar /\ Registers /\ Alignment

\* k bytes more
LEMMA CopyMore ==
    ASSUME MemInv, call.fn = "memcpy", NEW k \in Nat \ {0}, k <= r2, Copy(k), call' = call
    PROVE  CopiedSoFar' /\ r0' = r0 + k /\ r1' = r1 + k /\ r2' = r2 - k
<1>1. /\ r0' = r0 + k /\ r1' = r1 + k /\ r2' = r2 - k
      /\ copied' = [a \in DOMAIN copied \cup r0 .. r0 + k - 1 |->
                      IF a \in r0 .. r0 + k - 1 THEN r1 + (a - r0) ELSE copied[a]]
  BY DEF Copy
<1>2. /\ r0 \in Nat /\ r1 \in Nat /\ r2 \in Int /\ call.dest \in Nat /\ call.src \in Nat /\ call.size \in Nat
      /\ call.dest <= r0 /\ r0 + r2 = call.dest + call.size /\ r1 - call.src = r0 - call.dest
  BY DEF MemInv, CopyTypes, CopiedSoFar, Registers
<1>3. /\ DOMAIN copied = call.dest .. r0 - 1
      /\ \A a \in call.dest .. r0 - 1 : copied[a] = call.src + (a - call.dest)
  BY DEF MemInv, CopiedSoFar, ByteFor
<1>4. DOMAIN copied' = call.dest .. r0' - 1
  <2>1. DOMAIN copied' = (call.dest .. r0 - 1) \cup (r0 .. r0 + k - 1)
    BY <1>1, <1>3
  <2>2. (call.dest .. r0 - 1) \cup (r0 .. r0 + k - 1) = call.dest .. r0 + k - 1
    BY <1>2
  <2> QED BY <1>1, <1>2, <2>1, <2>2
<1>5. ASSUME NEW a \in call.dest .. r0' - 1
      PROVE  copied'[a] = call.src + (a - call.dest)
  <2>1. CASE a \in r0 .. r0 + k - 1
    <3>1. copied'[a] = r1 + (a - r0)
      BY <1>1, <1>4, <2>1
    <3> QED BY <1>2, <2>1, <3>1
  <2>2. CASE a \notin r0 .. r0 + k - 1
    <3>1. a \in call.dest .. r0 - 1
      BY <1>1, <1>2, <2>2
    <3>2. copied'[a] = copied[a]
      BY <1>1, <1>4, <2>2
    <3> QED BY <1>3, <3>1, <3>2
  <2> QED BY <2>1, <2>2
<1>6. copied' = [a \in DOMAIN copied' |-> copied'[a]]
  BY <1>1
<1> QED BY <1>1, <1>2, <1>4, <1>5, <1>6 DEF CopiedSoFar, ByteFor

LEMMA SameCopied ==
    ASSUME MemInv, UNCHANGED <<call, r0, copied>>
    PROVE  CopiedSoFar'
BY DEF MemInv, CopiedSoFar, ByteFor

LEMMA BurstStep ==
    ASSUME MemInv, NEW label \in Bursts, NEW k \in {4, 12, 20, 40},
           NEW next \in Bursts \cup {"copy_rest"}, Burst(label, k, next)
    PROVE  MemInv'
<1>1. at = label /\ call.fn = "memcpy" /\ r0 % 4 = 0 /\ r1 % 4 = 0 /\ aligned = TRUE
  BY DEF Burst, MemInv, CopyTypes, Registers, Alignment, Bursts
<1>2. CASE r2 < k /\ at' = next /\ UNCHANGED <<call, r0, r1, r2, copied, aligned>>
  <2>1. CopyTypes' /\ Registers' /\ Alignment'
    BY <1>1, <1>2 DEF MemInv, CopyTypes, Registers, Alignment, Bursts
  <2> QED BY <1>2, <2>1, SameCopied DEF MemInv
<1>3. CASE /\ r2 >= k /\ Copy(k)
           /\ aligned' = (aligned /\ r0 % 4 = 0 /\ r1 % 4 = 0) /\ UNCHANGED <<call, at>>
  <2>1. CopiedSoFar' /\ r0' = r0 + k /\ r1' = r1 + k /\ r2' = r2 - k
    BY <1>1, <1>3, CopyMore DEF MemInv, CopyTypes
  <2>2. r0 \in Nat /\ r1 \in Nat /\ r2 \in Int
    BY DEF MemInv, CopyTypes
  <2>3. r0' % 4 = 0 /\ r1' % 4 = 0
    BY <1>1, <2>1, <2>2
  <2>4. aligned' = TRUE
    BY <1>1, <1>3
  <2>5. CopyTypes' /\ Registers'
    BY <1>1, <1>3, <2>1, <2>2 DEF MemInv, CopyTypes, Registers, Bursts
  <2>6. Alignment'
    BY <1>1, <1>3, <2>3, <2>4 DEF Alignment, Bursts
  <2> QED BY <2>1, <2>5, <2>6 DEF MemInv
<1> QED BY <1>2, <1>3 DEF Burst

LEMMA memcpyStep == ASSUME MemInv, memcpy PROVE MemInv'
<1>1. at = "memcpy" /\ UNCHANGED <<call, r0, r1, r2, copied, aligned>>
  BY DEF memcpy
<1>2. CopiedSoFar'
  BY <1>1, SameCopied
<1>3. CopyTypes' /\ Registers' /\ Alignment'
  BY <1>1 DEF memcpy, MemInv, CopyTypes, Registers, Alignment, Bursts
<1> QED BY <1>2, <1>3 DEF MemInv

LEMMA fix_alignmentStep == ASSUME MemInv, fix_alignment PROVE MemInv'
<1>1. /\ at = "fix_alignment" /\ Copy(1) /\ UNCHANGED <<call, aligned>>
      /\ at' = IF r0' % 4 = 0 THEN "burst_cpy40" ELSE at
  BY DEF fix_alignment
<1>2. /\ call.fn = "memcpy" /\ r0 % 4 # 0 /\ r0 % 4 = r1 % 4 /\ r2 + (r0 % 4) >= 4 /\ aligned = TRUE
      /\ r0 \in Nat /\ r1 \in Nat /\ r2 \in Int
  BY <1>1 DEF MemInv, CopyTypes, Registers, Alignment
<1>3. r2 >= 1
  BY <1>2
<1>4. CopiedSoFar' /\ r0' = r0 + 1 /\ r1' = r1 + 1 /\ r2' = r2 - 1
  BY <1>1, <1>2, <1>3, CopyMore
<1>5. /\ r0' % 4 = r1' % 4
      /\ r0' % 4 # 0 => r0' % 4 = (r0 % 4) + 1
  BY <1>2, <1>4
<1>6. CopyTypes' /\ Registers'
  BY <1>1, <1>2, <1>4 DEF MemInv, CopyTypes, Registers, Bursts
<1>7. Alignment'
  BY <1>1, <1>2, <1>4, <1>5 DEF Alignment, Bursts
<1> QED BY <1>4, <1>6, <1>7 DEF MemInv

LEMMA copy_restStep == ASSUME MemInv, copy_rest PROVE MemInv'
<1>1. at = "copy_rest" /\ call.fn = "memcpy" /\ r0 \in Nat /\ r1 \in Nat /\ r2 \in Int /\ aligned = TRUE
  BY DEF copy_rest, MemInv, CopyTypes, Registers, Alignment
<1>2. CASE r2 < 1 /\ at' = "memcpy_done" /\ UNCHANGED <<call, r0, r1, r2, copied, aligned>>
  <2>1. CopiedSoFar'
    BY <1>2, SameCopied
  <2>2. CopyTypes' /\ Registers'
    BY <1>1, <1>2 DEF MemInv, CopyTypes, Registers
  <2>3. r0 = call.dest + call.size
    BY <1>1, <1>2 DEF MemInv, CopyTypes, Registers, CopiedSoFar
  <2> QED BY <1>1, <1>2, <2>1, <2>2, <2>3 DEF MemInv, Alignment, Bursts
<1>3. CASE r2 >= 1 /\ Copy(1) /\ UNCHANGED <<call, at, aligned>>
  <2>1. CopiedSoFar' /\ r0' = r0 + 1 /\ r1' = r1 + 1 /\ r2' = r2 - 1
    BY <1>1, <1>3, CopyMore
  <2>2. CopyTypes' /\ Registers'
    BY <1>1, <1>3, <2>1 DEF MemInv, CopyTypes, Registers
  <2> QED BY <1>1, <1>3, <2>1, <2>2 DEF MemInv, Alignment, Bursts
<1> QED BY <1>2, <1>3 DEF copy_rest

LEMMA memset_loopStep == ASSUME MemInv, memset_loop PROVE MemInv'
<1>1. /\ at = "memset_loop" /\ call.fn = "memset" /\ r0 \in Nat /\ r1 \in Nat /\ r2 \in Int
      /\ aligned = TRUE /\ r2' = r2 - 1 /\ UNCHANGED <<call, r1, aligned>>
      /\ call.dest \in Nat /\ call.size \in Nat /\ r0 + r2 = call.dest + call.size + 1
  BY DEF memset_loop, MemInv, CopyTypes, Registers, Alignment
<1>2. CASE r2 = 1 /\ at' = "memcpy_done" /\ UNCHANGED <<r0, copied>>
  <2>1. CopiedSoFar'
    BY <1>1, <1>2, SameCopied
  <2>2. CopyTypes' /\ Registers'
    BY <1>1, <1>2 DEF MemInv, CopyTypes, Registers
  <2> QED BY <1>1, <1>2, <2>1, <2>2 DEF MemInv, Alignment, Bursts
<1>3. CASE /\ r2 # 1
           /\ copied' = [a \in DOMAIN copied \cup {r0} |-> IF a = r0 THEN Filled ELSE copied[a]]
           /\ r0' = r0 + 1
           /\ UNCHANGED at
  <2>1. /\ DOMAIN copied = call.dest .. r0 - 1 /\ call.dest <= r0 /\ r0 <= call.dest + call.size
        /\ \A a \in call.dest .. r0 - 1 : copied[a] = Filled
    BY <1>1 DEF MemInv, CopiedSoFar, ByteFor
  <2>2. DOMAIN copied' = call.dest .. r0' - 1
    <3>1. DOMAIN copied' = (call.dest .. r0 - 1) \cup {r0}
      BY <1>3, <2>1
    <3>2. (call.dest .. r0 - 1) \cup {r0} = call.dest .. r0
      BY <1>1, <2>1
    <3> QED BY <1>1, <1>3, <3>1, <3>2
  <2>3. \A a \in call.dest .. r0' - 1 : copied'[a] = Filled
    BY <1>1, <1>3, <2>1, <2>2
  <2>4. copied' = [a \in DOMAIN copied' |-> copied'[a]]
    BY <1>3
  <2>5. r0' <= call.dest + call.size
    BY <1>1, <1>3, <2>1
  <2>6. CopiedSoFar'
    BY <1>1, <1>3, <2>1, <2>2, <2>3, <2>4, <2>5 DEF CopiedSoFar, ByteFor
  <2>7. CopyTypes' /\ Registers'
    BY <1>1, <1>3 DEF MemInv, CopyTypes, Registers
  <2> QED BY <1>1, <1>3, <2>6, <2>7 DEF MemInv, Alignment, Bursts
<1> QED BY <1>2, <1>3 DEF memset_loop

LEMMA MemInitInv == ASSUME MemoryCopyAssumption, AnySize = FALSE, MemInit PROVE MemInv
<1>1. PICK fn \in {"memcpy", "memset"}, dest \in Alignments, offset \in Alignments, size \in Sizes :
          /\ fn = "memset" => offset = 0
          /\ fn = "memset" \/ LongEnough(dest, offset, size)
          /\ call = [fn |-> fn, dest |-> dest, src |-> Source + offset, size |-> size]
          /\ r0 = dest
          /\ r1 = Source + offset
          /\ r2 = IF fn = "memset" THEN size + 1 ELSE size
          /\ at = IF fn = "memset" THEN "memset_loop" ELSE "memcpy"
  BY DEF MemInit
<1>2. dest \in Nat /\ offset \in Nat /\ size \in Nat /\ Source = 1000
  BY DEF MemoryCopyAssumption, Source
<1>3. copied = << >> /\ aligned = TRUE
  BY DEF MemInit
<1>4. CopiedSoFar
  <2>1. call.dest = dest /\ call.size = size
    BY <1>1
  <2>2. dest .. dest - 1 = {} /\ DOMAIN copied = {}
    BY <1>2, <1>3
  <2>3. copied = [a \in DOMAIN copied |-> copied[a]]
    BY <1>3
  <2> QED BY <1>1, <1>2, <2>1, <2>2, <2>3 DEF CopiedSoFar
<1>5. CopyTypes /\ Registers
  BY <1>1, <1>2 DEF CopyTypes, Registers
<1>6. Alignment
  <2>1. (1000 + offset) % 4 = offset % 4
    BY <1>2
  <2> QED BY <1>1, <1>2, <1>3, <2>1 DEF Alignment, Bursts, LongEnough
<1> QED BY <1>4, <1>5, <1>6 DEF MemInv

LEMMA MemStep == ASSUME MemInv, [MemNext]_memVars PROVE MemInv'
<1>1. CASE memcpy BY <1>1, memcpyStep
<1>2. CASE fix_alignment BY <1>2, fix_alignmentStep
<1>3. CASE Burst("burst_cpy40", 40, "burst_cpy20") BY <1>3, BurstStep DEF Bursts
<1>4. CASE Burst("burst_cpy20", 20, "burst_cpy12") BY <1>4, BurstStep DEF Bursts
<1>5. CASE Burst("burst_cpy12", 12, "burst_cpy4") BY <1>5, BurstStep DEF Bursts
<1>6. CASE Burst("burst_cpy4", 4, "copy_rest") BY <1>6, BurstStep DEF Bursts
<1>7. CASE copy_rest BY <1>7, copy_restStep
<1>8. CASE memset_loop BY <1>8, memset_loopStep
<1>9. CASE UNCHANGED memVars
  BY <1>9 DEF memVars, MemInv, CopyTypes, CopiedSoFar, ByteFor, Registers, Alignment
<1> QED BY <1>1, <1>2, <1>3, <1>4, <1>5, <1>6, <1>7, <1>8, <1>9 DEF MemNext

\* memcpy and memset write each byte of the destination with what belongs there
\* and none outside, load words only from addresses of words, and end with all
\* of it written, for any addresses and any size that the code does not exclude.
THEOREM CopyCorrect ==
    ASSUME MemoryCopyAssumption, AnySize = FALSE
    PROVE  MemSpec => []CopiesExactly
<1>1. MemInit => MemInv
  BY MemInitInv
<1>2. MemInv /\ [MemNext]_memVars => MemInv'
  BY MemStep
<1>3. MemInv => CopiesExactly
  <2> SUFFICES ASSUME MemInv PROVE CopiesExactly
    OBVIOUS
  <2>1. call.dest \in Nat /\ call.size \in Nat /\ r0 \in Nat
    BY DEF MemInv, CopyTypes
  <2>2. aligned /\ DOMAIN copied \subseteq call.dest .. call.dest + call.size - 1
    BY <2>1 DEF MemInv, CopiedSoFar, Alignment
  <2>3. ASSUME at = "memcpy_done"
        PROVE  copied = [a \in call.dest .. call.dest + call.size - 1 |->
                      IF call.fn = "memset" THEN Filled ELSE call.src + (a - call.dest)]
    BY <2>1, <2>3 DEF MemInv, CopiedSoFar, Alignment, ByteFor
  <2> QED BY <2>2, <2>3 DEF CopiesExactly
<1> QED BY <1>1, <1>2, <1>3, PTL DEF MemSpec

-----------------------------------------------------------------------------
(* The priority queue *)

\* What induction would show is shown by looking for the least counterexample.
LEMMA LeastOf ==
    ASSUME NEW n \in Nat, NEW S \in SUBSET (0 .. n), S # {}
    PROVE  \E m \in S : \A k \in S : m <= k
<1> DEFINE UpTo(m) == {k \in S : k <= m}
           T       == {UpTo(m) : m \in S}
           R       == StrictSubsetOrdering(0 .. n)
<1>1. S \subseteq Int
  OBVIOUS
<1>2. IsFiniteSet(0 .. n)
  BY FS_Interval
<1>3. T \subseteq FiniteSubsetsOf(0 .. n)
  <2> SUFFICES ASSUME NEW m \in S PROVE UpTo(m) \in FiniteSubsetsOf(0 .. n)
    OBVIOUS
  <2>1. UpTo(m) \in SUBSET (0 .. n)
    OBVIOUS
  <2> QED BY <1>2, <2>1, FS_FiniteSubsetsOfFinite
<1>4. IsWellFoundedOn(R, FiniteSubsetsOf(0 .. n))
  BY FS_StrictSubsetOrderingWellFounded
<1>5. T # {}
  OBVIOUS
<1>6. PICK x \in T : \A y \in T : ~ (<<y, x>> \in R)
  <2> HIDE DEF T, R
  <2> QED BY <1>3, <1>4, <1>5, WFMin
<1>7. PICK m \in S : x = UpTo(m)
  BY <1>6
<1>8. ASSUME NEW k \in S, k < m PROVE FALSE
  <2>1. UpTo(k) \in T /\ UpTo(m) \in T
    OBVIOUS
  <2>2. UpTo(k) \in SUBSET (0 .. n) /\ UpTo(m) \in SUBSET (0 .. n)
    OBVIOUS
  <2>3. UpTo(k) \subseteq UpTo(m) /\ UpTo(k) # UpTo(m)
    <3>1. m \in UpTo(m) /\ m \notin UpTo(k)
      BY <1>1, <1>8
    <3>2. \A j \in UpTo(k) : j \in UpTo(m)
      BY <1>1, <1>8
    <3> QED BY <3>1, <3>2
  <2>4. <<UpTo(k), UpTo(m)>> \in R
    <3> HIDE DEF UpTo
    <3> QED BY <2>2, <2>3 DEF StrictSubsetOrdering
  <2> QED BY <1>6, <1>7, <2>1, <2>4
<1>9. \A k \in S : m <= k
  BY <1>1, <1>8
<1> QED BY <1>9

LEMMA MinOf ==
    ASSUME NEW n \in Nat, NEW S \in SUBSET (0 .. n), S # {}
    PROVE  Min(S) \in S /\ \A k \in S : Min(S) <= k
BY LeastOf DEF Min

LEMMA MaxOf ==
    ASSUME NEW n \in Nat, NEW S \in SUBSET (0 .. n), S # {}
    PROVE  Max(S) \in S /\ \A k \in S : Max(S) >= k
<1> DEFINE T == {n - k : k \in S}
<1>1. T \in SUBSET (0 .. n) /\ T # {}
  <2>1. \A k \in S : n - k \in 0 .. n
    OBVIOUS
  <2> QED BY <2>1
<1>2. PICK m \in T : \A k \in T : m <= k
  <2> HIDE DEF T
  <2> QED BY <1>1, LeastOf
<1>3. PICK x \in S : m = n - x
  BY <1>2
<1>4. \A k \in S : x >= k
  <2> SUFFICES ASSUME NEW k \in S PROVE x >= k
    OBVIOUS
  <2>1. n - k \in T /\ x \in 0 .. n /\ k \in 0 .. n
    OBVIOUS
  <2>2. n - x <= n - k
    BY <1>2, <1>3, <2>1
  <2> QED BY <2>1, <2>2
<1> QED BY <1>4 DEF Max

-----------------------------------------------------------------------------
(* The invariant *)

PqTypes ==
    /\ build \in {"PQ_RING", "PQ_HEAP"}
    /\ start \in Slots
    /\ build = "PQ_HEAP" => start = 0
    /\ count \in 0 .. MaxSize
    /\ pos \in [Vals -> 0 .. MaxSize]
    /\ entry \in [Slots -> [key : Int, val : Vals]]

\* The k-th entry behind start
At(k) == entry[Slot(k)]

\* Entries and positions agree.
Found == \A k \in 0 .. count - 1 : pos[At(k).val] = Slot(k)

Kept == \A v \in Vals : pos[v] # MaxSize =>
            \E k \in 0 .. count - 1 : pos[v] = Slot(k) /\ At(k).val = v

\* The order of the keys
Sorted == build = "PQ_RING" =>
              \A i, j \in 0 .. count - 1 : i <= j => At(i).key <= At(j).key

Heaped == build = "PQ_HEAP" =>
              \A i \in 1 .. count - 1 : entry[Parent(i)].key <= entry[i].key

PqInv == PqTypes /\ Found /\ Kept /\ Sorted /\ Heaped

LEMMA ModuloIs ==
    ASSUME NEW b \in Nat \ {0}, NEW n \in 0 .. 2 * b - 1
    PROVE  n % b = IF n < b THEN n ELSE n - b
OBVIOUS

LEMMA SlotIs ==
    ASSUME PQueueAssumption, start \in Slots, NEW k \in Slots
    PROVE  /\ Slot(k) = IF start + k < MaxSize THEN start + k ELSE start + k - MaxSize
           /\ Slot(k) \in Slots
<1>1. /\ MaxSize \in Nat \ {0} /\ start + k \in 0 .. 2 * MaxSize - 1
      /\ start \in 0 .. MaxSize - 1 /\ k \in 0 .. MaxSize - 1
  BY DEF PQueueAssumption, Slots
<1>2. Slot(k) = IF start + k < MaxSize THEN start + k ELSE start + k - MaxSize
  <2>1. PICK n \in 0 .. 2 * MaxSize - 1 : n = start + k
    BY <1>1
  <2>2. n % MaxSize = IF n < MaxSize THEN n ELSE n - MaxSize
    BY <1>1, ModuloIs
  <2>3. Slot(k) = n % MaxSize
    BY <2>1, Zenon DEF Slot
  <2> QED BY <1>1, <2>1, <2>2, <2>3
<1> QED BY <1>1, <1>2 DEF Slots

LEMMA SlotsApart ==
    ASSUME PQueueAssumption, start \in Slots, NEW k \in Slots, NEW l \in Slots, Slot(k) = Slot(l)
    PROVE  k = l
BY SlotIs DEF PQueueAssumption, Slots

LEMMA SlotBehind ==
    ASSUME PQueueAssumption, start \in Slots, NEW k \in Slots
    PROVE  (Slot(k) + MaxSize - start) % MaxSize = k
<1>1. MaxSize \in Nat \ {0} /\ start \in 0 .. MaxSize - 1 /\ k \in 0 .. MaxSize - 1
  BY DEF PQueueAssumption, Slots
<1>2. Slot(k) = IF start + k < MaxSize THEN start + k ELSE start + k - MaxSize
  BY SlotIs
<1> DEFINE n == Slot(k) + MaxSize - start
<1>3. n \in 0 .. 2 * MaxSize - 1 /\ (IF n < MaxSize THEN n ELSE n - MaxSize) = k
  BY <1>1, <1>2
<1> HIDE DEF n
<1>4. n % MaxSize = k
  BY <1>1, <1>3, ModuloIs
<1> QED BY <1>4 DEF n

\* The slot after the k-th one is the next.
LEMMA SlotAfter ==
    ASSUME PQueueAssumption, start \in Slots, NEW k \in Slots, k + 1 \in Slots
    PROVE  /\ (Slot(k) + 1) % MaxSize = Slot(k + 1)
           /\ (IF Slot(k + 1) = 0 THEN MaxSize - 1 ELSE Slot(k + 1) - 1) = Slot(k)
<1>1. MaxSize \in Nat \ {0} /\ start \in 0 .. MaxSize - 1 /\ k \in 0 .. MaxSize - 1
  BY DEF PQueueAssumption, Slots
<1>2. /\ Slot(k) = IF start + k < MaxSize THEN start + k ELSE start + k - MaxSize
      /\ Slot(k + 1) = IF start + (k + 1) < MaxSize THEN start + (k + 1)
                       ELSE start + (k + 1) - MaxSize
      /\ Slot(k) \in 0 .. MaxSize - 1 /\ k + 1 < MaxSize
  <2>1. k + 1 < MaxSize
    BY <1>1 DEF Slots
  <2> QED BY <2>1, SlotIs DEF Slots
<1> DEFINE n == Slot(k) + 1
<1>3. n \in 0 .. 2 * MaxSize - 1 /\ (IF n < MaxSize THEN n ELSE n - MaxSize) = Slot(k + 1)
  BY <1>1, <1>2
<1> HIDE DEF n
<1>4. n % MaxSize = Slot(k + 1)
  BY <1>1, <1>3, ModuloIs
<1> QED BY <1>1, <1>2, <1>4 DEF n

\* A value that is not queued leaves room.
LEMMA RoomForMore ==
    ASSUME PQueueAssumption, PqTypes, Found, NEW v \in Vals, pos[v] = MaxSize
    PROVE  count < MaxSize
<1> SUFFICES ASSUME count = MaxSize PROVE FALSE
  BY DEF PqTypes, PQueueAssumption
<1>1. MaxSize \in Nat \ {0} /\ Slots = 0 .. MaxSize - 1 /\ Vals = 0 .. MaxSize - 1 /\ start \in Slots
  BY DEF PQueueAssumption, Slots, Vals, PqTypes
<1> DEFINE Others == Vals \ {v}
           f      == [k \in Slots |-> At(k).val]
<1>2. f \in [Slots -> Others]
  <2> SUFFICES ASSUME NEW k \in Slots PROVE At(k).val \in Others
    OBVIOUS
  <2>1. Slot(k) \in Slots /\ pos[At(k).val] = Slot(k) /\ Slot(k) # MaxSize
    BY <1>1, SlotIs DEF Found
  <2>2. At(k).val \in Vals
    BY <2>1 DEF PqTypes, At
  <2> QED BY <2>1, <2>2
<1>3. IsFiniteSet(Slots) /\ Cardinality(Slots) = MaxSize
  BY <1>1, FS_Interval
<1>4. IsFiniteSet(Others) /\ Cardinality(Others) = MaxSize - 1
  <2>1. IsFiniteSet(Vals) /\ Cardinality(Vals) = MaxSize /\ v \in Vals
    BY <1>1, <1>3
  <2> QED BY <2>1, FS_RemoveElement
<1>5. \E x, y \in Slots : x # y /\ f[x] = f[y]
  <2> HIDE DEF f, Others
  <2>1. Cardinality(Others) < Cardinality(Slots)
    BY <1>1, <1>3, <1>4
  <2> QED BY <1>2, <1>3, <1>4, <2>1, FS_PigeonHole
<1>6. PICK x \in Slots, y \in Slots : x # y /\ At(x).val = At(y).val
  BY <1>5
<1>7. Slot(x) = Slot(y)
  BY <1>1, <1>6 DEF Found
<1> QED BY <1>1, <1>6, <1>7, SlotsApart

-----------------------------------------------------------------------------
(* The ring *)

\* The entry of v goes to place k, or is there already.
ComesTo(k, v) ==
    /\ v \in Vals
    /\ \/ k = count /\ k < MaxSize /\ pos[v] = MaxSize
       \/ k \in 0 .. count - 1 /\ pos[v] = Slot(k)

\* (v, key) went in at place p, and the entries from there to place k moved up.
MovedIn(p, k, v, key) ==
    /\ p \in 0 .. k
    /\ \A i \in p .. k - 1 : At(i).key > key
    /\ p > 0 => At(p - 1).key <= key
    /\ \A j \in Slots : entry'[Slot(j)] =
          IF j = p THEN [key |-> key, val |-> v]
          ELSE IF j \in p + 1 .. k THEN At(j - 1) ELSE At(j)
    /\ pos'[v] = Slot(p)
    /\ \A u \in Vals : u # v /\ pos[u] = MaxSize => pos'[u] = MaxSize
    /\ \A j \in 0 .. count - 1 : At(j).val # v =>
          pos'[At(j).val] = IF j \in p .. k - 1 THEN Slot(j + 1) ELSE Slot(j)

LEMMA PlaceForIs ==
    ASSUME NEW k \in Nat, NEW key \in Int
    PROVE  LET p == PlaceFor(k, key) IN
           /\ p \in 0 .. k
           /\ \A i \in p .. k - 1 : At(i).key > key
           /\ p > 0 => ~ (At(p - 1).key > key)
<1> DEFINE S == {j \in 0 .. k : \A i \in j .. k - 1 : At(i).key > key}
           p == PlaceFor(k, key)
<1>1. S \in SUBSET (0 .. k) /\ k \in S
  OBVIOUS
<1>2. p = Min(S)
  BY DEF PlaceFor, At
<1>3. Min(S) \in S /\ \A j \in S : Min(S) <= j
  <2> HIDE DEF S
  <2> QED BY <1>1, MinOf
<1> HIDE DEF p
<1>4. p \in 0 .. k /\ \A i \in p .. k - 1 : At(i).key > key
  BY <1>2, <1>3
<1>5. ASSUME p > 0, At(p - 1).key > key PROVE FALSE
  <2>1. p - 1 \in 0 .. k
    BY <1>4, <1>5
  <2>2. ASSUME NEW i \in p - 1 .. k - 1 PROVE At(i).key > key
    <3>1. i = p - 1 \/ i \in p .. k - 1
      BY <1>4
    <3> QED BY <1>4, <1>5, <3>1
  <2>3. p - 1 \in S
    BY <2>1, <2>2
  <2> QED BY <1>2, <1>3, <1>4, <2>3
<1> QED BY <1>4, <1>5 DEF p

LEMMA MoveInMoves ==
    ASSUME PQueueAssumption, PqInv, NEW k, NEW v, NEW key \in Int, ComesTo(k, v), MoveIn(k, v, key)
    PROVE  MovedIn(PlaceFor(k, key), k, v, key)
<1> DEFINE p == PlaceFor(k, key)
<1>1. /\ MaxSize \in Nat \ {0} /\ Slots = 0 .. MaxSize - 1 /\ Vals = 0 .. MaxSize - 1
      /\ start \in Slots /\ count \in 0 .. MaxSize /\ v \in Vals
      /\ pos \in [Vals -> 0 .. MaxSize] /\ entry \in [Slots -> [key : Int, val : Vals]]
  BY DEF PQueueAssumption, Slots, Vals, PqInv, PqTypes, ComesTo
<1>2. k \in Slots /\ k \in 0 .. count
  <2>1. (k = count /\ k < MaxSize) \/ k \in 0 .. count - 1
    BY DEF ComesTo
  <2>2. CASE k = count /\ k < MaxSize
    BY <1>1, <2>2
  <2>3. CASE k \in 0 .. count - 1
    BY <1>1, <2>3
  <2> QED BY <2>1, <2>2, <2>3
<1>3. /\ p \in 0 .. k /\ \A i \in p .. k - 1 : At(i).key > key
      /\ p > 0 => ~ (At(p - 1).key > key)
  BY <1>1, <1>2, PlaceForIs
<1>4. /\ entry' = [s \in Slots |->
              IF s = Slot(p) THEN [key |-> key, val |-> v]
              ELSE IF \E i \in p .. k - 1 : s = Slot(i + 1)
                   THEN entry[IF s = 0 THEN MaxSize - 1 ELSE s - 1]
                   ELSE entry[s]]
      /\ pos' = [u \in Vals |->
              IF u = v THEN Slot(p)
              ELSE IF \E i \in p .. k - 1 : u = entry[Slot(i)].val
                   THEN (pos[u] + 1) % MaxSize
                   ELSE pos[u]]
  BY DEF MoveIn
<1> HIDE DEF p
<1>5. \A j \in Slots : Slot(j) \in Slots /\ At(j) \in [key : Int, val : Vals]
  BY <1>1, SlotIs DEF At
<1>6. p > 0 => At(p - 1).key <= key
  <2>1. p > 0 => p - 1 \in Slots
    BY <1>1, <1>2, <1>3
  <2> QED BY <1>3, <1>5, <2>1
<1>7. ASSUME NEW j \in Slots
      PROVE  entry'[Slot(j)] = IF j = p THEN [key |-> key, val |-> v]
                               ELSE IF j \in p + 1 .. k THEN At(j - 1) ELSE At(j)
  <2>1. Slot(j) = Slot(p) <=> j = p
    <3>1. p \in Slots
      BY <1>1, <1>2, <1>3
    <3> QED BY <1>1, <3>1, SlotsApart
  <2>2. (\E i \in p .. k - 1 : Slot(j) = Slot(i + 1)) <=> j \in p + 1 .. k
    <3>1. ASSUME NEW i \in p .. k - 1, Slot(j) = Slot(i + 1) PROVE j \in p + 1 .. k
      <4>1. i + 1 \in Slots
        BY <1>1, <1>2, <1>3
      <4>2. j = i + 1
        BY <1>1, <3>1, <4>1, SlotsApart
      <4> QED BY <1>2, <1>3, <4>2
    <3>2. ASSUME j \in p + 1 .. k PROVE \E i \in p .. k - 1 : Slot(j) = Slot(i + 1)
      <4>1. j - 1 \in p .. k - 1 /\ (j - 1) + 1 = j
        BY <1>1, <1>2, <1>3, <3>2
      <4> QED BY <4>1
    <3> QED BY <3>1, <3>2
  <2>3. CASE j \in p + 1 .. k
    <3>1. j - 1 \in Slots /\ (j - 1) + 1 = j /\ j # p
      BY <1>1, <1>2, <1>3, <2>3
    <3>2. (IF Slot(j) = 0 THEN MaxSize - 1 ELSE Slot(j) - 1) = Slot(j - 1)
      BY <1>1, <3>1, SlotAfter
    <3> QED BY <1>4, <1>5, <2>1, <2>2, <2>3, <3>1, <3>2 DEF At
  <2>4. CASE j \notin p + 1 .. k
    BY <1>4, <1>5, <2>1, <2>2, <2>4 DEF At
  <2> QED BY <2>3, <2>4
<1>8. \A i \in 0 .. count - 1 : i \in Slots /\ pos[At(i).val] = Slot(i)
  <2>1. \A i \in 0 .. count - 1 : i \in Slots
    BY <1>1
  <2> QED BY <2>1 DEF PqInv, Found
<1>9. pos'[v] = Slot(p)
  BY <1>1, <1>4
<1>10. ASSUME NEW u \in Vals, u # v, pos[u] = MaxSize PROVE pos'[u] = MaxSize
  <2>1. ASSUME NEW i \in p .. k - 1, u = At(i).val PROVE FALSE
    <3>1. i \in 0 .. count - 1
      BY <1>1, <1>2, <1>3
    <3>2. pos[u] \in Slots
      BY <1>5, <1>8, <2>1, <3>1
    <3> QED BY <1>1, <1>10, <3>2
  <2> QED BY <1>4, <1>10, <2>1 DEF At
<1>11. ASSUME NEW j \in 0 .. count - 1, At(j).val # v
       PROVE  pos'[At(j).val] = IF j \in p .. k - 1 THEN Slot(j + 1) ELSE Slot(j)
  <2>1. j \in Slots /\ At(j).val \in Vals /\ pos[At(j).val] = Slot(j)
    BY <1>5, <1>8
  <2>2. (\E i \in p .. k - 1 : At(j).val = At(i).val) <=> j \in p .. k - 1
    <3>1. ASSUME NEW i \in p .. k - 1, At(j).val = At(i).val PROVE j \in p .. k - 1
      <4>1. i \in 0 .. count - 1
        BY <1>1, <1>2, <1>3
      <4>2. Slot(i) = Slot(j) /\ i \in Slots
        BY <1>8, <2>1, <3>1, <4>1
      <4> QED BY <1>1, <2>1, <4>2, SlotsApart
    <3> QED BY <3>1
  <2>3. j \in p .. k - 1 => (Slot(j) + 1) % MaxSize = Slot(j + 1)
    <3>1. j \in p .. k - 1 => j + 1 \in Slots
      BY <1>1, <1>2, <1>3
    <3> QED BY <1>1, <2>1, <3>1, SlotAfter
  <2> QED BY <1>4, <1>11, <2>1, <2>2, <2>3 DEF At
<1>12. QED
  <2>1. p \in 0 .. k /\ \A i \in p .. k - 1 : At(i).key > key
    BY <1>3
  <2> QED BY <2>1, <1>6, <1>7, <1>9, <1>10, <1>11, Zenon DEF MovedIn, p

\* A step that moves an entry in, to a smaller key if it was there
MoveStep(p, k, v, key) ==
    /\ ComesTo(k, v) /\ MovedIn(p, k, v, key)
    /\ k < count => key < At(k).key
    /\ UNCHANGED <<build, start>>
    /\ count' = IF k = count THEN count + 1 ELSE count

LEMMA ComesToFacts ==
    ASSUME PQueueAssumption, PqInv, NEW k, NEW v, ComesTo(k, v),
           NEW n, n = IF k = count THEN count + 1 ELSE count
    PROVE  /\ MaxSize \in Nat \ {0} /\ Slots = 0 .. MaxSize - 1 /\ start \in Slots
           /\ count \in 0 .. MaxSize /\ n \in 0 .. MaxSize
           /\ k \in Slots /\ k \in 0 .. count /\ k < n
           /\ \A j \in 0 .. count - 1 : (At(j).val = v) <=> (j = k)
<1>1. /\ MaxSize \in Nat \ {0} /\ Slots = 0 .. MaxSize - 1 /\ Vals = 0 .. MaxSize - 1
      /\ start \in Slots /\ count \in 0 .. MaxSize
  BY DEF PQueueAssumption, Slots, Vals, PqInv, PqTypes
<1>2. /\ n = IF k = count THEN count + 1 ELSE count
      /\ (k = count /\ k < MaxSize /\ pos[v] = MaxSize) \/ (k \in 0 .. count - 1 /\ pos[v] = Slot(k))
      /\ v \in Vals
  BY DEF ComesTo
<1>3. /\ k \in Slots /\ k \in 0 .. count /\ k < n /\ n \in 0 .. MaxSize
  <2>1. CASE k = count /\ k < MaxSize
    BY <1>1, <1>2, <2>1
  <2>2. CASE k \in 0 .. count - 1
    BY <1>1, <1>2, <2>2
  <2> QED BY <1>2, <2>1, <2>2
<1>4. ASSUME NEW j \in 0 .. count - 1 PROVE (At(j).val = v) <=> (j = k)
  <2>1. j \in Slots /\ pos[At(j).val] = Slot(j)
    BY <1>1 DEF PqInv, Found
  <2>2. Slot(j) \in Slots /\ Slot(j) # MaxSize
    BY <1>1, <2>1, SlotIs
  <2>3. CASE k = count /\ pos[v] = MaxSize
    BY <1>1, <2>1, <2>2, <2>3
  <2>4. CASE k \in 0 .. count - 1 /\ pos[v] = Slot(k)
    <3>1. At(j).val = v => j = k
      BY <1>1, <1>3, <2>1, <2>4, SlotsApart
    <3>2. At(k).val = v
      <4>1. pos[v] # MaxSize
        BY <1>1, <1>3, <2>4, SlotIs
      <4>2. PICK l \in 0 .. count - 1 : pos[v] = Slot(l) /\ At(l).val = v
        BY <1>2, <4>1 DEF PqInv, Kept
      <4>3. l \in Slots
        BY <1>1
      <4>4. l = k
        BY <1>1, <1>3, <2>4, <4>2, <4>3, SlotsApart
      <4> QED BY <4>2, <4>4
    <3> QED BY <3>1, <3>2
  <2> QED BY <1>2, <2>3, <2>4
<1> QED BY <1>1, <1>2, <1>3, <1>4

LEMMA MoveStepFacts ==
    ASSUME PQueueAssumption, PqInv, NEW p, NEW k, NEW v, NEW key \in Int, MoveStep(p, k, v, key)
    PROVE  /\ MaxSize \in Nat \ {0} /\ Slots = 0 .. MaxSize - 1 /\ start \in Slots
           /\ count \in 0 .. MaxSize /\ count' \in 0 .. MaxSize
           /\ k \in Slots /\ k \in 0 .. count /\ k < count' /\ p \in 0 .. k
           /\ count' = IF k = count THEN count + 1 ELSE count
           /\ \A j \in 0 .. count - 1 : (At(j).val = v) <=> (j = k)
           /\ \A j \in Slots : At(j)' = entry'[Slot(j)] /\ Slot(j)' = Slot(j)
<1>1. ComesTo(k, v) /\ count' = (IF k = count THEN count + 1 ELSE count) /\ p \in 0 .. k
  BY DEF MoveStep, MovedIn
<1>2. /\ MaxSize \in Nat \ {0} /\ Slots = 0 .. MaxSize - 1 /\ start \in Slots
      /\ count \in 0 .. MaxSize /\ count' \in 0 .. MaxSize
      /\ k \in Slots /\ k \in 0 .. count /\ k < count'
      /\ \A j \in 0 .. count - 1 : (At(j).val = v) <=> (j = k)
  BY <1>1, ComesToFacts
<1>3. \A j \in Slots : At(j)' = entry'[Slot(j)] /\ Slot(j)' = Slot(j)
  BY DEF MoveStep, At, Slot
<1> QED BY <1>1, <1>2, <1>3

LEMMA MoveKeeps ==
    ASSUME PQueueAssumption, PqInv, NEW p, NEW k, NEW v, NEW key \in Int, MoveStep(p, k, v, key)
    PROVE  /\ Found' /\ Kept'
           /\ build = "PQ_RING" => Sorted'
<1> DEFINE from(j) == IF j \in p + 1 .. k THEN j - 1 ELSE j
<1>1. /\ MaxSize \in Nat \ {0} /\ Slots = 0 .. MaxSize - 1 /\ start \in Slots
      /\ count \in 0 .. MaxSize /\ count' \in 0 .. MaxSize
      /\ k \in Slots /\ k \in 0 .. count /\ k < count' /\ p \in 0 .. k
      /\ count' = IF k = count THEN count + 1 ELSE count
      /\ \A j \in 0 .. count - 1 : (At(j).val = v) <=> (j = k)
      /\ \A j \in Slots : At(j)' = entry'[Slot(j)] /\ Slot(j)' = Slot(j)
  BY MoveStepFacts
<1>2. /\ \A j \in Slots : entry'[Slot(j)] =
            IF j = p THEN [key |-> key, val |-> v]
            ELSE IF j \in p + 1 .. k THEN At(j - 1) ELSE At(j)
      /\ pos'[v] = Slot(p)
      /\ \A u \in Vals : u # v /\ pos[u] = MaxSize => pos'[u] = MaxSize
      /\ \A j \in 0 .. count - 1 : At(j).val # v =>
            pos'[At(j).val] = IF j \in p .. k - 1 THEN Slot(j + 1) ELSE Slot(j)
      /\ \A i \in p .. k - 1 : At(i).key > key
      /\ p > 0 => At(p - 1).key <= key
      /\ k < count => key < At(k).key
  BY DEF MoveStep, MovedIn
<1>3. ASSUME NEW j \in 0 .. count' - 1
      PROVE  /\ j \in Slots
             /\ j = p => At(j)' = [key |-> key, val |-> v]
             /\ j # p => /\ from(j) \in 0 .. count - 1 /\ from(j) # k
                         /\ At(j)' = At(from(j))
                         /\ (IF from(j) \in p .. k - 1 THEN from(j) + 1 ELSE from(j)) = j
  <2>1. j \in Slots
    BY <1>1
  <2>2. At(j)' = IF j = p THEN [key |-> key, val |-> v] ELSE At(from(j))
    BY <1>1, <1>2, <2>1
  <2>3. j # p => from(j) \in 0 .. count - 1 /\ from(j) # k
    BY <1>1
  <2>4. j # p => (IF from(j) \in p .. k - 1 THEN from(j) + 1 ELSE from(j)) = j
    BY <1>1
  <2> QED BY <2>1, <2>2, <2>3, <2>4
<1>4. Found'
  <2> SUFFICES ASSUME NEW j \in 0 .. count' - 1 PROVE pos'[At(j)'.val] = Slot(j)'
    BY DEF Found
  <2>1. CASE j = p
    BY <1>1, <1>2, <1>3, <2>1
  <2>2. CASE j # p
    <3>1. At(j)' = At(from(j)) /\ from(j) \in 0 .. count - 1 /\ At(from(j)).val # v
      BY <1>1, <1>3, <2>2
    <3> DEFINE l == from(j)
    <3>2. (IF l \in p .. k - 1 THEN l + 1 ELSE l) = j /\ l \in 0 .. count - 1 /\ At(l).val # v
      BY <1>3, <2>2, <3>1
    <3>4. At(j)' = At(l) /\ Slot(j)' = Slot(j)
      BY <1>1, <1>3, <3>1
    <3> HIDE DEF l, from
    <3>3. pos'[At(l).val] = Slot(j)
      BY <1>2, <3>2
    <3> QED BY <3>3, <3>4
  <2> QED BY <2>1, <2>2
<1>5. Kept'
  <2> SUFFICES ASSUME NEW u \in Vals, pos'[u] # MaxSize
               PROVE  \E j \in 0 .. count' - 1 : pos'[u] = Slot(j)' /\ At(j)'.val = u
    BY DEF Kept
  <2>1. CASE u = v
    <3>1. p \in 0 .. count' - 1
      BY <1>1
    <3>2. pos'[u] = Slot(p)' /\ At(p)'.val = u
      BY <1>1, <1>2, <1>3, <2>1, <3>1
    <3> QED BY <3>1, <3>2
  <2>2. CASE u # v
    <3>1. PICK l \in 0 .. count - 1 : pos[u] = Slot(l) /\ At(l).val = u
      BY <1>2, <2>2 DEF PqInv, Kept
    <3>2. l # k
      BY <1>1, <2>2, <3>1
    <3> DEFINE j == IF l \in p .. k - 1 THEN l + 1 ELSE l
    <3>3. j \in 0 .. count' - 1 /\ j # p /\ from(j) = l
      BY <1>1, <3>2
    <3>4. pos'[u] = Slot(j)
      BY <1>2, <2>2, <3>1
    <3> HIDE DEF j, from
    <3>5. At(j)' = At(from(j)) /\ j \in Slots
      BY <1>3, <3>3
    <3> QED BY <1>1, <3>1, <3>3, <3>4, <3>5
  <2> QED BY <2>1, <2>2
<1>6. ASSUME build = "PQ_RING" PROVE Sorted'
  <2>1. \A i, j \in 0 .. count - 1 : i <= j => At(i).key <= At(j).key
    BY <1>6 DEF PqInv, Sorted
  <2>2. \A i \in 0 .. count - 1 : At(i).key \in Int
    <3>1. \A i \in 0 .. count - 1 : i \in Slots
      BY <1>1
    <3> QED BY <1>1, <3>1, SlotIs DEF PqInv, PqTypes, At
  <2>3. \A i \in 0 .. count - 1 : /\ i < p => At(i).key <= key
                                  /\ i >= p => key <= At(i).key
    <3> SUFFICES ASSUME NEW i \in 0 .. count - 1
                 PROVE  /\ i < p => At(i).key <= key
                        /\ i >= p => key <= At(i).key
      OBVIOUS
    <3>1. ASSUME i < p PROVE At(i).key <= key
      <4>1. p - 1 \in 0 .. count - 1 /\ i <= p - 1
        BY <1>1, <3>1
      <4>2. At(i).key <= At(p - 1).key /\ At(p - 1).key <= key
        BY <1>1, <1>2, <2>1, <3>1, <4>1
      <4> QED BY <2>2, <4>1, <4>2
    <3>2. ASSUME i \in p .. k - 1 PROVE key <= At(i).key
      BY <1>2, <2>2, <3>2
    <3>3. ASSUME i >= k PROVE key <= At(i).key
      <4>1. k \in 0 .. count - 1 /\ k < count
        BY <1>1, <3>3
      <4>2. key < At(k).key /\ At(k).key <= At(i).key
        BY <1>2, <2>1, <3>3, <4>1
      <4> QED BY <2>2, <4>1, <4>2
    <3> QED BY <1>1, <3>1, <3>2, <3>3
  <2> SUFFICES ASSUME NEW i \in 0 .. count' - 1, NEW j \in 0 .. count' - 1, i <= j
               PROVE  At(i)'.key <= At(j)'.key
    BY DEF Sorted
  <2>4. CASE i = p /\ j = p
    BY <1>3, <2>4
  <2>5. CASE i = p /\ j # p
    <3>1. from(j) \in 0 .. count - 1 /\ from(j) >= p
      BY <1>1, <1>3, <2>5
    <3> HIDE DEF from
    <3> QED BY <1>3, <2>3, <2>5, <3>1
  <2>6. CASE i # p /\ j = p
    <3>1. from(i) \in 0 .. count - 1 /\ from(i) < p
      BY <1>1, <1>3, <2>6
    <3> HIDE DEF from
    <3> QED BY <1>3, <2>3, <2>6, <3>1
  <2>7. CASE i # p /\ j # p
    <3>1. from(i) \in 0 .. count - 1 /\ from(j) \in 0 .. count - 1 /\ from(i) <= from(j)
      <4>1. i \in Int /\ j \in Int /\ i <= j /\ i # p /\ k \in Int /\ p \in Int
        BY <1>1, <2>7
      <4>2. from(i) <= from(j)
        BY <4>1
      <4> HIDE DEF from
      <4> QED BY <1>3, <2>7, <4>2
    <3> HIDE DEF from
    <3> QED BY <1>3, <2>1, <2>7, <3>1
  <2> QED BY <2>4, <2>5, <2>6, <2>7
<1> QED BY <1>4, <1>5, <1>6

LEMMA MoveInTypes ==
    ASSUME PQueueAssumption, PqInv, NEW k, NEW v, NEW key \in Int, ComesTo(k, v), MoveIn(k, v, key)
    PROVE  pos' \in [Vals -> 0 .. MaxSize] /\ entry' \in [Slots -> [key : Int, val : Vals]]
<1> DEFINE p == PlaceFor(k, key)
<1>1. /\ MaxSize \in Nat \ {0} /\ Slots = 0 .. MaxSize - 1 /\ start \in Slots /\ v \in Vals
      /\ count \in 0 .. MaxSize
      /\ pos \in [Vals -> 0 .. MaxSize] /\ entry \in [Slots -> [key : Int, val : Vals]]
  BY DEF PQueueAssumption, Slots, PqInv, PqTypes, ComesTo
<1>2. Slot(p) \in Slots
  <2>1. k \in Nat /\ k < MaxSize
    <3>1. (k = count /\ k < MaxSize) \/ k \in 0 .. count - 1
      BY DEF ComesTo
    <3> QED BY <1>1, <3>1
  <2>2. p \in 0 .. k
    BY <2>1, PlaceForIs
  <2>3. p \in Slots
    BY <1>1, <2>1, <2>2
  <2> QED BY <1>1, <2>3, SlotIs
<1>3. /\ entry' = [s \in Slots |->
              IF s = Slot(p) THEN [key |-> key, val |-> v]
              ELSE IF \E i \in p .. k - 1 : s = Slot(i + 1)
                   THEN entry[IF s = 0 THEN MaxSize - 1 ELSE s - 1]
                   ELSE entry[s]]
      /\ pos' = [u \in Vals |->
              IF u = v THEN Slot(p)
              ELSE IF \E i \in p .. k - 1 : u = entry[Slot(i)].val
                   THEN (pos[u] + 1) % MaxSize
                   ELSE pos[u]]
  BY DEF MoveIn
<1> HIDE DEF p
<1>4. ASSUME NEW s \in Slots PROVE entry'[s] \in [key : Int, val : Vals]
  <2>1. (IF s = 0 THEN MaxSize - 1 ELSE s - 1) \in Slots
    BY <1>1
  <2>2. [key |-> key, val |-> v] \in [key : Int, val : Vals]
    BY <1>1
  <2>3. entry'[s] \in {[key |-> key, val |-> v], entry[IF s = 0 THEN MaxSize - 1 ELSE s - 1], entry[s]}
    BY <1>3
  <2> HIDE DEF Slots
  <2> QED BY <1>1, <2>1, <2>2, <2>3
<1>5. ASSUME NEW u \in Vals PROVE pos'[u] \in 0 .. MaxSize
  <2>1. (pos[u] + 1) % MaxSize \in 0 .. MaxSize
    BY <1>1
  <2>2. pos'[u] \in {Slot(p), (pos[u] + 1) % MaxSize, pos[u]}
    BY <1>3
  <2>3. Slot(p) \in 0 .. MaxSize /\ pos[u] \in 0 .. MaxSize
    BY <1>1, <1>2
  <2> QED BY <2>1, <2>2, <2>3
<1> QED BY <1>3, <1>4, <1>5

LEMMA NextStart ==
    ASSUME NEW m \in Nat \ {0}, NEW s \in 0 .. m - 1, NEW j \in 0 .. m - 2
    PROVE  (((s + 1) % m) + j) % m = (s + (j + 1)) % m
<1>1. PICK n \in 0 .. m - 1 : n = (s + 1) % m
  OBVIOUS
<1>2. n = IF s + 1 < m THEN s + 1 ELSE 0
  <2>1. PICK q \in 0 .. 2 * m - 1 : q = s + 1
    OBVIOUS
  <2>2. q % m = IF q < m THEN q ELSE q - m
    BY ModuloIs
  <2> QED BY <1>1, <2>1, <2>2
<1>3. PICK q \in 0 .. 2 * m - 1 : q = n + j
  BY <1>1
<1>4. PICK r \in 0 .. 2 * m - 1 : r = s + (j + 1)
  OBVIOUS
<1>5. q % m = (IF q < m THEN q ELSE q - m) /\ r % m = (IF r < m THEN r ELSE r - m)
  BY ModuloIs
<1>6. q % m = r % m
  BY <1>2, <1>3, <1>4, <1>5
<1> QED BY <1>1, <1>3, <1>4, <1>6

LEMMA PopRingKeeps ==
    ASSUME PQueueAssumption, PqInv, build = "PQ_RING", count > 0, PopFromRing,
           count' = count - 1, UNCHANGED build
    PROVE  /\ PqInv'
           /\ \A j \in 0 .. count' - 1 : At(j)' = At(j + 1) /\ Slot(j)' = Slot(j + 1)
           /\ pos' = [pos EXCEPT ![At(0).val] = MaxSize] /\ At(0) = entry[start]
<1>1. /\ MaxSize \in Nat \ {0} /\ Slots = 0 .. MaxSize - 1 /\ Vals = 0 .. MaxSize - 1
      /\ start \in Slots /\ count \in 1 .. MaxSize /\ count' \in 0 .. MaxSize
      /\ pos \in [Vals -> 0 .. MaxSize] /\ entry \in [Slots -> [key : Int, val : Vals]]
  <2>1. /\ MaxSize \in Nat \ {0} /\ Slots = 0 .. MaxSize - 1 /\ Vals = 0 .. MaxSize - 1
        /\ start \in Slots /\ count \in 0 .. MaxSize
        /\ pos \in [Vals -> 0 .. MaxSize] /\ entry \in [Slots -> [key : Int, val : Vals]]
    BY DEF PQueueAssumption, Slots, Vals, PqInv, PqTypes
  <2>2. count \in 1 .. MaxSize /\ count' \in 0 .. MaxSize
    BY <2>1
  <2> QED BY <2>1, <2>2
<1>2. At(0) = entry[start] /\ At(0).val \in Vals
  <2>1. 0 \in Slots
    BY <1>1
  <2>2. Slot(0) = start
    BY <1>1, <2>1, SlotIs
  <2> QED BY <1>1, <2>2 DEF At
<1>3. /\ pos' = [pos EXCEPT ![At(0).val] = MaxSize]
      /\ start' = (start + 1) % MaxSize /\ entry' = entry
  BY <1>2 DEF PopFromRing
<1>4. ASSUME NEW j \in 0 .. count' - 1
      PROVE  At(j)' = At(j + 1) /\ Slot(j)' = Slot(j + 1)
  <2>1. j \in 0 .. MaxSize - 2
    BY <1>1
  <2>2. (((start + 1) % MaxSize) + j) % MaxSize = (start + (j + 1)) % MaxSize
    BY <1>1, <2>1, NextStart
  <2>3. Slot(j)' = Slot(j + 1)
    BY <1>3, <2>2, Zenon DEF Slot
  <2> QED BY <1>3, <2>3 DEF At
<1>5. start' \in Slots
  BY <1>1, <1>3
<1>6. PqTypes'
  <2>1. pos' \in [Vals -> 0 .. MaxSize]
    BY <1>1, <1>2, <1>3
  <2>2. build' \in {"PQ_RING", "PQ_HEAP"} /\ build' # "PQ_HEAP"
    OBVIOUS
  <2>3. entry' \in [Slots -> [key : Int, val : Vals]]
    BY <1>1, <1>3
  <2> QED BY <1>1, <1>5, <2>1, <2>2, <2>3 DEF PqTypes, Slots, Vals
<1>7. \A j \in 0 .. count - 1 : j \in Slots /\ pos[At(j).val] = Slot(j) /\ At(j).val \in Vals
  <2>1. \A j \in 0 .. count - 1 : j \in Slots
    BY <1>1
  <2>2. \A j \in 0 .. count - 1 : At(j) \in [key : Int, val : Vals]
    BY <1>1, <2>1, SlotIs DEF At
  <2> QED BY <2>1, <2>2 DEF PqInv, Found
<1>8. \A j \in 0 .. count' - 1 : j + 1 \in 0 .. count - 1 /\ At(j + 1).val # At(0).val
  <2> SUFFICES ASSUME NEW j \in 0 .. count' - 1
               PROVE  j + 1 \in 0 .. count - 1 /\ At(j + 1).val # At(0).val
    OBVIOUS
  <2>1. j + 1 \in 0 .. count - 1 /\ 0 \in 0 .. count - 1 /\ j + 1 # 0
    BY <1>1
  <2>2. Slot(j + 1) # Slot(0)
    BY <1>1, <1>7, <2>1, SlotsApart
  <2> QED BY <1>7, <2>1, <2>2
<1>9. Found'
  <2> SUFFICES ASSUME NEW j \in 0 .. count' - 1 PROVE pos'[At(j)'.val] = Slot(j)'
    BY DEF Found
  <2>1. pos'[At(j + 1).val] = pos[At(j + 1).val]
    BY <1>1, <1>3, <1>7, <1>8
  <2> QED BY <1>4, <1>7, <1>8, <2>1
<1>10. Kept'
  <2> SUFFICES ASSUME NEW u \in Vals, pos'[u] # MaxSize
               PROVE  \E j \in 0 .. count' - 1 : pos'[u] = Slot(j)' /\ At(j)'.val = u
    BY DEF Kept
  <2>1. u # At(0).val /\ pos'[u] = pos[u]
    BY <1>1, <1>2, <1>3
  <2>2. PICK l \in 0 .. count - 1 : pos[u] = Slot(l) /\ At(l).val = u
    BY <2>1 DEF PqInv, Kept
  <2>6. l # 0
    BY <2>1, <2>2
  <2>3. l - 1 \in 0 .. count' - 1 /\ (l - 1) + 1 = l
    BY <1>1, <2>2, <2>6
  <2> DEFINE j == l - 1
  <2>4. j \in 0 .. count' - 1 /\ j + 1 = l
    BY <2>3
  <2> HIDE DEF j
  <2>5. At(j)' = At(l) /\ Slot(j)' = Slot(l)
    BY <1>4, <2>4
  <2> QED BY <2>1, <2>2, <2>4, <2>5
<1>11. Sorted'
  <2> SUFFICES ASSUME NEW i \in 0 .. count' - 1, NEW j \in 0 .. count' - 1, i <= j
               PROVE  At(i)'.key <= At(j)'.key
    BY DEF Sorted
  <2>1. i + 1 \in 0 .. count - 1 /\ j + 1 \in 0 .. count - 1 /\ i + 1 <= j + 1
    BY <1>1
  <2>2. At(i + 1).key <= At(j + 1).key
    BY <2>1 DEF PqInv, Sorted
  <2> QED BY <1>4, <2>2
<1>12. Heaped'
  BY DEF Heaped
<1> QED BY <1>2, <1>3, <1>4, <1>6, <1>9, <1>10, <1>11, <1>12 DEF PqInv

-----------------------------------------------------------------------------
(* The heap: the ways of an entry *)

LEMMA ParentIs ==
    ASSUME NEW j \in Nat \ {0}
    PROVE  Parent(j) \in 0 .. j - 1 /\ (j = 2 * Parent(j) + 1 \/ j = 2 * Parent(j) + 2)
BY DEF Parent

LEMMA RiseUnfolds ==
    ASSUME PQueueAssumption, NEW key, NEW i \in Slots
    PROVE  Rise(i, key) = IF i = 0 THEN {0}
                          ELSE IF entry[Parent(i)].key <= key THEN {i}
                          ELSE {i} \cup Rise(Parent(i), key)
<1> DEFINE Body(f, j) == IF j = 0 THEN {0}
                         ELSE IF entry[Parent(j)].key <= key THEN {j}
                         ELSE {j} \cup f[Parent(j)]
           P(n) == \E f : \A j \in 0 .. n - 1 : f[j] = Body(f, j)
           S    == {n \in 0 .. MaxSize : ~ P(n)}
           up   == CHOOSE f : f = [j \in Slots |-> Body(f, j)]
<1>1. MaxSize \in Nat \ {0} /\ Slots = 0 .. MaxSize - 1
  BY DEF PQueueAssumption, Slots
<1>2. S = {}
  <2> SUFFICES ASSUME S # {} PROVE FALSE
    OBVIOUS
  <2>1. S \in SUBSET (0 .. MaxSize)
    OBVIOUS
  <2>2. PICK m \in S : \A k \in S : m <= k
    <3> HIDE DEF S
    <3> QED BY <1>1, <2>1, LeastOf
  <2>3. P(0)
    OBVIOUS
  <2>4. m \in 1 .. MaxSize /\ ~ P(m)
    <3> HIDE DEF P
    <3>1. m \in 0 .. MaxSize /\ ~ P(m)
      BY <2>2
    <3>2. m # 0
      BY <2>3, <3>1
    <3> QED BY <1>1, <3>1, <3>2
  <2>5. P(m - 1)
    <3>1. m - 1 \in 0 .. MaxSize /\ ~ (m <= m - 1)
      BY <1>1, <2>4
    <3> HIDE DEF P
    <3> QED BY <2>2, <3>1
  <2>6. PICK g : \A j \in 0 .. (m - 1) - 1 : g[j] = Body(g, j)
    BY <2>5
  <2> DEFINE h == [j \in 0 .. m - 1 |-> IF j = m - 1 THEN Body(g, j) ELSE g[j]]
  <2>7. ASSUME NEW j \in 0 .. m - 1 PROVE h[j] = Body(h, j)
    <3>1. j # 0 => Parent(j) \in 0 .. (m - 1) - 1 /\ Parent(j) \in 0 .. m - 1
      BY <2>4, ParentIs
    <3>2. j # 0 => h[Parent(j)] = g[Parent(j)]
      BY <2>4, <3>1
    <3>3. Body(h, j) = Body(g, j)
      <4> HIDE DEF h
      <4> QED BY <3>2
    <3>4. j \in 0 .. (m - 1) - 1 \/ j = m - 1
      BY <2>4
    <3>5. h[j] = IF j = m - 1 THEN Body(g, j) ELSE g[j]
      BY <2>4
    <3> HIDE DEF h, Body
    <3> QED BY <2>6, <3>3, <3>4, <3>5
  <2>8. P(m)
    <3> HIDE DEF h
    <3> QED BY <2>7
  <2> QED BY <2>4, <2>8
<1>3. P(MaxSize)
  <2> HIDE DEF P
  <2> QED BY <1>1, <1>2
<1>4. PICK g : \A j \in 0 .. MaxSize - 1 : g[j] = Body(g, j)
  BY <1>3
<1> DEFINE h == [j \in Slots |-> g[j]]
<1>5. \A j \in Slots : j # 0 => Parent(j) \in Slots
  BY <1>1, ParentIs
<1>6. h = [j \in Slots |-> Body(h, j)]
  <2>1. ASSUME NEW j \in Slots PROVE g[j] = Body(h, j)
    <3>1. j # 0 => h[Parent(j)] = g[Parent(j)]
      BY <1>5
    <3>2. Body(h, j) = Body(g, j)
      <4> HIDE DEF h
      <4> QED BY <3>1
    <3> HIDE DEF h, Body
    <3> QED BY <1>1, <1>4, <3>2
  <2> HIDE DEF Body
  <2> QED BY <2>1
<1>7. up = [j \in Slots |-> Body(up, j)]
  <2> HIDE DEF h, Body
  <2> QED BY <1>6
<1>8. \A j \in Slots : Rise(j, key) = up[j]
  BY DEF Rise
<1> HIDE DEF up
<1>9. \A j \in Slots : up[j] = Body(up, j)
  <2> HIDE DEF Body
  <2> QED BY <1>7
<1> QED BY <1>5, <1>8, <1>9

\* What an entry passes on its way up from slot i to slot m
RisesTo(path, m, i, key) ==
    /\ path \in SUBSET (0 .. i) /\ i \in path /\ m \in path
    /\ \A s \in path : m <= s
    /\ \A s \in path : s # m => /\ s # 0 /\ Parent(s) \in path
                                /\ ~ (entry[Parent(s)].key <= key)
    /\ m # 0 => entry[Parent(m)].key <= key
    /\ \A s \in path : s # i => \E c \in path : c # m /\ Parent(c) = s
    /\ \A a, b \in path : a # m /\ b # m /\ Parent(a) = Parent(b) => a = b

LEMMA RiseFacts ==
    ASSUME PQueueAssumption, NEW i \in Slots, NEW key
    PROVE  \E m \in 0 .. i : RisesTo(Rise(i, key), m, i, key)
<1> DEFINE Good(j) == \E m \in 0 .. j : RisesTo(Rise(j, key), m, j, key)
           S == {j \in 0 .. MaxSize - 1 : ~ Good(j)}
<1>1. MaxSize \in Nat \ {0} /\ Slots = 0 .. MaxSize - 1
  BY DEF PQueueAssumption, Slots
<1> SUFFICES ASSUME S # {} PROVE FALSE
  BY <1>1
<1>2. PICK j \in S : \A k \in S : j <= k
  <2>1. S \in SUBSET (0 .. MaxSize - 1) /\ MaxSize - 1 \in Nat
    BY <1>1
  <2> HIDE DEF S
  <2> QED BY <2>1, LeastOf
<1>3. j \in Slots /\ ~ Good(j) /\ j \in 0 .. j /\ j \in Nat
  BY <1>1, <1>2
<1>4. CASE j = 0
  <2>1. Rise(j, key) = {0}
    BY <1>3, <1>4, RiseUnfolds
  <2>2. RisesTo(Rise(j, key), 0, j, key)
    BY <1>4, <2>1 DEF RisesTo
  <2> QED BY <1>3, <1>4, <2>2
<1>5. CASE j # 0 /\ entry[Parent(j)].key <= key
  <2>1. Rise(j, key) = {j}
    BY <1>3, <1>5, RiseUnfolds
  <2>2. RisesTo(Rise(j, key), j, j, key)
    BY <1>3, <1>5, <2>1 DEF RisesTo
  <2> QED BY <1>3, <2>2
<1>6. CASE j # 0 /\ ~ (entry[Parent(j)].key <= key)
  <2> DEFINE k == Parent(j)
             path == Rise(k, key)
  <2>1. k \in 0 .. j - 1 /\ k \in Slots /\ k # j
    BY <1>1, <1>3, <1>6, ParentIs
  <2>2. Rise(j, key) = {j} \cup path
    BY <1>3, <1>6, RiseUnfolds
  <2> HIDE DEF k, path
  <2>3. Good(k)
    <3>1. k \in 0 .. MaxSize - 1 /\ ~ (j <= k)
      BY <1>1, <1>3, <2>1
    <3> HIDE DEF Good
    <3> QED BY <1>2, <3>1
  <2>4. PICK m \in 0 .. k : RisesTo(path, m, k, key)
    BY <2>3 DEF path
  <2> DEFINE Q == {j} \cup path
  <2>5. \A s \in path : s \in 0 .. k /\ s # j /\ s < j
    BY <1>3, <2>1, <2>4 DEF RisesTo
  <2>6. m \in path /\ m < j /\ k \in path /\ \A s \in path : m <= s
    BY <2>4, <2>5 DEF RisesTo
  <2>7. Q \in SUBSET (0 .. j) /\ j \in Q /\ m \in Q /\ \A s \in Q : m <= s
    <3>1. \A s \in path : s \in 0 .. j
      BY <1>3, <2>1, <2>5
    <3> QED BY <1>3, <2>1, <2>6, <3>1
  <2>8. \A s \in Q : s # m => /\ s # 0 /\ Parent(s) \in Q
                              /\ ~ (entry[Parent(s)].key <= key)
    <3>1. Parent(j) = k
      BY DEF k
    <3> QED BY <1>6, <2>4, <2>6, <3>1, Zenon DEF RisesTo
  <2>9. m # 0 => entry[Parent(m)].key <= key
    BY <2>4 DEF RisesTo
  <2>10. ASSUME NEW s \in Q, s # j PROVE \E c \in Q : c # m /\ Parent(c) = s
    <3>1. CASE s = k
      <4>1. j \in Q /\ j # m /\ Parent(j) = s
        BY <2>6, <2>5, <3>1 DEF k
      <4> QED BY <4>1
    <3>2. CASE s # k
      <4>1. PICK c \in path : c # m /\ Parent(c) = s
        BY <2>4, <2>10, <3>2 DEF RisesTo
      <4> QED BY <4>1
    <3> QED BY <3>1, <3>2
  <2>11. ASSUME NEW a \in Q, NEW b \in Q, a # m, b # m, Parent(a) = Parent(b) PROVE a = b
    <3>1. ASSUME NEW c \in path, c # m PROVE Parent(c) # k
      <4>1. c \in 0 .. k /\ c # 0
        BY <2>4, <2>5, <3>1 DEF RisesTo
      <4>2. Parent(c) \in 0 .. c - 1
        BY <2>1, <4>1, ParentIs
      <4> QED BY <2>1, <4>1, <4>2
    <3>2. Parent(j) = k
      BY DEF k
    <3>3. CASE a \in path /\ b \in path
      BY <2>4, <2>11, <3>3 DEF RisesTo
    <3> QED BY <2>11, <3>1, <3>2, <3>3
  <2>12. RisesTo(Q, m, j, key)
    <3> HIDE DEF Q
    <3> QED BY <2>7, <2>8, <2>9, <2>10, <2>11 DEF RisesTo
  <2>13. m \in 0 .. j
    BY <1>3, <2>1
  <2> QED BY <1>3, <2>2, <2>12, <2>13
<1> QED BY <1>4, <1>5, <1>6

LEMMA LighterIs ==
    ASSUME PQueueAssumption, PqTypes, NEW i \in Slots, NEW n \in 0 .. MaxSize, NEW key \in Int
    PROVE  /\ FallsTo(i, n, key) # {} =>
                 LET l == Lighter(i, n, key) IN
                 /\ l \in Slots /\ i < l /\ l < n /\ Parent(l) = i /\ entry[l].key < key
                 /\ \A c \in 1 .. n - 1 : Parent(c) = i => entry[l].key <= entry[c].key
           /\ FallsTo(i, n, key) = {} => \A c \in 1 .. n - 1 : Parent(c) = i => key <= entry[c].key
<1> DEFINE l == Lighter(i, n, key)
           F == FallsTo(i, n, key)
           T == {j \in F : \A k \in F : entry[j].key <= entry[k].key}
<1>1. /\ MaxSize \in Nat \ {0} /\ Slots = 0 .. MaxSize - 1 /\ i \in Nat /\ n \in Nat /\ n <= MaxSize
      /\ \A j \in Slots : entry[j].key \in Int
  BY DEF PQueueAssumption, Slots, PqTypes
<1>2. F = {j \in {2 * i + 1, 2 * i + 2} : j < n /\ entry[j].key < key}
  BY <1>1 DEF FallsTo
<1>3. ASSUME NEW c \in 1 .. n - 1, Parent(c) = i
      PROVE  c \in {2 * i + 1, 2 * i + 2} /\ c < n /\ c \in Slots
  <2>1. c = 2 * Parent(c) + 1 \/ c = 2 * Parent(c) + 2
    BY <1>1, ParentIs
  <2> QED BY <1>1, <1>3, <2>1
<1>4. Parent(2 * i + 1) = i /\ Parent(2 * i + 2) = i
  BY <1>1 DEF Parent
<1>5. ASSUME NEW j \in F PROVE j \in Slots /\ i < j /\ j < n /\ Parent(j) = i /\ entry[j].key < key
  BY <1>1, <1>2, <1>4, <1>5
<1>6. ASSUME F # {}
      PROVE  /\ l \in Slots /\ i < l /\ l < n /\ Parent(l) = i /\ entry[l].key < key
             /\ \A c \in 1 .. n - 1 : Parent(c) = i => entry[l].key <= entry[c].key
  <2>1. T # {}
    <3>1. PICK j \in F : TRUE
      BY <1>6
    <3>2. CASE \A k \in F : entry[j].key <= entry[k].key
      BY <3>1, <3>2
    <3>3. CASE \E k \in F : ~ (entry[j].key <= entry[k].key)
      <4>1. PICK k \in F : ~ (entry[j].key <= entry[k].key)
        BY <3>3
      <4>2. entry[k].key < entry[j].key /\ entry[k].key \in Int /\ entry[j].key \in Int
        <5> HIDE DEF F
        <5>1. entry[k].key \in Int /\ entry[j].key \in Int
          BY <1>1, <1>5
        <5> QED BY <4>1, <5>1
      <4>3. \A x \in F : x = j \/ x = k
        <5>1. \A x \in F : x = 2 * i + 1 \/ x = 2 * i + 2
          BY <1>2
        <5>2. j # k
          BY <4>2
        <5> HIDE DEF F
        <5> QED BY <5>1, <5>2
      <4>4. k \in T
        <5> HIDE DEF F
        <5> QED BY <4>2, <4>3
      <4> QED BY <4>4
    <3> QED BY <3>2, <3>3
  <2>2. T \in SUBSET (0 .. MaxSize - 1)
    BY <1>1, <1>5
  <2>3. l = Min(T)
    BY DEF Lighter
  <2>4. l \in T
    <3> HIDE DEF T, l
    <3>1. MaxSize - 1 \in Nat
      BY <1>1
    <3> QED BY <2>1, <2>2, <2>3, <3>1, MinOf
  <2>5. l \in F /\ \A k \in F : entry[l].key <= entry[k].key
    <3> HIDE DEF l
    <3> QED BY <2>4
  <2> HIDE DEF l
  <2>6. l \in Slots /\ i < l /\ l < n /\ Parent(l) = i /\ entry[l].key < key
    BY <1>5, <2>5
  <2>7. ASSUME NEW c \in 1 .. n - 1, Parent(c) = i PROVE entry[l].key <= entry[c].key
    <3>1. c \in {2 * i + 1, 2 * i + 2} /\ c < n /\ c \in Slots
      BY <1>3, <2>7
    <3>2. CASE entry[c].key < key
      <4>1. c \in F
        BY <1>2, <3>1, <3>2
      <4> QED BY <2>5, <4>1
    <3>3. CASE ~ (entry[c].key < key)
      BY <1>1, <2>6, <3>1, <3>3
    <3> QED BY <3>2, <3>3
  <2> QED BY <2>6, <2>7
<1>7. ASSUME F = {}, NEW c \in 1 .. n - 1, Parent(c) = i PROVE key <= entry[c].key
  <2>1. c \in {2 * i + 1, 2 * i + 2} /\ c < n /\ c \in Slots
    BY <1>3, <1>7
  <2>2. ~ (entry[c].key < key)
    BY <1>2, <1>7, <2>1
  <2> QED BY <1>1, <2>1, <2>2
<1> HIDE DEF l, F
<1>8. QED BY <1>6, <1>7 DEF l, F

\* The slots that an entry passes on its way down from slot i
FallFrom(i, n, key) ==
    LET down[j \in Slots] == IF FallsTo(j, n, key) = {} THEN {j}
                             ELSE {j} \cup down[Lighter(j, n, key)]
    IN  down[i]

LEMMA FallUnfolds ==
    ASSUME PQueueAssumption, PqTypes, NEW n \in 0 .. MaxSize, NEW key \in Int, NEW i \in Slots
    PROVE  FallFrom(i, n, key) = IF FallsTo(i, n, key) = {} THEN {i}
                                 ELSE {i} \cup FallFrom(Lighter(i, n, key), n, key)
<1> DEFINE none(j) == FallsTo(j, n, key) = {}
           next(j) == Lighter(j, n, key)
           Body(f, j) == IF none(j) THEN {j} ELSE {j} \cup f[next(j)]
           P(t) == \E f : \A j \in MaxSize - t .. MaxSize - 1 : f[j] = Body(f, j)
           S    == {t \in 0 .. MaxSize : ~ P(t)}
           down == CHOOSE f : f = [j \in Slots |-> Body(f, j)]
<1>1. MaxSize \in Nat \ {0} /\ Slots = 0 .. MaxSize - 1
  BY DEF PQueueAssumption, Slots
<1>2. \A j \in Slots : ~ none(j) => next(j) \in Slots /\ j < next(j)
  BY LighterIs
<1>3. \A j \in Slots : FallFrom(j, n, key) = down[j]
  BY DEF FallFrom
<1> HIDE DEF none, next
<1>4. S = {}
  <2> SUFFICES ASSUME S # {} PROVE FALSE
    OBVIOUS
  <2>1. S \in SUBSET (0 .. MaxSize)
    OBVIOUS
  <2>2. PICK m \in S : \A k \in S : m <= k
    <3> HIDE DEF S
    <3> QED BY <1>1, <2>1, LeastOf
  <2>3. P(0)
    BY <1>1
  <2>4. m \in 1 .. MaxSize /\ ~ P(m)
    <3> HIDE DEF P
    <3>1. m \in 0 .. MaxSize /\ ~ P(m)
      BY <2>2
    <3>2. m # 0
      BY <2>3, <3>1
    <3> QED BY <1>1, <3>1, <3>2
  <2>5. P(m - 1)
    <3>1. m - 1 \in 0 .. MaxSize /\ ~ (m <= m - 1)
      BY <1>1, <2>4
    <3> HIDE DEF P
    <3> QED BY <2>2, <3>1
  <2>6. PICK g : \A j \in MaxSize - (m - 1) .. MaxSize - 1 : g[j] = Body(g, j)
    BY <2>5
  <2> DEFINE h == [j \in Slots |-> IF j = MaxSize - m THEN Body(g, j) ELSE g[j]]
  <2>7. ASSUME NEW j \in MaxSize - m .. MaxSize - 1 PROVE h[j] = Body(h, j)
    <3>1. j \in Slots /\ (j = MaxSize - m \/ j \in MaxSize - (m - 1) .. MaxSize - 1)
      BY <1>1, <2>4
    <3>2. ~ none(j) => next(j) \in Slots /\ next(j) # MaxSize - m
      BY <1>1, <1>2, <2>4, <3>1
    <3>3. ~ none(j) => h[next(j)] = g[next(j)]
      BY <3>2
    <3>4. h[j] = IF j = MaxSize - m THEN Body(g, j) ELSE g[j]
      BY <3>1
    <3> HIDE DEF h
    <3>5. Body(h, j) = Body(g, j)
      BY <3>3
    <3> HIDE DEF Body
    <3> QED BY <2>6, <3>1, <3>4, <3>5
  <2>8. P(m)
    <3> HIDE DEF h
    <3> QED BY <2>7
  <2> QED BY <2>4, <2>8
<1>5. P(MaxSize)
  <2> HIDE DEF P
  <2> QED BY <1>1, <1>4
<1>6. PICK g : \A j \in Slots : g[j] = Body(g, j)
  <2>1. MaxSize - MaxSize = 0
    BY <1>1
  <2> QED BY <1>1, <1>5, <2>1
<1> DEFINE h == [j \in Slots |-> g[j]]
<1>7. h = [j \in Slots |-> Body(h, j)]
  <2>1. ASSUME NEW j \in Slots PROVE g[j] = Body(h, j)
    <3>1. ~ none(j) => h[next(j)] = g[next(j)]
      BY <1>2
    <3>2. Body(h, j) = Body(g, j)
      <4> HIDE DEF h
      <4> QED BY <3>1
    <3> HIDE DEF h, Body
    <3> QED BY <1>6, <3>2
  <2> HIDE DEF Body
  <2> QED BY <2>1
<1>8. down = [j \in Slots |-> Body(down, j)]
  <2> HIDE DEF h, Body
  <2> QED BY <1>7
<1> HIDE DEF down
<1>9. \A j \in Slots : down[j] = Body(down, j)
  <2> HIDE DEF Body
  <2> QED BY <1>8
<1>10. FallFrom(i, n, key) = Body(down, i)
  BY <1>3, <1>9
<1>11. ~ none(i) => FallFrom(next(i), n, key) = down[next(i)]
  BY <1>2, <1>3
<1> QED BY <1>10, <1>11 DEF none, next

\* What an entry passes on its way down from slot i to slot m of a heap of n
FallsDown(path, m, i, n, key) ==
    /\ path \in SUBSET (i .. n - 1) /\ i \in path /\ m \in path
    /\ \A s \in path : s <= m
    /\ \A s \in path : s # m => FallsTo(s, n, key) # {} /\ Lighter(s, n, key) \in path
    /\ FallsTo(m, n, key) = {}
    /\ \A s \in path : s # i => /\ Parent(s) \in path /\ Parent(s) # m
                                /\ Lighter(Parent(s), n, key) = s

LEMMA FallFacts ==
    ASSUME PQueueAssumption, PqTypes, NEW n \in 1 .. MaxSize, NEW key \in Int
    PROVE  \E m \in 0 .. n - 1 : FallsDown(Fall(n, key), m, 0, n, key)
<1>1. MaxSize \in Nat \ {0} /\ Slots = 0 .. MaxSize - 1 /\ n \in 0 .. MaxSize
  BY DEF PQueueAssumption, Slots
<1>6. \A i \in Slots : FallFrom(i, n, key) = IF FallsTo(i, n, key) = {} THEN {i}
                                 ELSE {i} \cup FallFrom(Lighter(i, n, key), n, key)
  BY <1>1, FallUnfolds
<1> DEFINE Good(j) == \E m \in j .. n - 1 : FallsDown(FallFrom(j, n, key), m, j, n, key)
           S == {j \in 0 .. n - 1 : ~ Good(j)}
<1> SUFFICES ASSUME S # {} PROVE FALSE
  <2>1. Good(0)
    BY <1>1
  <2>2. Fall(n, key) = FallFrom(0, n, key)
    BY DEF Fall, FallFrom
  <2> QED BY <2>1, <2>2
<1>2. PICK j \in S : \A k \in S : j >= k
  <2>1. S \in SUBSET (0 .. n - 1) /\ n - 1 \in Nat
    BY <1>1
  <2> HIDE DEF S
  <2> QED BY <2>1, MaxOf
<1>3. j \in Slots /\ ~ Good(j) /\ j \in j .. n - 1 /\ j \in Nat
  BY <1>1, <1>2
<1>4. CASE FallsTo(j, n, key) = {}
  <2>1. FallFrom(j, n, key) = {j}
    BY <1>3, <1>4, <1>6
  <2>2. FallsDown(FallFrom(j, n, key), j, j, n, key)
    BY <1>3, <1>4, <2>1 DEF FallsDown
  <2> QED BY <1>3, <2>2
<1>5. CASE FallsTo(j, n, key) # {}
  <2> DEFINE k == Lighter(j, n, key)
             path == FallFrom(k, n, key)
             Q == {j} \cup path
  <2>1. k \in Slots /\ j < k /\ k < n /\ Parent(k) = j
    BY <1>1, <1>3, <1>5, LighterIs
  <2>2. FallFrom(j, n, key) = Q
    BY <1>3, <1>5, <1>6
  <2>3. Good(k)
    <3>1. k \in 0 .. n - 1 /\ ~ (j >= k)
      BY <1>1, <1>3, <2>1
    <3> HIDE DEF Good, k
    <3> QED BY <1>2, <3>1
  <2>4. PICK m \in k .. n - 1 : FallsDown(path, m, k, n, key)
    BY <2>3
  <2>5. Lighter(j, n, key) = k
    OBVIOUS
  <2> HIDE DEF k, path
  <2>6. \A s \in path : s \in k .. n - 1 /\ s # j /\ s <= m
    BY <1>1, <1>3, <2>1, <2>4 DEF FallsDown
  <2>7. m \in path /\ j < m /\ k \in path
    BY <1>1, <1>3, <2>1, <2>4 DEF FallsDown
  <2>8. Q \in SUBSET (j .. n - 1) /\ j \in Q /\ m \in Q /\ \A s \in Q : s <= m
    <3>1. \A s \in path : s \in j .. n - 1
      BY <1>1, <1>3, <2>1, <2>6
    <3>2. j <= m
      BY <1>3, <2>4, <2>7
    <3> QED BY <1>3, <2>6, <2>7, <3>1, <3>2
  <2>9. \A s \in Q : s # m => FallsTo(s, n, key) # {} /\ Lighter(s, n, key) \in Q
    BY <1>5, <2>4, <2>5, <2>7, Zenon DEF FallsDown
  <2>10. ASSUME NEW s \in Q, s # j
         PROVE  Parent(s) \in Q /\ Parent(s) # m /\ Lighter(Parent(s), n, key) = s
    <3>1. CASE s = k
      <4>1. j # m
        BY <2>6, <2>7
      <4> QED BY <2>1, <2>5, <3>1, <4>1
    <3>2. CASE s # k
      <4>1. s \in path
        BY <2>10
      <4> QED BY <2>4, <3>2, <4>1 DEF FallsDown
    <3> QED BY <3>1, <3>2
  <2>11. FallsTo(m, n, key) = {}
    BY <2>4 DEF FallsDown
  <2>12. FallsDown(Q, m, j, n, key)
    <3> HIDE DEF Q
    <3> QED BY <2>8, <2>9, <2>10, <2>11 DEF FallsDown
  <2>13. m \in j .. n - 1
    BY <1>3, <2>8
  <2> QED BY <1>3, <2>2, <2>12, <2>13
<1> QED BY <1>4, <1>5

-----------------------------------------------------------------------------
(* What a step does to the queue *)

\* v is queued under key now, and nothing else has changed.
Enters(v, key) ==
    /\ pos'[v] # MaxSize /\ entry'[pos'[v]].key = key
    /\ \A u \in Vals : u # v =>
          /\ pos'[u] = MaxSize <=> pos[u] = MaxSize
          /\ pos[u] # MaxSize => entry'[pos'[u]].key = entry[pos[u]].key

\* v is not queued any more, and nothing else has changed.
Departs(v) ==
    /\ pos'[v] = MaxSize
    /\ \A u \in Vals : u # v =>
          /\ pos'[u] = MaxSize <=> pos[u] = MaxSize
          /\ pos[u] # MaxSize => entry'[pos'[u]].key = entry[pos[u]].key

\* The entries of other values are the old ones, in another order.
OthersStay(v) ==
    /\ \A j \in 0 .. count' - 1 : At(j)'.val # v =>
          \E l \in 0 .. count - 1 : At(j)' = At(l)
    /\ \A l \in 0 .. count - 1 : At(l).val # v =>
          \E j \in 0 .. count' - 1 : At(j)' = At(l)

\* What the places of the queue are, in both states
Places ==
    /\ \A l \in 0 .. count - 1 : /\ l \in Slots /\ Slot(l) \in Slots /\ Slot(l) # MaxSize
                                 /\ At(l) \in [key : Int, val : Vals]
                                 /\ pos[At(l).val] = Slot(l) /\ entry[Slot(l)] = At(l)
    /\ \A u \in Vals : pos[u] # MaxSize =>
          \E l \in 0 .. count - 1 : pos[u] = Slot(l) /\ At(l).val = u

LEMMA PlacesAre == ASSUME PQueueAssumption, PqInv PROVE Places
<1>1. /\ MaxSize \in Nat \ {0} /\ Slots = 0 .. MaxSize - 1
      /\ start \in Slots /\ count \in 0 .. MaxSize /\ entry \in [Slots -> [key : Int, val : Vals]]
  BY DEF PQueueAssumption, Slots, PqInv, PqTypes
<1>2. ASSUME NEW l \in 0 .. count - 1
      PROVE  /\ l \in Slots /\ Slot(l) \in Slots /\ Slot(l) # MaxSize
             /\ At(l) \in [key : Int, val : Vals]
             /\ pos[At(l).val] = Slot(l) /\ entry[Slot(l)] = At(l)
  <2>1. l \in Slots
    BY <1>1
  <2>2. Slot(l) \in Slots
    BY <1>1, <2>1, SlotIs
  <2> QED BY <1>1, <2>1, <2>2 DEF PqInv, Found, At
<1> QED BY <1>2 DEF PqInv, Kept, Places

LEMMA PlacesNext == ASSUME PQueueAssumption PROVE PqInv' => Places'
<1>1. PqInv => Places
  BY PlacesAre
<1> QED BY <1>1, PTL

LEMMA OthersAreAsBefore ==
    ASSUME PQueueAssumption, PqInv, PqInv', NEW v, OthersStay(v), NEW u \in Vals, u # v
    PROVE  /\ pos'[u] = MaxSize <=> pos[u] = MaxSize
           /\ pos[u] # MaxSize => entry'[pos'[u]].key = entry[pos[u]].key
<1>1. Places /\ Places'
  BY PlacesAre, PlacesNext
<1>2. ASSUME pos[u] # MaxSize
      PROVE  pos'[u] # MaxSize /\ entry'[pos'[u]].key = entry[pos[u]].key
  <2>1. PICK l \in 0 .. count - 1 : pos[u] = Slot(l) /\ At(l).val = u /\ entry[Slot(l)] = At(l)
    BY <1>1, <1>2 DEF Places
  <2>2. PICK j \in 0 .. count' - 1 : At(j)' = At(l)
    BY <2>1 DEF OthersStay
  <2>3. pos'[u] = Slot(j)' /\ Slot(j)' # MaxSize /\ entry'[Slot(j)'] = At(j)'
    BY <1>1, <2>1, <2>2 DEF Places, Slots, Vals
  <2> QED BY <2>1, <2>2, <2>3
<1>3. ASSUME pos'[u] # MaxSize PROVE pos[u] # MaxSize
  <2>1. PICK j \in 0 .. count' - 1 : At(j)'.val = u
    BY <1>1, <1>3 DEF Places, Slots, Vals
  <2>2. PICK l \in 0 .. count - 1 : At(j)' = At(l)
    BY <2>1 DEF OthersStay
  <2>3. pos[u] = Slot(l) /\ Slot(l) # MaxSize
    BY <1>1, <2>1, <2>2 DEF Places
  <2> QED BY <2>3
<1> QED BY <1>2, <1>3

LEMMA EntersFrom ==
    ASSUME PQueueAssumption, PqInv, PqInv', NEW v, NEW key, OthersStay(v),
           NEW p \in 0 .. count' - 1, At(p)' = [key |-> key, val |-> v]
    PROVE  Enters(v, key)
<1>1. Places'
  BY PlacesNext
<1>2. pos'[v] = Slot(p)' /\ Slot(p)' # MaxSize /\ entry'[Slot(p)'] = At(p)'
  BY <1>1 DEF Places, Slots, Vals
<1> QED BY <1>2, OthersAreAsBefore DEF Enters

\* In the ring
LEMMA MoveEnters ==
    ASSUME PQueueAssumption, PqInv, PqInv', NEW p, NEW k, NEW v, NEW key \in Int,
           MoveStep(p, k, v, key)
    PROVE  Enters(v, key)
<1>1. /\ MaxSize \in Nat \ {0} /\ Slots = 0 .. MaxSize - 1 /\ start \in Slots
      /\ count \in 0 .. MaxSize /\ count' \in 0 .. MaxSize
      /\ k \in Slots /\ k \in 0 .. count /\ k < count' /\ p \in 0 .. k
      /\ count' = IF k = count THEN count + 1 ELSE count
      /\ \A j \in 0 .. count - 1 : (At(j).val = v) <=> (j = k)
      /\ \A j \in Slots : At(j)' = entry'[Slot(j)] /\ Slot(j)' = Slot(j)
  BY MoveStepFacts
<1>2. \A j \in Slots : entry'[Slot(j)] =
            IF j = p THEN [key |-> key, val |-> v]
            ELSE IF j \in p + 1 .. k THEN At(j - 1) ELSE At(j)
  BY DEF MoveStep, MovedIn
<1>3. p \in 0 .. count' - 1 /\ At(p)' = [key |-> key, val |-> v]
  <2>1. p \in 0 .. count' - 1 /\ p \in Slots
    BY <1>1
  <2> QED BY <1>1, <1>2, <2>1
<1>4. ASSUME NEW j \in 0 .. count' - 1, At(j)'.val # v
      PROVE  \E l \in 0 .. count - 1 : At(j)' = At(l)
  <2>1. j # p /\ j \in Slots
    BY <1>1, <1>3, <1>4
  <2>2. CASE j \in p + 1 .. k
    <3>1. j - 1 \in 0 .. count - 1
      BY <1>1, <2>2
    <3> QED BY <1>1, <1>2, <2>1, <2>2, <3>1
  <2>3. CASE j \notin p + 1 .. k
    <3>1. j \in 0 .. count - 1
      BY <1>1, <2>1, <2>3
    <3> QED BY <1>1, <1>2, <2>1, <2>3, <3>1
  <2> QED BY <2>2, <2>3
<1>5. ASSUME NEW l \in 0 .. count - 1, At(l).val # v
      PROVE  \E j \in 0 .. count' - 1 : At(j)' = At(l)
  <2>1. l # k
    BY <1>1, <1>5
  <2>2. CASE l \in p .. k - 1
    <3>1. l + 1 \in 0 .. count' - 1 /\ l + 1 \in Slots /\ l + 1 # p /\ l + 1 \in p + 1 .. k /\ (l + 1) - 1 = l
      BY <1>1, <2>2
    <3>2. At(l + 1)' = At((l + 1) - 1)
      BY <1>1, <1>2, <3>1
    <3> QED BY <3>1, <3>2
  <2>3. CASE l \notin p .. k - 1
    <3>1. l \in 0 .. count' - 1 /\ l \in Slots /\ l # p /\ l \notin p + 1 .. k
      BY <1>1, <2>1, <2>3
    <3> QED BY <1>1, <1>2, <3>1
  <2> QED BY <2>2, <2>3
<1>6. OthersStay(v)
  BY <1>4, <1>5 DEF OthersStay
<1> QED BY <1>3, <1>6, EntersFrom

LEMMA PopRingDeparts ==
    ASSUME PQueueAssumption, PqInv, build = "PQ_RING", count > 0, PopFromRing,
           count' = count - 1, UNCHANGED build
    PROVE  PqInv' /\ Departs(At(0).val) /\ At(0) = entry[start]
<1>1. /\ PqInv'
      /\ \A j \in 0 .. count' - 1 : At(j)' = At(j + 1) /\ Slot(j)' = Slot(j + 1)
      /\ pos' = [pos EXCEPT ![At(0).val] = MaxSize] /\ At(0) = entry[start]
  BY PopRingKeeps
<1>2. count \in Nat /\ 0 \in 0 .. count - 1 /\ pos \in [Vals -> 0 .. MaxSize]
  BY DEF PqInv, PqTypes, PQueueAssumption
<1>3. OthersStay(At(0).val)
  <2>1. ASSUME NEW j \in 0 .. count' - 1 PROVE \E l \in 0 .. count - 1 : At(j)' = At(l)
    <3>1. j + 1 \in 0 .. count - 1
      BY <1>2
    <3> QED BY <1>1, <3>1
  <2>2. ASSUME NEW l \in 0 .. count - 1, At(l).val # At(0).val
        PROVE  \E j \in 0 .. count' - 1 : At(j)' = At(l)
    <3>1. l # 0
      BY <2>2
    <3>2. l - 1 \in 0 .. count' - 1 /\ (l - 1) + 1 = l
      BY <1>2, <3>1
    <3>3. At(l - 1)' = At((l - 1) + 1)
      BY <1>1, <3>2
    <3> QED BY <3>2, <3>3
  <2> QED BY <2>1, <2>2 DEF OthersStay
<1>4. pos'[At(0).val] = MaxSize
  <2>1. At(0).val \in Vals
    BY <1>2, PlacesAre DEF Places
  <2> QED BY <1>1, <1>2, <2>1
<1> QED BY <1>1, <1>3, <1>4, OthersAreAsBefore DEF Departs

-----------------------------------------------------------------------------
(* The heap: the steps *)

LEMMA HeapSlots ==
    ASSUME PQueueAssumption, PqInv, build = "PQ_HEAP"
    PROVE  /\ MaxSize \in Nat \ {0} /\ Slots = 0 .. MaxSize - 1 /\ Vals = 0 .. MaxSize - 1
           /\ start = 0 /\ count \in 0 .. MaxSize
           /\ pos \in [Vals -> 0 .. MaxSize] /\ entry \in [Slots -> [key : Int, val : Vals]]
           /\ \A k \in Slots : Slot(k) = k /\ At(k) = entry[k]
           /\ \A i \in 1 .. count - 1 : entry[Parent(i)].key <= entry[i].key
<1>1. /\ MaxSize \in Nat \ {0} /\ Slots = 0 .. MaxSize - 1 /\ Vals = 0 .. MaxSize - 1
      /\ start = 0 /\ start \in Slots /\ count \in 0 .. MaxSize
      /\ pos \in [Vals -> 0 .. MaxSize] /\ entry \in [Slots -> [key : Int, val : Vals]]
  BY DEF PQueueAssumption, Slots, Vals, PqInv, PqTypes
<1>2. ASSUME NEW k \in Slots PROVE Slot(k) = k /\ At(k) = entry[k]
  <2>1. Slot(k) = IF start + k < MaxSize THEN start + k ELSE start + k - MaxSize
    BY <1>1, SlotIs
  <2>2. k \in 0 .. MaxSize - 1
    BY <1>1
  <2>3. Slot(k) = k
    BY <1>1, <2>1, <2>2
  <2> QED BY <2>3 DEF At
<1> QED BY <1>1, <1>2 DEF PqInv, Heaped

LEMMA MovedNot ==
    ASSUME NEW path, NEW e, NEW v \in Vals, \A s \in path : e[s].val # v
    PROVE  Moved(path, e)[v] = pos[v]
BY DEF Moved

LEMMA SiftUpKeeps ==
    ASSUME PQueueAssumption, PqInv, build = "PQ_HEAP",
           NEW i, NEW v, NEW key \in Int, ComesTo(i, v), SiftUp(i, v, key),
           i < count => key < At(i).key,
           UNCHANGED <<build, start>>,
           count' = IF i = count THEN count + 1 ELSE count
    PROVE  PqInv' /\ Enters(v, key)
<1> DEFINE path == Rise(i, key)
           from(j) == IF j \in path THEN Parent(j) ELSE j
           K(j) == entry[j].key
<1>1. /\ MaxSize \in Nat \ {0} /\ Slots = 0 .. MaxSize - 1 /\ Vals = 0 .. MaxSize - 1
      /\ start = 0 /\ count \in 0 .. MaxSize
      /\ pos \in [Vals -> 0 .. MaxSize] /\ entry \in [Slots -> [key : Int, val : Vals]]
      /\ \A k \in Slots : Slot(k) = k /\ At(k) = entry[k]
      /\ \A c \in 1 .. count - 1 : K(Parent(c)) <= K(c)
  BY HeapSlots
<1>2. /\ count' \in 0 .. MaxSize /\ i \in Slots /\ i \in 0 .. count /\ i < count'
      /\ \A j \in 0 .. count - 1 : (At(j).val = v) <=> (j = i)
  BY ComesToFacts
<1>3. v \in Vals
  BY DEF ComesTo
<1>0. /\ MaxSize \in Nat /\ count \in Nat /\ count' \in Nat /\ i \in Nat
      /\ i <= count /\ i < count' /\ count' <= MaxSize /\ count <= count' /\ i < MaxSize
      /\ (count' = count /\ i < count) \/ (count' = count + 1 /\ i = count)
  <2>1. /\ MaxSize \in Nat /\ count \in 0 .. MaxSize /\ count' \in 0 .. MaxSize
        /\ i \in 0 .. count /\ i < count'
    BY <1>1, <1>2
  <2>2. count' = count \/ (count' = count + 1 /\ i = count)
    OBVIOUS
  <2> QED BY <2>1, <2>2
<1>s. \A j : j \in Slots <=> j \in 0 .. MaxSize - 1
  BY <1>1
<1>4. PICK m \in 0 .. i : RisesTo(path, m, i, key)
  BY <1>2, RiseFacts
<1>5. /\ path \in SUBSET (0 .. i) /\ i \in path /\ m \in path
      /\ \A s \in path : m <= s
      /\ \A s \in path : s # m => /\ s # 0 /\ Parent(s) \in path
                                  /\ ~ (K(Parent(s)) <= key)
      /\ m # 0 => K(Parent(m)) <= key
      /\ \A s \in path : s # i => \E c \in path : c # m /\ Parent(c) = s
      /\ \A a, b \in path : a # m /\ b # m /\ Parent(a) = Parent(b) => a = b
  BY <1>4 DEF RisesTo
<1>6. Min(path) = m
  <2> HIDE DEF path
  <2>1. path # {} /\ i \in Nat
    BY <1>0, <1>5
  <2>2. Min(path) \in path /\ \A k \in path : Min(path) <= k
    BY <1>5, <2>1, MinOf
  <2>3. m \in Int /\ Min(path) \in Int
    <3>1. Min(path) \in 0 .. i
      BY <1>5, <2>2
    <3> QED BY <1>0, <3>1
  <2> QED BY <1>5, <2>2, <2>3
<1>7. /\ entry' = [s \in Slots |->
              IF s = m THEN [key |-> key, val |-> v]
              ELSE IF s \in path THEN entry[Parent(s)]
              ELSE entry[s]]
      /\ pos' = Moved(path, entry')
  BY <1>6 DEF SiftUp
<1> HIDE DEF path
<1>8. \A s \in path : s \in 0 .. i /\ s \in Slots /\ s \in Nat
  BY <1>0, <1>s, <1>5
<1>9. ASSUME NEW s \in path, s # m
      PROVE  /\ s \in Nat \ {0} /\ Parent(s) \in 0 .. s - 1 /\ Parent(s) \in path
             /\ Parent(s) \in 0 .. count - 1 /\ Parent(s) # i
  <2>1. s \in Nat \ {0} /\ Parent(s) \in path /\ s <= i
    BY <1>5, <1>8, <1>9
  <2>2. Parent(s) \in 0 .. s - 1
    BY <2>1, ParentIs
  <2> QED BY <1>0, <2>1, <2>2
<1>10. \A j \in Slots : entry'[j] = IF j = m THEN [key |-> key, val |-> v] ELSE entry[from(j)]
  BY <1>7
<1>11. ASSUME NEW j \in 0 .. count' - 1
       PROVE  /\ j \in Slots
              /\ j # m => from(j) \in 0 .. count - 1 /\ from(j) # i /\ from(j) \in Slots
  <2>1. j \in Slots
    BY <1>0, <1>s
  <2>2. CASE j \in path
    <3>1. \A l \in 0 .. count - 1 : l \in Slots
      BY <1>0, <1>s
    <3> QED BY <1>9, <2>1, <2>2, <3>1
  <2>3. CASE j \notin path
    <3>1. j # i
      BY <1>5, <2>3
    <3>2. j \in 0 .. count - 1
      BY <1>0, <3>1
    <3> QED BY <2>1, <2>3, <3>1, <3>2
  <2> QED BY <2>2, <2>3
<1>12. ASSUME NEW a \in 0 .. count' - 1, NEW b \in 0 .. count' - 1, a # m, b # m, from(a) = from(b)
       PROVE  a = b
  BY <1>5, <1>9, <1>12
<1>13. ASSUME NEW l \in 0 .. count - 1, l # i
       PROVE  \E j \in 0 .. count' - 1 : j # m /\ from(j) = l
  <2>1. CASE l \in path
    <3>1. PICK c \in path : c # m /\ Parent(c) = l
      BY <1>5, <1>13, <2>1
    <3>2. c \in 0 .. count' - 1
      <4>1. c \in 0 .. i
        BY <1>8
      <4> QED BY <1>0, <4>1
    <3> QED BY <3>1, <3>2
  <2>2. CASE l \notin path
    <3>1. l \in 0 .. count' - 1 /\ l # m
      BY <1>0, <1>5, <2>2
    <3> QED BY <2>2, <3>1
  <2> QED BY <2>1, <2>2
<1>14. Places
  BY PlacesAre
<1>15. \A l \in 0 .. count - 1 : pos[entry[l].val] = l /\ l \in Slots /\ ((entry[l].val = v) <=> (l = i))
  <2> SUFFICES ASSUME NEW l \in 0 .. count - 1
               PROVE  pos[entry[l].val] = l /\ l \in Slots /\ ((entry[l].val = v) <=> (l = i))
    OBVIOUS
  <2>1. l \in Slots
    BY <1>0, <1>s
  <2>2. Slot(l) = l /\ At(l) = entry[l]
    BY <1>1, <2>1
  <2>3. pos[At(l).val] = Slot(l)
    BY <1>14 DEF Places
  <2> QED BY <1>2, <2>1, <2>2, <2>3
<1> HIDE DEF from
<1>16. ASSUME NEW a \in 0 .. count' - 1, NEW b \in 0 .. count' - 1, entry'[a].val = entry'[b].val
       PROVE  a = b
  <2>1. \A j \in 0 .. count' - 1 : j # m => entry'[j] = entry[from(j)] /\ entry'[j].val # v
    BY <1>10, <1>11, <1>15
  <2>2. entry'[m].val = v
    BY <1>8, <1>5, <1>10
  <2>3. CASE a # m /\ b # m
    <3>1. from(a) = from(b)
      BY <1>11, <1>15, <1>16, <2>1, <2>3
    <3> QED BY <1>12, <2>3, <3>1
  <2> QED BY <1>16, <2>1, <2>2, <2>3
<1>17. \A s \in path : s \in 0 .. count' - 1
  BY <1>0, <1>8
<1>18. entry' \in [Slots -> [key : Int, val : Vals]]
  <2>1. ASSUME NEW s \in Slots PROVE entry'[s] \in [key : Int, val : Vals]
    <3>1. CASE s = m
      BY <1>3, <1>10, <3>1
    <3>2. CASE s # m
      <4>1. s \in path => Parent(s) \in Slots
        BY <1>1, <1>9, <1>8, <3>2
      <4>2. from(s) \in Slots
        BY <4>1 DEF from
      <4> QED BY <1>1, <1>10, <3>2, <4>2
    <3> QED BY <3>1, <3>2
  <2> QED BY <1>7, <2>1
<1>19. ASSUME NEW j \in 0 .. count' - 1 PROVE pos'[entry'[j].val] = j
  <2>1. entry'[j].val \in Vals
    BY <1>11, <1>18
  <2>2. CASE j \in path
    <3>1. \A s \in path : entry'[s].val = entry'[j].val => s = j
      BY <1>16, <1>17
    <3> DEFINE u == entry'[j].val
    <3>2. (CHOOSE s \in path : entry'[s].val = u) = j
      BY <2>2, <3>1
    <3>3. u \in Vals /\ \E s \in path : entry'[s].val = u
      BY <2>1, <2>2
    <3>4. pos'[u] = CHOOSE s \in path : entry'[s].val = u
      <4> HIDE DEF u
      <4> QED BY <1>7, <3>3 DEF Moved
    <3> QED BY <3>2, <3>4
  <2>3. CASE j \notin path
    <3>1. \A s \in path : entry'[s].val # entry'[j].val
      BY <1>16, <1>17, <2>3
    <3>2. pos'[entry'[j].val] = pos[entry'[j].val]
      BY <1>7, <2>1, <3>1, MovedNot
    <3>3. j # m /\ from(j) = j
      BY <1>5, <2>3 DEF from
    <3>4. entry'[j] = entry[j] /\ j \in 0 .. count - 1
      BY <1>10, <1>11, <3>3
    <3> QED BY <1>15, <3>2, <3>4
  <2> QED BY <2>2, <2>3
<1>20. ASSUME NEW u \in Vals, pos'[u] # MaxSize
       PROVE  \E j \in 0 .. count' - 1 : pos'[u] = j /\ entry'[j].val = u
  <2>1. CASE \E s \in path : entry'[s].val = u
    BY <1>17, <1>19, <2>1
  <2>2. CASE \A s \in path : entry'[s].val # u
    <3>1. pos'[u] = pos[u]
      BY <1>7, <2>2, MovedNot
    <3>2. PICK l \in 0 .. count - 1 : pos[u] = l /\ entry[l].val = u
      BY <1>1, <1>14, <1>15, <1>20, <3>1 DEF Places
    <3>3. l # i
      <4>1. entry'[m].val = v
        BY <1>8, <1>5, <1>10
      <4> QED BY <1>5, <1>15, <2>2, <3>2, <4>1
    <3>4. PICK j \in 0 .. count' - 1 : j # m /\ from(j) = l
      BY <1>13, <3>3
    <3>5. entry'[j] = entry[l]
      BY <1>10, <1>11, <3>4
    <3>6. pos'[u] = j
      BY <1>19, <3>2, <3>5
    <3> QED BY <3>2, <3>5, <3>6
  <2> QED BY <2>1, <2>2
<1>21. pos' \in [Vals -> 0 .. MaxSize]
  <2>1. pos' = [u \in Vals |-> pos'[u]]
    BY <1>7 DEF Moved
  <2>2. ASSUME NEW u \in Vals PROVE pos'[u] \in 0 .. MaxSize
    <3>1. CASE pos'[u] = MaxSize
      BY <1>1, <3>1
    <3>2. CASE pos'[u] # MaxSize
      <4>1. pos'[u] \in 0 .. count' - 1
        BY <1>20, <3>2
      <4> QED BY <1>0, <4>1
    <3> QED BY <3>1, <3>2
  <2> QED BY <2>1, <2>2
<1>22. \A j \in Slots : At(j)' = entry'[j] /\ Slot(j)' = j
  <2>1. \A j \in Slots : Slot(j)' = Slot(j)
    BY DEF Slot
  <2> QED BY <1>1, <2>1 DEF At
<1>23. Found'
  BY <1>11, <1>19, <1>22 DEF Found
<1>24. Kept'
  <2> SUFFICES ASSUME NEW u \in Vals, pos'[u] # MaxSize
               PROVE  \E j \in 0 .. count' - 1 : pos'[u] = Slot(j)' /\ At(j)'.val = u
    BY DEF Kept
  <2> QED BY <1>11, <1>20, <1>22
<1>25. Sorted'
  BY DEF Sorted
<1>26. PqTypes'
  BY <1>1, <1>2, <1>18, <1>21 DEF PqTypes, Slots, Vals, PqInv
<1>27. OthersStay(v)
  <2>1. ASSUME NEW j \in 0 .. count' - 1, At(j)'.val # v PROVE \E l \in 0 .. count - 1 : At(j)' = At(l)
    <3>1. j # m
      BY <1>10, <1>11, <1>22, <2>1
    <3>2. At(j)' = At(from(j)) /\ from(j) \in 0 .. count - 1
      <4>1. j \in Slots /\ from(j) \in 0 .. count - 1 /\ from(j) \in Slots
        BY <1>11, <3>1
      <4>2. At(j)' = entry'[j] /\ entry'[j] = entry[from(j)]
        BY <1>10, <1>22, <3>1, <4>1
      <4>3. At(from(j)) = entry[from(j)]
        BY <1>1, <4>1
      <4> QED BY <4>1, <4>2, <4>3
    <3> QED BY <3>2
  <2>2. ASSUME NEW l \in 0 .. count - 1, At(l).val # v PROVE \E j \in 0 .. count' - 1 : At(j)' = At(l)
    <3>1. l # i
      BY <1>2, <2>2
    <3>2. PICK j \in 0 .. count' - 1 : j # m /\ from(j) = l
      BY <1>13, <3>1
    <3>3. At(j)' = At(l)
      <4>1. j \in Slots /\ l \in Slots
        BY <1>11, <3>2
      <4>2. At(j)' = entry'[j] /\ entry'[j] = entry[l]
        BY <1>10, <1>22, <3>2, <4>1
      <4>3. At(l) = entry[l]
        BY <1>1, <4>1
      <4> QED BY <4>2, <4>3
    <3> QED BY <3>3
  <2> QED BY <2>1, <2>2 DEF OthersStay
<1>28. ASSUME NEW j \in 0 .. count' - 1
       PROVE  /\ j = m => entry'[j].key = key
              /\ j # m => entry'[j].key = K(from(j))
  BY <1>10, <1>11
<1>29. \A j \in Slots : K(j) \in Int
  BY <1>1
<1>30. ASSUME NEW s \in path, s < count PROVE entry'[s].key <= K(s)
  <2>1. CASE s = m
    <3>1. CASE s = i
      <4>1. key < K(s)
        <5>1. i < count /\ i \in Slots
          BY <1>2, <1>30, <3>1
        <5>2. At(i) = entry[i]
          BY <1>1, <5>1
        <5> QED BY <3>1, <5>1, <5>2
      <4>2. entry'[s].key = key
        BY <1>17, <1>28, <2>1
      <4>3. K(s) \in Int
        BY <1>8, <1>29
      <4> QED BY <4>1, <4>2, <4>3
    <3>2. CASE s # i
      <4>1. PICK c \in path : c # m /\ Parent(c) = s
        BY <1>5, <3>2
      <4>2. ~ (K(s) <= key)
        BY <1>5, <4>1
      <4>3. entry'[s].key = key /\ K(s) \in Int
        BY <1>8, <1>17, <1>28, <1>29, <2>1
      <4> QED BY <4>2, <4>3
    <3> QED BY <3>1, <3>2
  <2>2. CASE s # m
    <3>1. entry'[s].key = K(Parent(s))
      BY <1>17, <1>28, <2>2 DEF from
    <3>2. s \in 1 .. count - 1
      <4>1. s \in Nat \ {0}
        BY <1>9, <2>2
      <4> QED BY <1>0, <1>30, <4>1
    <3> QED BY <1>1, <3>1, <3>2
  <2> QED BY <2>1, <2>2
<1>31. Heaped'
  <2> SUFFICES ASSUME NEW c \in 1 .. count' - 1 PROVE entry'[Parent(c)].key <= entry'[c].key
    BY DEF Heaped, Parent
  <2> DEFINE p == Parent(c)
  <2>1. p \in 0 .. c - 1 /\ p \in 0 .. count' - 1 /\ c \in 0 .. count' - 1
    <3>1. c \in Nat \ {0}
      BY <1>0
    <3>2. p \in 0 .. c - 1
      BY <3>1, ParentIs
    <3> QED BY <1>0, <3>2
  <2>2. Parent(c) = p
    OBVIOUS
  <2> HIDE DEF p
  <2>3. CASE c = m
    <3>1. p \notin path
      <4>1. ~ (m <= p)
        BY <1>0, <2>1, <2>3
      <4> QED BY <1>5, <4>1
    <3>2. p # m /\ from(p) = p /\ m # 0
      <4>1. p # m /\ m # 0
        BY <1>0, <2>1, <2>3
      <4> QED BY <3>1, <4>1 DEF from
    <3>3. entry'[p].key = K(p) /\ entry'[c].key = key /\ K(p) <= key
      BY <1>5, <1>28, <2>1, <2>2, <2>3, <3>2
    <3> QED BY <2>2, <3>3
  <2>4. CASE c \in path /\ c # m
    <3>1. entry'[c].key = K(p) /\ p \in path /\ p < count
      <4>1. p \in path /\ p \in 0 .. count - 1
        BY <1>9, <2>2, <2>4
      <4>2. entry'[c].key = K(p)
        BY <1>28, <2>1, <2>2, <2>4 DEF from
      <4> QED BY <1>1, <4>1, <4>2
    <3> QED BY <1>30, <2>2, <3>1
  <2>5. CASE c \notin path
    <3>1. from(c) = c /\ c # m /\ c # i
      BY <1>5, <2>5 DEF from
    <3>2. entry'[c].key = K(c) /\ c \in 1 .. count - 1 /\ p < count
      <4>1. c \in 0 .. count - 1
        BY <1>11, <2>1, <3>1
      <4>2. c \in 1 .. count - 1 /\ p < count
        BY <1>0, <2>1, <4>1
      <4>3. entry'[c].key = K(c)
        BY <1>28, <2>1, <3>1
      <4> QED BY <4>2, <4>3
    <3>3. K(p) <= K(c)
      BY <1>1, <2>2, <3>2
    <3>4. entry'[p].key <= K(p)
      <4>1. CASE p \in path
        BY <1>30, <3>2, <4>1
      <4>2. CASE p \notin path
        <5>1. from(p) = p /\ p # m /\ p \in Slots
          BY <1>5, <1>11, <2>1, <4>2 DEF from
        <5> QED BY <1>28, <1>29, <2>1, <5>1
      <4> QED BY <4>1, <4>2
    <3>5. K(p) \in Int /\ K(c) \in Int /\ entry'[p].key \in Int
      BY <1>11, <1>18, <1>29, <2>1
    <3> QED BY <2>2, <3>2, <3>3, <3>4, <3>5
  <2> QED BY <2>3, <2>4, <2>5
<1>32. PqInv'
  BY <1>23, <1>24, <1>25, <1>26, <1>31 DEF PqInv
<1>33. m \in 0 .. count' - 1 /\ At(m)' = [key |-> key, val |-> v]
  BY <1>5, <1>10, <1>11, <1>17, <1>22
<1> QED BY <1>27, <1>32, <1>33, EntersFrom

LEMMA PopHeapKeeps ==
    ASSUME PQueueAssumption, PqInv, build = "PQ_HEAP", count > 0, PopFromHeap,
           count' = count - 1, UNCHANGED build
    PROVE  PqInv' /\ Departs(entry[0].val)
<1> DEFINE n == count - 1
           last == entry[n]
           path == Fall(n, last.key)
           m == Max(path)
           from(j) == IF j = m THEN n ELSE IF j \in path THEN Lighter(j, n, last.key) ELSE j
           K(j) == entry[j].key
           root == entry[0].val
<1>1. /\ MaxSize \in Nat \ {0} /\ Slots = 0 .. MaxSize - 1 /\ Vals = 0 .. MaxSize - 1
      /\ start = 0 /\ count \in 0 .. MaxSize
      /\ pos \in [Vals -> 0 .. MaxSize] /\ entry \in [Slots -> [key : Int, val : Vals]]
      /\ \A k \in Slots : Slot(k) = k /\ At(k) = entry[k]
      /\ \A c \in 1 .. count - 1 : K(Parent(c)) <= K(c)
  BY HeapSlots
<1>2. PqTypes
  BY DEF PqInv
<1>3. start' = 0 /\ count' = n
  BY <1>1 DEF PopFromHeap
<1>0. /\ MaxSize \in Nat /\ count \in Nat /\ n \in Nat /\ count = n + 1 /\ n < MaxSize
      /\ n \in 0 .. MaxSize /\ n \in Slots /\ count' \in Nat
      /\ \A j : j \in Slots <=> j \in 0 .. MaxSize - 1
  <2>1. MaxSize \in Nat /\ count \in 0 .. MaxSize /\ count > 0
    BY <1>1
  <2>2. n \in Nat /\ count = n + 1 /\ n < MaxSize /\ n \in 0 .. MaxSize /\ n \in 0 .. MaxSize - 1
    BY <2>1
  <2> QED BY <1>1, <1>3, <2>1, <2>2
<1> HIDE DEF n
<1>4. last \in [key : Int, val : Vals] /\ last.key \in Int /\ root \in Vals
  <2>1. 0 \in Slots
    BY <1>0
  <2> QED BY <1>0, <1>1, <2>1
<1>5. /\ entry' = [s \in Slots |->
             IF s = n THEN entry[0]
             ELSE IF s = m THEN last
             ELSE IF s \in path THEN entry[Lighter(s, n, last.key)]
             ELSE entry[s]]
      /\ pos' = [Moved(path \ {n}, entry') EXCEPT ![root] = MaxSize]
  BY Zenon DEF PopFromHeap, n
<1>6. Places
  BY PlacesAre
<1>7. \A l \in 0 .. n : pos[entry[l].val] = l /\ l \in Slots
  <2> SUFFICES ASSUME NEW l \in 0 .. n PROVE pos[entry[l].val] = l /\ l \in Slots
    OBVIOUS
  <2>1. l \in 0 .. count - 1 /\ l \in Slots
    BY <1>0
  <2>2. pos[At(l).val] = Slot(l)
    BY <1>6, <2>1 DEF Places
  <2> QED BY <1>1, <2>1, <2>2
\* The entries that stay are those of 1 .. n, and from(j) is where the one in
\* slot j comes from.
<1>8. /\ \A s \in path : s \in 0 .. n
      /\ path \ {n} = IF n = 0 THEN {} ELSE path
      /\ \A j \in 0 .. n - 1 : entry'[j] = entry[from(j)] /\ from(j) \in 1 .. n
      /\ \A a, b \in 0 .. n - 1 : from(a) = from(b) => a = b
      /\ \A l \in 1 .. n : \E j \in 0 .. n - 1 : from(j) = l
      /\ \A j \in 0 .. n - 1 : j \notin path => from(j) = j
      /\ \A c \in 1 .. n - 1 : K(from(Parent(c))) <= K(from(c))
  <2>1. CASE n = 0
    <3>1. FallsTo(0, n, last.key) = {}
      BY <2>1 DEF FallsTo
    <3>2. FallFrom(0, n, last.key) = {0}
      <4>1. 0 \in Slots
        BY <1>0
      <4> QED BY <1>0, <1>2, <1>4, <3>1, <4>1, FallUnfolds
    <3>3. path = {0}
      BY <3>2 DEF FallFrom, Fall
    <3> HIDE DEF path, from, last
    <3> QED BY <2>1, <3>3
  <2>2. CASE n # 0
    <3>1. n \in 1 .. MaxSize
      BY <1>0, <2>2
    <3>2. PICK x \in 0 .. n - 1 : FallsDown(path, x, 0, n, last.key)
      BY <1>2, <1>4, <3>1, FallFacts
    <3> DEFINE key == last.key
               next(s) == Lighter(s, n, key)
    <3>3. /\ path \in SUBSET (0 .. n - 1) /\ 0 \in path /\ x \in path
          /\ \A s \in path : s <= x
          /\ \A s \in path : s # x => FallsTo(s, n, key) # {} /\ next(s) \in path
          /\ FallsTo(x, n, key) = {}
          /\ \A s \in path : s # 0 => /\ Parent(s) \in path /\ Parent(s) # x
                                      /\ next(Parent(s)) = s
      BY <3>2 DEF FallsDown
    <3> HIDE DEF path, last
    <3>4. m = x
      <4>1. path # {} /\ path \in SUBSET (0 .. n)
        BY <1>0, <3>3
      <4>2. Max(path) \in path /\ \A k \in path : Max(path) >= k
        BY <1>0, <4>1, MaxOf
      <4>3. Max(path) \in 0 .. n - 1
        BY <3>3, <4>2
      <4> QED BY <3>3, <4>2, <4>3
    <3> HIDE DEF m
    <3>5. key \in Int /\ \A j \in Slots : K(j) \in Int
      BY <1>1, <1>4
    <3>6. \A s \in path : s \in 0 .. n - 1 /\ s \in Slots /\ s \in 0 .. n /\ s # n
      BY <1>0, <3>3
    <3>7. ASSUME NEW s \in path, s # m
          PROVE  /\ next(s) \in path /\ Parent(next(s)) = s /\ next(s) \in 1 .. n - 1
                 /\ K(next(s)) < key
                 /\ \A c \in 1 .. n - 1 : Parent(c) = s => K(next(s)) <= K(c)
      <4>1. FallsTo(s, n, key) # {} /\ next(s) \in path
        BY <3>3, <3>4, <3>7
      <4>2. /\ s < next(s) /\ Parent(next(s)) = s /\ K(next(s)) < key
            /\ \A c \in 1 .. n - 1 : Parent(c) = s => K(next(s)) <= K(c)
        BY <1>0, <1>2, <3>5, <3>6, <4>1, LighterIs
      <4>3. next(s) \in 1 .. n - 1
        <5>1. s \in 0 .. n - 1 /\ next(s) \in 0 .. n - 1
          BY <3>6, <4>1
        <5> QED BY <1>0, <4>2, <5>1
      <4> QED BY <4>1, <4>2, <4>3
    <3>8. \A c \in 1 .. n - 1 : Parent(c) = m => key <= K(c)
      BY <1>0, <1>2, <3>3, <3>4, <3>5, <3>6, LighterIs
    <3>9. ASSUME NEW j \in 0 .. n - 1
          PROVE  /\ j = m => from(j) = n
                 /\ j \in path /\ j # m => from(j) = next(j)
                 /\ j \notin path => from(j) = j /\ j # 0
                 /\ entry'[j] = entry[from(j)]
      <4>1. /\ j = m => from(j) = n
            /\ j \in path /\ j # m => from(j) = next(j)
            /\ j \notin path => from(j) = j /\ j # 0
        BY <3>3, <3>4
      <4>2. j \in Slots /\ j # n
        BY <1>0
      <4>3. entry'[j] = IF j = m THEN last ELSE IF j \in path THEN entry[next(j)] ELSE entry[j]
        BY <1>5, <4>2
      <4>4. last = entry[n]
        BY DEF last
      <4> HIDE DEF from, next, key
      <4> QED BY <3>3, <3>4, <4>1, <4>3, <4>4
    <3> HIDE DEF from, next, key
    <3>10. \A j \in 0 .. n - 1 : from(j) \in 1 .. n
      <4> SUFFICES ASSUME NEW j \in 0 .. n - 1 PROVE from(j) \in 1 .. n
        OBVIOUS
      <4>1. CASE j = m
        BY <1>0, <2>2, <3>9, <4>1
      <4>2. CASE j \in path /\ j # m
        <5>1. from(j) \in 1 .. n - 1
          BY <3>7, <3>9, <4>2
        <5> QED BY <1>0, <5>1
      <4>3. CASE j \notin path
        BY <1>0, <3>9, <4>3
      <4> QED BY <4>1, <4>2, <4>3
    <3>11. ASSUME NEW a \in 0 .. n - 1, NEW b \in 0 .. n - 1, from(a) = from(b) PROVE a = b
      <4>1. ASSUME NEW j \in 0 .. n - 1, j # m
            PROVE  /\ from(j) # n
                   /\ j \in path => from(j) \in path /\ Parent(from(j)) = j
                   /\ j \notin path => from(j) \notin path /\ from(j) = j
        BY <1>0, <3>6, <3>7, <3>9, <4>1
      <4>2. CASE a = m \/ b = m
        BY <3>9, <3>11, <4>1, <4>2
      <4>3. CASE a # m /\ b # m
        BY <3>11, <4>1, <4>3
      <4> QED BY <4>2, <4>3
    <3>12. ASSUME NEW l \in 1 .. n PROVE \E j \in 0 .. n - 1 : from(j) = l
      <4>1. CASE l = n
        BY <3>4, <3>9, <4>1
      <4>2. CASE l # n /\ l \in path
        <5>1. l # 0
          BY <1>0
        <5>2. Parent(l) \in path /\ Parent(l) # m /\ next(Parent(l)) = l
          BY <3>3, <3>4, <4>2, <5>1
        <5> QED BY <3>6, <3>9, <5>2
      <4>3. CASE l # n /\ l \notin path
        <5>1. l \in 0 .. n - 1
          BY <1>0, <4>3
        <5> QED BY <3>9, <4>3, <5>1
      <4> QED BY <4>1, <4>2, <4>3
    <3>13. ASSUME NEW c \in 1 .. n - 1 PROVE K(from(Parent(c))) <= K(from(c))
      <4> DEFINE p == Parent(c)
      <4>1. p \in 0 .. c - 1
        <5>1. c \in Nat \ {0}
          BY <1>0
        <5> QED BY <5>1, ParentIs
      <4>2. p \in 0 .. n - 1 /\ c \in 0 .. n - 1 /\ c \in 1 .. count - 1 /\ c # 0 /\ c \in Slots
        BY <1>0, <4>1
      <4>3. K(p) <= K(c)
        BY <1>1, <4>2
      <4>4. p = Parent(c)
        OBVIOUS
      <4> HIDE DEF p
      <4>5. K(n) = key
        BY DEF key, last
      <4>6. CASE p \in path /\ p # m
        <5>1. from(p) = next(p) /\ K(next(p)) <= K(c) /\ next(p) \in 1 .. n - 1
          BY <3>7, <3>9, <4>2, <4>4, <4>6
        <5>2. CASE c \notin path
          BY <3>9, <4>2, <4>4, <5>1, <5>2
        <5>3. CASE c \in path /\ c = m
          <6>1. next(p) = c
            BY <3>3, <4>2, <4>4, <5>3
          <6>2. K(c) < key /\ from(c) = n
            BY <3>7, <3>9, <4>2, <4>6, <5>3, <6>1
          <6>3. K(c) \in Int /\ key \in Int
            BY <3>5, <4>2
          <6> QED BY <4>4, <4>5, <5>1, <6>1, <6>2, <6>3
        <5>4. CASE c \in path /\ c # m
          <6>1. next(p) = c
            BY <3>3, <4>2, <4>4, <5>4
          <6>2. from(c) = next(c) /\ Parent(next(c)) = c /\ next(c) \in 1 .. n - 1
            BY <3>7, <3>9, <4>2, <5>4
          <6>3. next(c) \in 1 .. count - 1
            BY <1>0, <6>2
          <6>4. K(c) <= K(next(c))
            BY <1>1, <6>2, <6>3
          <6> QED BY <4>4, <5>1, <6>1, <6>2, <6>4
        <5> QED BY <5>2, <5>3, <5>4
      <4>7. CASE p = m
        <5>1. c \notin path
          BY <3>3, <3>4, <4>2, <4>4, <4>7
        <5>2. from(c) = c /\ from(p) = n /\ key <= K(c)
          BY <3>8, <3>9, <4>2, <4>4, <4>7, <5>1
        <5> QED BY <4>4, <4>5, <5>2
      <4>8. CASE p \notin path
        <5>1. c \notin path
          BY <3>3, <4>2, <4>4, <4>8
        <5>2. from(c) = c /\ from(p) = p
          BY <3>9, <4>2, <4>8, <5>1
        <5> QED BY <4>3, <4>4, <5>2
      <4> QED BY <4>6, <4>7, <4>8
    <3>14. path \ {n} = path
      BY <3>6
    <3> QED BY <2>2, <3>6, <3>9, <3>10, <3>11, <3>12, <3>13, <3>14
  <2> QED BY <2>1, <2>2
<1> HIDE DEF path, m, from, last, root
<1>9. \A l \in 1 .. n : l \in 0 .. n /\ l # 0 /\ entry[l].val # root /\ l \in Slots
  <2> SUFFICES ASSUME NEW l \in 1 .. n
               PROVE  l \in 0 .. n /\ l # 0 /\ entry[l].val # root /\ l \in Slots
    OBVIOUS
  <2>1. l \in 0 .. n /\ l # 0 /\ 0 \in 0 .. n
    BY <1>0
  <2> QED BY <1>7, <2>1 DEF root
<1>10. \A j \in 0 .. n - 1 : j \in Slots /\ entry'[j] = entry[from(j)] /\ from(j) \in Slots
                             /\ entry'[j].val \in Vals /\ entry'[j].val # root
  <2> SUFFICES ASSUME NEW j \in 0 .. n - 1
               PROVE  /\ j \in Slots /\ entry'[j] = entry[from(j)] /\ from(j) \in Slots
                      /\ entry'[j].val \in Vals /\ entry'[j].val # root
    OBVIOUS
  <2>1. j \in Slots
    BY <1>0
  <2>2. entry'[j] = entry[from(j)] /\ from(j) \in 1 .. n
    BY <1>8
  <2>3. entry[from(j)].val # root /\ from(j) \in Slots
    BY <1>9, <2>2
  <2>4. entry[from(j)].val \in Vals
    BY <1>1, <2>3
  <2> QED BY <2>1, <2>2, <2>3, <2>4
<1>11. ASSUME NEW a \in 0 .. n - 1, NEW b \in 0 .. n - 1, entry'[a].val = entry'[b].val
       PROVE  a = b
  <2>1. from(a) = from(b)
    BY <1>7, <1>8, <1>9, <1>10, <1>11
  <2> QED BY <1>8, <2>1
<1> DEFINE q == path \ {n}
<1>12. \A s \in q : s \in 0 .. n - 1 /\ s \in path
  BY <1>0, <1>8
<1>13. \A j \in 0 .. n - 1 : j \in path => j \in q
  BY <1>0
<1>14. /\ pos'[root] = MaxSize
       /\ \A u \in Vals : u # root =>
             pos'[u] = IF \E s \in q : entry'[s].val = u
                       THEN CHOOSE s \in q : entry'[s].val = u
                       ELSE pos[u]
  BY <1>4, <1>5 DEF Moved
<1> HIDE DEF q
<1>15. ASSUME NEW j \in 0 .. n - 1 PROVE pos'[entry'[j].val] = j
  <2> DEFINE u == entry'[j].val
  <2>1. u \in Vals /\ u # root
    BY <1>10
  <2>2. CASE j \in path
    <3>1. j \in q /\ \A s \in q : entry'[s].val = u => s = j
      BY <1>11, <1>12, <1>13, <2>2
    <3>2. (CHOOSE s \in q : entry'[s].val = u) = j
      BY <3>1
    <3>3. \E s \in q : entry'[s].val = u
      BY <3>1
    <3> HIDE DEF u
    <3>4. pos'[u] = j
      BY <1>14, <2>1, <3>2, <3>3
    <3> QED BY <3>4 DEF u
  <2>3. CASE j \notin path
    <3>1. \A s \in q : entry'[s].val # u
      BY <1>11, <1>12, <2>3
    <3>2. pos'[u] = pos[u]
      <4> HIDE DEF u
      <4> QED BY <1>14, <2>1, <3>1
    <3>3. entry'[j] = entry[j] /\ j \in 0 .. n
      BY <1>0, <1>8, <2>3
    <3> QED BY <1>7, <3>2, <3>3
  <2> QED BY <2>2, <2>3
<1>16. ASSUME NEW u \in Vals, pos'[u] # MaxSize
       PROVE  \E j \in 0 .. n - 1 : pos'[u] = j /\ entry'[j].val = u
  <2>0. u # root
    BY <1>14, <1>16
  <2>1. CASE \E s \in q : entry'[s].val = u
    BY <1>12, <1>15, <2>1
  <2>2. CASE ~ \E s \in q : entry'[s].val = u
    <3>1. pos[u] # MaxSize
      BY <1>14, <1>16, <2>0, <2>2
    <3>2. PICK l \in 0 .. count - 1 : pos[u] = Slot(l) /\ At(l).val = u
      BY <1>6, <3>1 DEF Places
    <3>3. entry[l].val = u
      BY <1>6, <1>1, <3>2 DEF Places
    <3>4. l # 0
      BY <2>0, <3>3 DEF root
    <3>5. l \in 1 .. n
      BY <1>0, <3>4
    <3>6. PICK j \in 0 .. n - 1 : from(j) = l
      BY <1>8, <3>5
    <3>7. entry'[j].val = u
      BY <1>8, <3>3, <3>6
    <3> QED BY <1>15, <3>7
  <2> QED BY <2>1, <2>2
<1>17. pos' \in [Vals -> 0 .. MaxSize]
  <2>1. pos' = [u \in Vals |-> pos'[u]]
    BY <1>5 DEF Moved
  <2>2. ASSUME NEW u \in Vals PROVE pos'[u] \in 0 .. MaxSize
    <3>1. CASE pos'[u] = MaxSize
      BY <1>0, <3>1
    <3>2. CASE pos'[u] # MaxSize
      <4>1. pos'[u] \in 0 .. n - 1
        BY <1>16, <3>2
      <4> QED BY <1>0, <4>1
    <3> QED BY <3>1, <3>2
  <2> QED BY <2>1, <2>2
<1>18. entry' \in [Slots -> [key : Int, val : Vals]]
  <2>1. ASSUME NEW s \in Slots PROVE entry'[s] \in [key : Int, val : Vals]
    <3>1. CASE s \in 0 .. n - 1
      BY <1>1, <1>10, <3>1
    <3>2. CASE s = n
      <4>1. 0 \in Slots
        BY <1>0
      <4>2. entry'[s] = entry[0]
        BY <1>5, <3>2
      <4> QED BY <1>1, <4>1, <4>2
    <3>3. CASE s \notin 0 .. n
      <4>1. s # n /\ s \notin path
        BY <1>0, <1>8, <3>3
      <4>2. entry'[s] = entry[s] \/ entry'[s] = last
        BY <1>5, <4>1
      <4> QED BY <1>1, <1>4, <4>2
    <3> QED BY <1>0, <3>1, <3>2, <3>3
  <2> QED BY <1>5, <2>1
<1>19. \A j \in Slots : At(j)' = entry'[j] /\ Slot(j)' = j
  <2>1. \A j \in Slots : Slot(j)' = Slot(j)
    BY <1>1, <1>3 DEF Slot
  <2> QED BY <1>1, <2>1 DEF At
<1>20. Found'
  BY <1>3, <1>10, <1>15, <1>19 DEF Found
<1>21. Kept'
  <2> SUFFICES ASSUME NEW u \in Vals, pos'[u] # MaxSize
               PROVE  \E j \in 0 .. count' - 1 : pos'[u] = Slot(j)' /\ At(j)'.val = u
    BY DEF Kept
  <2> QED BY <1>3, <1>10, <1>16, <1>19
<1>22. Sorted'
  BY DEF Sorted
<1>23. Heaped'
  <2> SUFFICES ASSUME NEW c \in 1 .. n - 1 PROVE entry'[Parent(c)].key <= entry'[c].key
    BY <1>3 DEF Heaped, Parent
  <2> DEFINE p == Parent(c)
  <2>1. p \in 0 .. n - 1 /\ c \in 0 .. n - 1
    <3>1. c \in Nat \ {0}
      BY <1>0
    <3>2. p \in 0 .. c - 1
      BY <3>1, ParentIs
    <3> QED BY <1>0, <3>2
  <2>2. K(from(p)) <= K(from(c))
    BY <1>8
  <2> HIDE DEF p
  <2>3. entry'[p].key <= entry'[c].key
    BY <1>8, <2>1, <2>2
  <2> QED BY <2>3 DEF p
<1>24. PqTypes'
  <2>1. count' \in 0 .. MaxSize /\ 0 \in Slots
    BY <1>0, <1>3
  <2> QED BY <1>2, <1>3, <1>17, <1>18, <2>1 DEF PqTypes, Slots, Vals
<1>25. PqInv'
  BY <1>20, <1>21, <1>22, <1>23, <1>24 DEF PqInv
<1>26. OthersStay(root)
  <2>1. ASSUME NEW j \in 0 .. count' - 1 PROVE \E l \in 0 .. count - 1 : At(j)' = At(l)
    <3>1. At(j)' = entry[from(j)] /\ from(j) \in 1 .. n /\ from(j) \in Slots
      BY <1>3, <1>8, <1>10, <1>19
    <3>2. from(j) \in 0 .. count - 1 /\ At(from(j)) = entry[from(j)]
      BY <1>0, <1>1, <3>1
    <3> QED BY <3>1, <3>2
  <2>2. ASSUME NEW l \in 0 .. count - 1, At(l).val # root
        PROVE  \E j \in 0 .. count' - 1 : At(j)' = At(l)
    <3>1. l \in Slots /\ At(l) = entry[l]
      BY <1>1, <1>6 DEF Places
    <3>2. l # 0
      BY <2>2, <3>1 DEF root
    <3>3. l \in 1 .. n
      BY <1>0, <3>2
    <3>4. PICK j \in 0 .. n - 1 : from(j) = l
      BY <1>8, <3>3
    <3>5. At(j)' = At(l)
      BY <1>10, <1>19, <3>1, <3>4
    <3> QED BY <1>3, <3>5
  <2> QED BY <2>1, <2>2 DEF OthersStay
<1>27. Departs(root)
  BY <1>14, <1>25, <1>26, OthersAreAsBefore DEF Departs
<1> QED BY <1>25, <1>27 DEF root

-----------------------------------------------------------------------------
(* The operations *)

LEMMA AddMoves ==
    ASSUME PQueueAssumption, PqInv, build = "PQ_RING",
           NEW v \in 0 .. MaxSize, NEW key \in Keys, Add(v, key)
    PROVE  \E p : MoveStep(p, count, v, key)
<1>1. MaxSize \in Nat \ {0} /\ count \in 0 .. MaxSize /\ key \in Int
  BY DEF PQueueAssumption, PqInv, PqTypes
<1>2. v \in Vals /\ pos[v] = MaxSize
  <2>1. v < MaxSize /\ pos[v] = MaxSize
    BY DEF Add
  <2> QED BY <1>1, <2>1 DEF Vals
<1>3. count < MaxSize
  BY <1>2, RoomForMore DEF PqInv
<1>4. ComesTo(count, v)
  BY <1>2, <1>3 DEF ComesTo
<1>5. MoveIn(count, v, key)
  BY DEF Add
<1>6. MovedIn(PlaceFor(count, key), count, v, key)
  BY <1>1, <1>4, <1>5, MoveInMoves
<1>7. /\ count' = count + 1 /\ UNCHANGED <<build, start>> /\ ~ (count < count)
      /\ count' = IF count = count THEN count + 1 ELSE count
  BY <1>1 DEF Add
<1>8. MoveStep(PlaceFor(count, key), count, v, key)
  BY <1>4, <1>6, <1>7 DEF MoveStep
<1> QED BY <1>8

LEMMA DecreaseKeyMoves ==
    ASSUME PQueueAssumption, PqInv, build = "PQ_RING",
           NEW v \in Vals, NEW key \in Keys, DecreaseKey(v, key)
    PROVE  \E k : ComesTo(k, v) /\ MoveIn(k, v, key) /\ \E p : MoveStep(p, k, v, key)
<1>1. MaxSize \in Nat \ {0} /\ start \in Slots /\ count \in 0 .. MaxSize /\ key \in Int
  BY DEF PQueueAssumption, PqInv, PqTypes
<1>2. /\ pos[v] # MaxSize /\ key < entry[pos[v]].key
      /\ count' = count /\ UNCHANGED <<build, start>>
  BY DEF DecreaseKey
<1>3. PICK k \in 0 .. count - 1 : pos[v] = Slot(k) /\ At(k).val = v
  BY <1>2 DEF PqInv, Kept
<1>4. k \in Slots /\ key < At(k).key /\ k # count
  BY <1>1, <1>2, <1>3, PlacesAre DEF Places
<1>5. ComesTo(k, v)
  BY <1>3 DEF ComesTo
<1>6. count' = IF k = count THEN count + 1 ELSE count
  BY <1>2, <1>4
<1>7. MoveIn(k, v, key)
  <2>1. (pos[v] + MaxSize - start) % MaxSize = k
    BY <1>1, <1>3, <1>4, SlotBehind
  <2> QED BY <2>1 DEF DecreaseKey
<1>8. MovedIn(PlaceFor(k, key), k, v, key)
  BY <1>1, <1>5, <1>7, MoveInMoves
<1>9. MoveStep(PlaceFor(k, key), k, v, key)
  BY <1>2, <1>4, <1>5, <1>6, <1>8 DEF MoveStep
<1> QED BY <1>5, <1>7, <1>9

LEMMA AddEnters ==
    ASSUME PQueueAssumption, PqInv, NEW v \in 0 .. MaxSize, NEW key \in Keys, Add(v, key)
    PROVE  v \in Vals /\ PqInv' /\ Enters(v, key)
<1>1. /\ MaxSize \in Nat \ {0} /\ count \in 0 .. MaxSize /\ key \in Int
      /\ build \in {"PQ_RING", "PQ_HEAP"}
  BY DEF PQueueAssumption, PqInv, PqTypes
<1>2. v \in Vals /\ pos[v] = MaxSize
  <2>1. v < MaxSize /\ pos[v] = MaxSize
    BY DEF Add
  <2> QED BY <1>1, <2>1 DEF Vals
<1>3. count < MaxSize
  BY <1>2, RoomForMore DEF PqInv
<1>4. ComesTo(count, v)
  BY <1>2, <1>3 DEF ComesTo
<1>5. /\ count' = count + 1 /\ UNCHANGED <<build, start>> /\ ~ (count < count)
      /\ count' = IF count = count THEN count + 1 ELSE count
  BY <1>1 DEF Add
<1>6. CASE build = "PQ_RING"
  <2>1. MoveIn(count, v, key)
    BY <1>6 DEF Add
  <2>3. PICK p : MoveStep(p, count, v, key)
    BY <1>6, AddMoves
  <2>4. Found' /\ Kept' /\ Sorted'
    BY <1>1, <1>6, <2>3, MoveKeeps
  <2>5. Heaped'
    BY <1>5, <1>6 DEF Heaped
  <2>6. PqTypes'
    <3>1. pos' \in [Vals -> 0 .. MaxSize] /\ entry' \in [Slots -> [key : Int, val : Vals]]
      BY <1>1, <1>4, <2>1, MoveInTypes
    <3>2. count' \in 0 .. MaxSize
      BY <1>1, <1>3, <1>5
    <3> QED BY <1>5, <3>1, <3>2 DEF PqTypes, PqInv, Slots, Vals
  <2>7. PqInv'
    BY <2>4, <2>5, <2>6 DEF PqInv
  <2> QED BY <1>1, <1>2, <2>3, <2>7, MoveEnters
<1>7. CASE build = "PQ_HEAP"
  <2>1. SiftUp(count, v, key)
    BY <1>7 DEF Add
  <2> QED BY <1>1, <1>2, <1>4, <1>5, <1>7, <2>1, SiftUpKeeps
<1> QED BY <1>1, <1>6, <1>7

LEMMA DecreaseKeyEnters ==
    ASSUME PQueueAssumption, PqInv, NEW v \in Vals, NEW key \in Keys, DecreaseKey(v, key)
    PROVE  PqInv' /\ Enters(v, key)
<1>1. /\ MaxSize \in Nat \ {0} /\ start \in Slots /\ count \in 0 .. MaxSize /\ key \in Int
      /\ build \in {"PQ_RING", "PQ_HEAP"} /\ (build = "PQ_HEAP" => start = 0)
  BY DEF PQueueAssumption, PqInv, PqTypes
<1>2. /\ pos[v] # MaxSize /\ key < entry[pos[v]].key
      /\ count' = count /\ UNCHANGED <<build, start>>
  BY DEF DecreaseKey
<1>3. PICK k \in 0 .. count - 1 : pos[v] = Slot(k) /\ At(k).val = v
  BY <1>2 DEF PqInv, Kept
<1>4. k \in Slots /\ key < At(k).key /\ k # count
  BY <1>1, <1>2, <1>3, PlacesAre DEF Places
<1>5. ComesTo(k, v)
  BY <1>3 DEF ComesTo
<1>6. count' = IF k = count THEN count + 1 ELSE count
  BY <1>2, <1>4
<1>7. CASE build = "PQ_RING"
  <2>1. PICK l : ComesTo(l, v) /\ MoveIn(l, v, key) /\ \E p : MoveStep(p, l, v, key)
    BY <1>7, DecreaseKeyMoves
  <2>3. PICK p : MoveStep(p, l, v, key)
    BY <2>1
  <2>4. Found' /\ Kept' /\ Sorted'
    BY <1>1, <1>7, <2>3, MoveKeeps
  <2>5. Heaped'
    BY <1>2, <1>7 DEF Heaped
  <2>6. PqTypes'
    <3>1. pos' \in [Vals -> 0 .. MaxSize] /\ entry' \in [Slots -> [key : Int, val : Vals]]
      BY <1>1, <2>1, MoveInTypes
    <3> QED BY <1>2, <3>1 DEF PqTypes, PqInv, Slots, Vals
  <2>7. PqInv'
    BY <2>4, <2>5, <2>6 DEF PqInv
  <2> QED BY <1>1, <2>3, <2>7, MoveEnters
<1>8. CASE build = "PQ_HEAP"
  <2>1. pos[v] = k
    BY <1>3, <1>4, <1>8, HeapSlots
  <2>2. SiftUp(k, v, key)
    BY <1>8, <2>1 DEF DecreaseKey
  <2> QED BY <1>1, <1>2, <1>4, <1>5, <1>6, <1>8, <2>2, SiftUpKeeps
<1> QED BY <1>1, <1>7, <1>8

LEMMA PopMinDeparts ==
    ASSUME PQueueAssumption, PqInv, PopMin
    PROVE  PqInv' /\ Departs(entry[start].val)
<1>1. count > 0 /\ count' = count - 1 /\ UNCHANGED build
  BY DEF PopMin
<1>2. CASE build = "PQ_RING"
  BY <1>1, <1>2, PopRingDeparts DEF PopMin
<1>3. CASE build = "PQ_HEAP"
  <2>1. PopFromHeap /\ start = 0
    BY <1>3 DEF PopMin, PqInv, PqTypes
  <2> QED BY <1>1, <1>3, <2>1, PopHeapKeeps
<1> QED BY <1>2, <1>3 DEF PqInv, PqTypes

LEMMA UnchangedKeeps ==
    PQueueAssumption /\ PqInv /\ UNCHANGED <<build, entry, pos, count, start>> => PqInv'
BY DEF PqInv, PqTypes, Found, Kept, Sorted, Heaped, At, Slot, Parent, Slots, Vals

LEMMA PqInvInit == ASSUME PQueueAssumption PROVE pqueue_init => PqInv
<1> SUFFICES ASSUME pqueue_init PROVE PqInv
  OBVIOUS
<1>1. MaxSize \in Nat \ {0} /\ count = 0 /\ start = 0 /\ build \in {"PQ_RING", "PQ_HEAP"}
  BY DEF PQueueAssumption, pqueue_init
<1>2. entry \in [Slots -> [key : Int, val : Vals]] /\ start \in Slots
  <2>1. 0 \in Vals /\ 0 \in Slots
    BY <1>1 DEF Vals, Slots
  <2>2. entry = [i \in Slots |-> [key |-> 0, val |-> 0]]
    BY DEF pqueue_init
  <2> QED BY <1>1, <2>1, <2>2
<1>3. pos \in [Vals -> 0 .. MaxSize] /\ \A v \in Vals : pos[v] = MaxSize
  BY <1>1 DEF pqueue_init
<1>4. PqTypes
  BY <1>1, <1>2, <1>3 DEF PqTypes
<1>5. Found /\ Kept /\ Sorted /\ Heaped
  BY <1>1, <1>3 DEF Found, Kept, Sorted, Heaped
<1> QED BY <1>4, <1>5 DEF PqInv

LEMMA PqInvNext == ASSUME PQueueAssumption PROVE PqInv /\ [PQueueNext]_pqueueVars => PqInv'
<1> SUFFICES ASSUME PqInv, [PQueueNext]_pqueueVars PROVE PqInv'
  OBVIOUS
<1>1. ASSUME NEW v \in 0 .. MaxSize, AddFails(v) PROVE PqInv'
  BY <1>1, UnchangedKeeps DEF AddFails, Refuse
<1>2. ASSUME NEW v \in 0 .. MaxSize, NEW key \in Keys, Add(v, key) PROVE PqInv'
  BY <1>2, AddEnters
<1>3. ASSUME NEW v \in Vals, NEW key \in Keys, DecreaseKeyFails(v, key) PROVE PqInv'
  BY <1>3, UnchangedKeeps DEF DecreaseKeyFails, Refuse
<1>4. ASSUME NEW v \in Vals, NEW key \in Keys, DecreaseKey(v, key) PROVE PqInv'
  BY <1>4, DecreaseKeyEnters
<1>5. CASE PopMin
  BY <1>5, PopMinDeparts
<1>6. CASE UNCHANGED pqueueVars
  BY <1>6, UnchangedKeeps DEF pqueueVars
<1> QED BY <1>1, <1>2, <1>3, <1>4, <1>5, <1>6 DEF PQueueNext

\* In every state, of the ring and of the heap, entries and positions agree and
\* the keys are in order.
THEOREM PqCorrect == ASSUME PQueueAssumption PROVE PQueueSpec => []PqInv
<1>1. pqueue_init => PqInv
  BY PqInvInit
<1>2. PqInv /\ [PQueueNext]_pqueueVars => PqInv'
  BY PqInvNext
<1> QED BY <1>1, <1>2, PTL DEF PQueueSpec

\* pos has the position of each value that is queued and of no other, and a value
\* that is not queued finds room, for any size of the queue and in both builds.
THEOREM PositionsAreExact == ASSUME PQueueAssumption PROVE PQueueSpec => []PositionsExact
<1>1. PqInv => PositionsExact
  <2> SUFFICES ASSUME PqInv PROVE PositionsExact
    OBVIOUS
  <2>1. Places
    BY PlacesAre
  <2>2. \A v \in Vals : pos[v] = MaxSize => count < MaxSize
    BY RoomForMore DEF PqInv
  <2>3. \A k \in 0 .. count - 1 : pos[entry[Slot(k)].val] = Slot(k)
    BY <2>1 DEF Places
  <2>4. \A v \in Vals : pos[v] # MaxSize =>
           entry[pos[v]].val = v /\ \E k \in 0 .. count - 1 : pos[v] = Slot(k)
    BY <2>1 DEF Places
  <2> QED BY <2>2, <2>3, <2>4 DEF PositionsExact
<1>2. PQueueSpec => []PqInv
  BY PqCorrect
<1> QED BY <1>1, <1>2, PTL

-----------------------------------------------------------------------------
(* The queue is the one that is promised. *)

QueueNow == [v \in Queued |-> entry[pos[v]].key]
FrontNow == IF count = 0 THEN -1 ELSE entry[start].val

\* In a heap the root has the least key.
LEMMA RootLeast ==
    ASSUME PQueueAssumption, PqInv, build = "PQ_HEAP", NEW j \in 0 .. count - 1
    PROVE  entry[0].key <= entry[j].key
<1> DEFINE S == {l \in 0 .. count - 1 : ~ (entry[0].key <= entry[l].key)}
<1>1. /\ MaxSize \in Nat \ {0} /\ Slots = 0 .. MaxSize - 1 /\ count \in 0 .. MaxSize
      /\ entry \in [Slots -> [key : Int, val : Vals]]
      /\ \A i \in 1 .. count - 1 : entry[Parent(i)].key <= entry[i].key
  BY HeapSlots
<1> SUFFICES ASSUME S # {} PROVE FALSE
  OBVIOUS
<1>2. PICK m \in S : \A l \in S : m <= l
  <2>1. S \in SUBSET (0 .. MaxSize)
    BY <1>1
  <2> HIDE DEF S
  <2> QED BY <1>1, <2>1, LeastOf
<1>3. \A l \in 0 .. count - 1 : l \in Slots /\ entry[l].key \in Int
  BY <1>1
<1>4. 0 \in 0 .. count - 1
  BY <1>1
<1>5. m \in 0 .. count - 1 /\ ~ (entry[0].key <= entry[m].key)
  BY <1>2
<1>6. m # 0
  BY <1>3, <1>4, <1>5
<1>7. m \in 1 .. count - 1 /\ m \in Nat \ {0}
  BY <1>5, <1>6
<1> DEFINE p == Parent(m)
<1>8. p \in 0 .. m - 1
  BY <1>7, ParentIs
<1>9. entry[p].key <= entry[m].key
  BY <1>1, <1>7
<1> HIDE DEF p
<1>10. p \in 0 .. count - 1 /\ ~ (m <= p)
  BY <1>1, <1>7, <1>8
<1>11. entry[0].key <= entry[p].key
  BY <1>2, <1>10
<1> QED BY <1>3, <1>4, <1>5, <1>9, <1>10, <1>11

LEMMA FrontIsLeast == ASSUME PQueueAssumption PROVE PqInv => FrontNow \in PQ!Least(QueueNow)
<1> SUFFICES ASSUME PqInv PROVE FrontNow \in PQ!Least(QueueNow)
  OBVIOUS
<1>1. Places
  BY PlacesAre
<1>2. MaxSize \in Nat \ {0} /\ count \in 0 .. MaxSize /\ start \in Slots /\ DOMAIN QueueNow = Queued
  BY DEF PqInv, PqTypes, PQueueAssumption, QueueNow
<1>3. CASE count = 0
  <2>1. \A u \in Vals : pos[u] = MaxSize
    BY <1>1, <1>3 DEF Places
  <2>2. Queued = {}
    BY <2>1 DEF Queued
  <2> QED BY <1>2, <1>3, <2>2 DEF FrontNow, PQ!Least, PQ!NoVal
<1>4. CASE count # 0
  <2>1. 0 \in 0 .. count - 1 /\ 0 \in Slots
    BY <1>2, <1>4 DEF Slots
  <2>2. Slot(0) = start
    BY <1>2, <2>1, SlotIs DEF Slots
  <2> DEFINE v == entry[start].val
  <2>3. v \in Queued /\ pos[v] = start /\ At(0) = entry[start]
    BY <1>1, <2>1, <2>2 DEF Places, Queued, At
  <2>4. ASSUME NEW u \in Queued PROVE entry[start].key <= entry[pos[u]].key
    <3>1. PICK l \in 0 .. count - 1 : entry[pos[u]] = At(l)
      BY <1>1 DEF Places, Queued
    <3>2. CASE build = "PQ_RING"
      <4>1. 0 <= l
        BY <1>2
      <4> QED BY <2>1, <2>3, <3>1, <3>2, <4>1 DEF PqInv, Sorted
    <3>3. CASE build = "PQ_HEAP"
      <4>1. At(l) = entry[l] /\ start = 0
        BY <1>1, <3>3, HeapSlots DEF Places
      <4> QED BY <3>1, <3>3, <4>1, RootLeast
    <3> QED BY <3>2, <3>3 DEF PqInv, PqTypes
  <2>5. FrontNow = v
    BY <1>4 DEF FrontNow
  <2>6. \A u \in Queued : QueueNow[u] = entry[pos[u]].key
    BY DEF QueueNow
  <2> HIDE DEF v
  <2>7. \A u \in Queued : QueueNow[v] <= QueueNow[u]
    BY <2>3, <2>4, <2>6
  <2>8. v \in {x \in Queued : \A u \in Queued : QueueNow[x] <= QueueNow[u]}
    BY <2>3, <2>7
  <2> QED BY <1>2, <2>3, <2>5, <2>8 DEF PQ!Least
<1> QED BY <1>3, <1>4

LEMMA QueueWith ==
    ASSUME NEW v \in Vals, NEW key, Enters(v, key)
    PROVE  QueueNow' = PQ!With(QueueNow, v, key)
<1>1. QueueNow' = [u \in Queued' |-> entry'[pos'[u]].key]
  BY DEF QueueNow
<1>2. DOMAIN QueueNow = Queued /\ \A u \in Queued : QueueNow[u] = entry[pos[u]].key
  BY DEF QueueNow
<1>3. Queued' = Queued \cup {v}
  <2>1. \A u \in Vals : pos'[u] # MaxSize <=> u = v \/ pos[u] # MaxSize
    BY DEF Enters
  <2> QED BY <2>1 DEF Queued, Vals
<1>4. \A u \in Queued \cup {v} : entry'[pos'[u]].key = IF u = v THEN key ELSE QueueNow[u]
  <2>1. \A u \in Vals : u # v /\ pos[u] # MaxSize => entry'[pos'[u]].key = entry[pos[u]].key
    BY DEF Enters
  <2>2. entry'[pos'[v]].key = key
    BY DEF Enters
  <2> QED BY <1>2, <2>1, <2>2 DEF Queued
<1> QED BY <1>1, <1>2, <1>3, <1>4 DEF PQ!With

LEMMA QueueWithout ==
    ASSUME NEW v \in Vals, Departs(v)
    PROVE  QueueNow' = PQ!Restrict(QueueNow, DOMAIN QueueNow \ {v})
<1>1. QueueNow' = [u \in Queued' |-> entry'[pos'[u]].key]
  BY DEF QueueNow
<1>2. DOMAIN QueueNow = Queued /\ \A u \in Queued : QueueNow[u] = entry[pos[u]].key
  BY DEF QueueNow
<1>3. Queued' = Queued \ {v}
  <2>1. \A u \in Vals : pos'[u] # MaxSize <=> u # v /\ pos[u] # MaxSize
    BY DEF Departs
  <2> QED BY <2>1 DEF Queued, Vals
<1>4. \A u \in Queued \ {v} : entry'[pos'[u]].key = QueueNow[u]
  <2>1. \A u \in Vals : u # v /\ pos[u] # MaxSize => entry'[pos'[u]].key = entry[pos[u]].key
    BY DEF Departs
  <2> QED BY <1>2, <2>1 DEF Queued
<1> QED BY <1>1, <1>2, <1>3, <1>4 DEF PQ!Restrict

\* Ring and heap are the priority queue that pqueue.h promises: each operation does
\* to the queued values what its specification says, refusals included, and a
\* value of least key is in front.
THEOREM QueueIsAsPromised == ASSUME PQueueAssumption PROVE PQueueSpec => ImplementsPriorityQueue
<1>0. /\ MaxSize \in Nat \ {0} /\ Keys # {} /\ Vals = 0 .. MaxSize - 1 /\ PQ!Vals = Vals
      /\ PQ!NoVal = -1
  BY DEF PQueueAssumption, Vals, PQ!Vals, PQ!NoVal
<1>1. pqueue_init => PQ!PqInit
  <2> SUFFICES ASSUME pqueue_init PROVE PQ!PqInit
    OBVIOUS
  <2>1. Queued = {}
    BY DEF pqueue_init, Queued
  <2>2. QueueNow = << >>
    BY <2>1 DEF QueueNow
  <2>3. count = 0 /\ answer = 0
    BY DEF pqueue_init
  <2> QED BY <1>0, <2>2, <2>3 DEF PQ!PqInit, QueueNow
<1>2. PqInv /\ PqInv' /\ [PQueueNext]_pqueueVars => [PQ!PqNext]_PQ!pqVars
  <2> SUFFICES ASSUME PqInv, PqInv', [PQueueNext]_pqueueVars
               PROVE  [PQ!PqNext]_<<QueueNow, FrontNow, answer>>
    BY DEF PQ!pqVars, QueueNow, FrontNow
  <2>1. DOMAIN QueueNow = Queued /\ \A u \in Queued : QueueNow[u] = entry[pos[u]].key
    BY DEF QueueNow
  <2>2. FrontNow' \in PQ!Least(QueueNow')
    <3>1. PqInv' => (FrontNow \in PQ!Least(QueueNow))'
      BY FrontIsLeast, PTL
    <3> QED BY <3>1
  <2>3. ASSUME UNCHANGED <<build, entry, pos, count, start>>
        PROVE  QueueNow' = QueueNow /\ FrontNow' = FrontNow
    BY <2>3 DEF QueueNow, FrontNow, Queued, Vals
  <2>4. ASSUME NEW v \in 0 .. MaxSize, AddFails(v) PROVE PQ!PqNext
    <3>1. PICK k \in Keys : TRUE
      BY <1>0
    <3>2. PQ!PqAdd(v, k)
      <4>1. CASE v >= MaxSize /\ Refuse(-1)
        <5>1. v \notin Vals
          BY <1>0, <4>1
        <5>2. PQ!Refused(-1)
          BY <2>3, <4>1 DEF PQ!Refused, Refuse, QueueNow, FrontNow
        <5> QED BY <1>0, <5>1, <5>2 DEF PQ!PqAdd
      <4>2. CASE v < MaxSize /\ pos[v] < MaxSize /\ Refuse(-2)
        <5>1. v \in Queued
          <6>1. v \in Vals
            BY <1>0, <4>2
          <6>2. pos[v] # MaxSize
            BY <1>0, <4>2
          <6> QED BY <6>1, <6>2 DEF Queued
        <5>2. PQ!Refused(-2)
          BY <2>3, <4>2 DEF PQ!Refused, Refuse, QueueNow, FrontNow
        <5> QED BY <2>1, <5>1, <5>2 DEF PQ!PqAdd, QueueNow
      <4> QED BY <2>4, <4>1, <4>2 DEF AddFails
    <3> QED BY <3>2 DEF PQ!PqNext
  <2>5. ASSUME NEW v \in 0 .. MaxSize, NEW key \in Keys, Add(v, key) PROVE PQ!PqNext
    <3>1. v \in Vals /\ Enters(v, key) /\ pos[v] = MaxSize /\ answer' = 0
      BY <2>5, AddEnters DEF Add
    <3>2. v \in Vals \ Queued
      BY <3>1 DEF Queued
    <3>3. QueueNow' = PQ!With(QueueNow, v, key)
      BY <3>1, QueueWith
    <3>4. PQ!Becomes(PQ!With(QueueNow, v, key))
      BY <2>2, <3>3 DEF PQ!Becomes, QueueNow, FrontNow
    <3>5. PQ!PqAdd(v, key)
      BY <1>0, <2>1, <3>1, <3>2, <3>4 DEF PQ!PqAdd, QueueNow
    <3> QED BY <3>5 DEF PQ!PqNext
  <2>6. ASSUME NEW v \in Vals, NEW key \in Keys, DecreaseKeyFails(v, key) PROVE PQ!PqNext
    <3>1. PQ!PqDecreaseKey(v, key)
      <4>1. CASE pos[v] = MaxSize /\ Refuse(-1)
        <5>1. v \notin Queued
          BY <4>1 DEF Queued
        <5>2. PQ!Refused(-1)
          BY <2>3, <4>1 DEF PQ!Refused, Refuse, QueueNow, FrontNow
        <5> QED BY <2>1, <5>1, <5>2 DEF PQ!PqDecreaseKey, QueueNow
      <4>2. CASE pos[v] # MaxSize /\ key >= entry[pos[v]].key /\ Refuse(-2)
        <5>1. v \in Queued
          BY <4>2 DEF Queued
        <5>2. PQ!Refused(-2)
          BY <2>3, <4>2 DEF PQ!Refused, Refuse, QueueNow, FrontNow
        <5> QED BY <2>1, <4>2, <5>1, <5>2 DEF PQ!PqDecreaseKey, QueueNow
      <4> QED BY <2>6, <4>1, <4>2 DEF DecreaseKeyFails
    <3> QED BY <1>0, <3>1 DEF PQ!PqNext
  <2>7. ASSUME NEW v \in Vals, NEW key \in Keys, DecreaseKey(v, key) PROVE PQ!PqNext
    <3>1. Enters(v, key) /\ pos[v] # MaxSize /\ key < entry[pos[v]].key /\ answer' = 0
      BY <2>7, DecreaseKeyEnters DEF DecreaseKey
    <3>2. v \in Queued
      BY <3>1 DEF Queued
    <3>3. QueueNow' = PQ!With(QueueNow, v, key)
      BY <3>1, QueueWith
    <3>4. PQ!Becomes(PQ!With(QueueNow, v, key))
      BY <2>2, <3>3 DEF PQ!Becomes, QueueNow, FrontNow
    <3>5. PQ!PqDecreaseKey(v, key)
      BY <2>1, <3>1, <3>2, <3>4 DEF PQ!PqDecreaseKey, QueueNow
    <3> QED BY <1>0, <3>5 DEF PQ!PqNext
  <2>8. CASE PopMin
    <3> DEFINE v == entry[start].val
    <3>1. Departs(v) /\ answer' = 0 /\ count # 0
      <4>1. count > 0 /\ answer' = 0
        BY <2>8 DEF PopMin
      <4> QED BY <2>8, <4>1, PopMinDeparts
    <3>2. v \in Vals /\ FrontNow = v /\ v # -1
      <4>1. v \in Vals
        BY DEF PqInv, PqTypes
      <4> QED BY <1>0, <3>1, <4>1 DEF FrontNow
    <3> HIDE DEF v
    <3>3. QueueNow' = PQ!Restrict(QueueNow, DOMAIN QueueNow \ {v})
      BY <3>1, <3>2, QueueWithout
    <3>4. PQ!Becomes(PQ!Restrict(QueueNow, DOMAIN QueueNow \ {FrontNow}))
      BY <2>2, <3>2, <3>3 DEF PQ!Becomes, QueueNow, FrontNow
    <3>5. FrontNow # PQ!NoVal
      BY <1>0, <3>2
    <3>6. PQ!PqPopMin
      BY <3>1, <3>4, <3>5, Zenon DEF PQ!PqPopMin, QueueNow, FrontNow
    <3> QED BY <3>6 DEF PQ!PqNext
  <2>9. CASE UNCHANGED pqueueVars
    BY <2>3, <2>9 DEF pqueueVars
  <2> QED BY <2>4, <2>5, <2>6, <2>7, <2>8, <2>9 DEF PQueueNext
<1>3. PQueueSpec => []PqInv
  BY PqCorrect
<1> QED BY <1>1, <1>2, <1>3, PTL DEF PQueueSpec, ImplementsPriorityQueue, PQ!PqSpec

-----------------------------------------------------------------------------
(* Equal keys leave the ring in the order in which they came. *)

\* u and v have the same key after the step, and v came to it after u.
CameBefore(u, v) ==
    /\ u \in Queued' /\ v \in Queued' /\ u # v
    /\ entry'[pos'[u]].key = entry'[pos'[v]].key
    /\ u \in Queued /\ entry[pos[u]].key = entry'[pos'[u]].key
    /\ \/ v \notin Queued
       \/ entry[pos[v]].key # entry[pos[u]].key
       \/ Behind(u) < Behind(v)

\* How far behind start the values that are queued lie
PlacesBehind ==
    \A u \in Queued : \E k \in 0 .. count - 1 :
        Behind(u) = k /\ At(k).val = u /\ entry[pos[u]] = At(k) /\ pos[u] = Slot(k)

LEMMA BehindIs == ASSUME PQueueAssumption PROVE PqInv => PlacesBehind
<1> SUFFICES ASSUME PqInv, NEW u \in Queued
             PROVE  \E k \in 0 .. count - 1 :
                       Behind(u) = k /\ At(k).val = u /\ entry[pos[u]] = At(k) /\ pos[u] = Slot(k)
  BY DEF PlacesBehind
<1>1. PICK k \in 0 .. count - 1 : pos[u] = Slot(k) /\ At(k).val = u /\ k \in Slots
  BY PlacesAre DEF Places, Queued
<1>2. Behind(u) = k
  BY <1>1, SlotBehind DEF Behind, PqInv, PqTypes
<1> QED BY <1>1, <1>2 DEF At

\* How a step that moves an entry in changes the places
LEMMA MoveInPlaces ==
    ASSUME PQueueAssumption, PqInv, PqInv', build = "PQ_RING",
           NEW p, NEW k, NEW w \in Vals, NEW key \in Int, MoveStep(p, k, w, key),
           NEW u, NEW v, CameBefore(u, v)
    PROVE  Behind(u)' < Behind(v)'
<1> DEFINE to(j) == IF j \in p .. k - 1 THEN j + 1 ELSE j
<1>1. /\ MaxSize \in Nat \ {0} /\ Slots = 0 .. MaxSize - 1 /\ start \in Slots
      /\ count \in 0 .. MaxSize /\ count' \in 0 .. MaxSize
      /\ k \in Slots /\ k \in 0 .. count /\ k < count' /\ p \in 0 .. k
      /\ count' = IF k = count THEN count + 1 ELSE count
      /\ \A j \in 0 .. count - 1 : (At(j).val = w) <=> (j = k)
      /\ \A j \in Slots : At(j)' = entry'[Slot(j)] /\ Slot(j)' = Slot(j)
  BY MoveStepFacts
<1>2. /\ pos'[w] = Slot(p)
      /\ \A j \in 0 .. count - 1 : At(j).val # w =>
            pos'[At(j).val] = IF j \in p .. k - 1 THEN Slot(j + 1) ELSE Slot(j)
      /\ \A i \in p .. k - 1 : At(i).key > key
      /\ k < count => key < At(k).key
      /\ UNCHANGED start
  BY DEF MoveStep, MovedIn
<1>3. \A j \in 0 .. count - 1 : At(j).key \in Int /\ j \in Slots
  BY PlacesAre DEF Places
<1>4. Enters(w, key)
  BY MoveEnters
<1>5. \A j \in 0 .. count - 1 : to(j) \in Slots /\ to(j) \in Int /\ p \in Int /\ p \in Slots
  BY <1>1
<1> HIDE DEF to
<1>6. ASSUME NEW x \in Queued, x # w
      PROVE  \E j \in 0 .. count - 1 : /\ Behind(x) = j /\ entry[pos[x]] = At(j) /\ j # k
                                       /\ Behind(x)' = to(j)
  <2>1. PICK j \in 0 .. count - 1 : Behind(x) = j /\ At(j).val = x /\ entry[pos[x]] = At(j)
    BY BehindIs DEF PlacesBehind
  <2>2. j # k
    BY <1>1, <1>6, <2>1
  <2>3. pos'[x] = Slot(to(j))
    BY <1>2, <1>6, <2>1 DEF to
  <2>4. (Slot(to(j)) + MaxSize - start) % MaxSize = to(j)
    BY <1>1, <1>5, SlotBehind
  <2>5. Behind(x)' = to(j)
    BY <1>2, <2>3, <2>4 DEF Behind
  <2> QED BY <2>1, <2>2, <2>5
<1>7. Behind(w)' = p
  <2>1. p \in Slots
    BY <1>1
  <2>2. (Slot(p) + MaxSize - start) % MaxSize = p
    BY <1>1, <2>1, SlotBehind
  <2> QED BY <1>2, <2>2 DEF Behind
<1>8. u # w
  <2> SUFFICES ASSUME u = w PROVE FALSE
    OBVIOUS
  <2>1. w \in Queued /\ entry[pos[w]].key = key
    BY <1>4 DEF CameBefore, Enters
  <2>2. PICK j \in 0 .. count - 1 : At(j).val = w /\ entry[pos[w]] = At(j)
    BY <2>1, BehindIs DEF PlacesBehind
  <2>3. j = k /\ j < count
    BY <1>1, <2>2
  <2> QED BY <1>2, <1>3, <2>1, <2>2, <2>3
<1>9. PICK j \in 0 .. count - 1 : /\ Behind(u) = j /\ entry[pos[u]] = At(j) /\ j # k
                                  /\ Behind(u)' = to(j)
  BY <1>6, <1>8 DEF CameBefore
<1>10. CASE v = w
  <2>1. At(j).key = key
    BY <1>4, <1>9, <1>10 DEF CameBefore, Enters
  <2>2. j \notin p .. k - 1
    BY <1>2, <1>3, <2>1
  <2>3. ~ (k < j)
    <3> SUFFICES ASSUME k < j PROVE FALSE
      OBVIOUS
    <3>1. k \in 0 .. count - 1 /\ k <= j /\ k < count
      BY <1>1
    <3>2. At(k).key <= At(j).key
      BY <3>1 DEF PqInv, Sorted
    <3> QED BY <1>2, <1>3, <2>1, <3>1, <3>2
  <2>4. j < p /\ to(j) = j
    <3>1. p \in Int /\ k \in Int /\ j \in Int
      BY <1>1
    <3> QED BY <1>9, <2>2, <2>3, <3>1 DEF to
  <2> QED BY <1>7, <1>9, <1>10, <2>4
<1>11. CASE v # w
  <2>1. v \in Queued /\ entry'[pos'[v]].key = entry[pos[v]].key
    BY <1>4, <1>11 DEF CameBefore, Enters, Queued, Vals
  <2>2. Behind(u) < Behind(v)
    BY <2>1 DEF CameBefore
  <2>3. PICK l \in 0 .. count - 1 : Behind(v) = l /\ l # k /\ Behind(v)' = to(l)
    BY <1>6, <1>11, <2>1
  <2>4. to(j) < to(l)
    <3>1. p \in Int /\ k \in Int /\ j \in Int /\ l \in Int /\ j < l /\ p <= k
      BY <1>1, <1>9, <2>2, <2>3
    <3> QED BY <1>9, <2>3, <3>1 DEF to
  <2> QED BY <1>9, <2>3, <2>4
<1> QED BY <1>10, <1>11

LEMMA PopPlaces ==
    ASSUME PQueueAssumption, PqInv, PqInv', build = "PQ_RING", PopMin,
           NEW u, NEW v, CameBefore(u, v)
    PROVE  Behind(u)' < Behind(v)'
<1>1. /\ \A j \in 0 .. count' - 1 : At(j)' = At(j + 1) /\ Slot(j)' = Slot(j + 1)
      /\ pos' = [pos EXCEPT ![At(0).val] = MaxSize]
      /\ count' = count - 1 /\ count > 0
  BY PopRingKeeps DEF PopMin
<1>2. /\ count \in Nat /\ count' \in Nat /\ pos \in [Vals -> 0 .. MaxSize]
      /\ \A j \in 0 .. count - 1 : pos[At(j).val] = Slot(j) /\ j \in Slots
      /\ start \in Slots
  <2>1. count \in Nat /\ count' \in Nat /\ pos \in [Vals -> 0 .. MaxSize] /\ start \in Slots
    BY DEF PqInv, PqTypes, PQueueAssumption
  <2> QED BY <2>1, PlacesAre DEF Places
<1>3. ASSUME NEW x \in Queued'
      PROVE  x \in Queued /\ pos'[x] = pos[x] /\ \E j \in Int : Behind(x)' = j /\ Behind(x) = j + 1
  <2>1. PlacesBehind'
    <3>1. PqInv' => PlacesBehind'
      BY BehindIs, PTL
    <3> QED BY <3>1
  <2>2. PICK j \in 0 .. count' - 1 : Behind(x)' = j /\ At(j)'.val = x /\ pos'[x] = Slot(j)'
    BY <2>1 DEF PlacesBehind
  <2>3. x \in Vals /\ pos'[x] # MaxSize
    BY DEF Queued, Vals
  <2>4. x # At(0).val /\ pos'[x] = pos[x]
    BY <1>1, <1>2, <2>3
  <2>5. x \in Queued
    BY <2>3, <2>4 DEF Queued
  <2>6. PICK l \in 0 .. count - 1 : Behind(x) = l /\ pos[x] = Slot(l)
    BY <2>5, BehindIs DEF PlacesBehind
  <2>7. j + 1 \in 0 .. count - 1 /\ Slot(j + 1) = Slot(l)
    <3>1. j + 1 \in 0 .. count - 1
      BY <1>1, <1>2
    <3> QED BY <1>1, <2>2, <2>4, <2>6, <3>1
  <2>8. j + 1 = l
    BY <1>2, <2>6, <2>7, SlotsApart
  <2>9. j \in Int
    BY <1>2
  <2> QED BY <2>2, <2>4, <2>5, <2>6, <2>8, <2>9
<1>4. /\ u \in Queued /\ pos'[u] = pos[u] /\ v \in Queued /\ pos'[v] = pos[v]
      /\ \E i \in Int : Behind(u)' = i /\ Behind(u) = i + 1
      /\ \E i \in Int : Behind(v)' = i /\ Behind(v) = i + 1
  BY <1>3 DEF CameBefore
<1>5. entry' = entry
  BY DEF PopMin, PopFromRing
<1>6. Behind(u) < Behind(v)
  BY <1>4, <1>5 DEF CameBefore
<1> QED BY <1>4, <1>6

\* In the ring, values that have equal keys leave in the order in which they came
\* to have them.
THEOREM EqualKeysKeepOrder == ASSUME PQueueAssumption PROVE PQueueSpec => OldestFirst
<1> DEFINE InOrder == build = "PQ_RING" => \A u, v \in Queued' : CameBefore(u, v) => Behind(u)' < Behind(v)'
<1>1. PqInv /\ PqInv' /\ [PQueueNext]_pqueueVars => [InOrder]_pqueueVars
  <2> SUFFICES ASSUME PqInv, PqInv', PQueueNext, build = "PQ_RING", NEW u, NEW v, CameBefore(u, v)
               PROVE  Behind(u)' < Behind(v)'
    OBVIOUS
  <2>1. ASSUME UNCHANGED <<build, entry, pos, count, start>> PROVE Behind(u)' < Behind(v)'
    <3>1. Queued' = Queued /\ Behind(u)' = Behind(u) /\ Behind(v)' = Behind(v)
      BY <2>1 DEF Queued, Vals, Behind
    <3> QED BY <2>1, <3>1 DEF CameBefore
  <2>2. ASSUME NEW w \in 0 .. MaxSize, AddFails(w) PROVE Behind(u)' < Behind(v)'
    BY <2>1, <2>2 DEF AddFails, Refuse
  <2>3. ASSUME NEW w \in 0 .. MaxSize, NEW key \in Keys, Add(w, key) PROVE Behind(u)' < Behind(v)'
    <3>1. w \in Vals /\ key \in Int
      BY <2>3, AddEnters DEF PQueueAssumption
    <3>2. PICK p, k : MoveStep(p, k, w, key)
      BY <2>3, AddMoves
    <3> QED BY <3>1, <3>2, MoveInPlaces
  <2>4. ASSUME NEW w \in Vals, NEW key \in Keys, DecreaseKeyFails(w, key) PROVE Behind(u)' < Behind(v)'
    BY <2>1, <2>4 DEF DecreaseKeyFails, Refuse
  <2>5. ASSUME NEW w \in Vals, NEW key \in Keys, DecreaseKey(w, key) PROVE Behind(u)' < Behind(v)'
    <3>1. key \in Int
      BY DEF PQueueAssumption
    <3>2. PICK p, k : MoveStep(p, k, w, key)
      BY <2>5, DecreaseKeyMoves
    <3> QED BY <3>1, <3>2, MoveInPlaces
  <2>6. CASE PopMin
    BY <2>6, PopPlaces
  <2> QED BY <2>2, <2>3, <2>4, <2>5, <2>6 DEF PQueueNext
<1>2. PQueueSpec => []PqInv
  BY PqCorrect
<1>3. [InOrder]_pqueueVars => [build = "PQ_RING" =>
       \A u, v \in Queued' :
          /\ u # v
          /\ entry'[pos'[u]].key = entry'[pos'[v]].key
          /\ u \in Queued /\ entry[pos[u]].key = entry'[pos'[u]].key
          /\ \/ v \notin Queued
             \/ entry[pos[v]].key # entry[pos[u]].key
             \/ Behind(u) < Behind(v)
          => Behind(u)' < Behind(v)']_pqueueVars
  BY Zenon DEF CameBefore
<1> HIDE DEF InOrder
<1> QED BY <1>1, <1>2, <1>3, PTL DEF PQueueSpec, OldestFirst

-----------------------------------------------------------------------------
(* The context switch *)

AnyMode  == Modes \cup {"sys"}
RegNames == Common \cup {"sp", "lr"}
Cells    == {<<r, "all">> : r \in Common} \cup ({"sp", "lr"} \X Modes)
Address  == 0 .. StackTop(Tasks)
Views    == [regs : [1 .. 7 -> Int], flags : {0, 1}, pc : Int, words : [1 .. Room -> Int]]

SwitchTypes ==
    /\ reg \in [Cells -> Int]
    /\ cpsr \in [mode : AnyMode, flags : {0, 1}]
    /\ spsr \in [Modes -> Int]
    /\ memory \in [Address -> Int]
    /\ routine \in {"user", "kernel", "ctx_switch"} \cup DOMAIN INTR
    /\ pc \in Int
    /\ running \in Task
    /\ left \in [Task -> [kind : {0, 1, 2, 6}, view : Views]]
    /\ steps \in Nat

\* A frame at address a is what a task was when it was left.
Framed(t, a) ==
    LET view == left[t].view IN
    /\ a \in StackTop(t) - Room - 9 .. StackTop(t) - 9
    /\ memory[a] = UsrPsr(view.flags)
    /\ memory[a + 1] = view.pc
    /\ \A i \in 1 .. 7 : memory[a + 1 + i] = view.regs[i]
    /\ view.regs[6] = a + 9
    /\ view.words = Words(t, a + 9)

\* A task that does not run is saved where its descriptor says.
Saved(t) == Framed(t, memory[TdAddr(t)])

OthersSaved == \A t \in Task \ {running} : Saved(t)

\* What ctx_switch pushed, and where sp then is
KernelFrame ==
    /\ memory[0] = TdAddr(running) /\ memory[1] = 70 /\ memory[2] = KernelCode
    /\ reg[Phys("sp", "svc")] = 0

\* The registers of the task that is left or resumed, and its stack
UserIs(view) == \A i \in 1 .. 7 : reg[Phys(UserRegs[i], "usr")] = view.regs[i]
StackIs(view) ==
    /\ view.regs[6] \in StackTop(running) - Room .. StackTop(running)
    /\ view.words = Words(running, view.regs[6])

InUser ==
    routine = "user" =>
        /\ cpsr.mode = "usr" /\ KernelFrame /\ OthersSaved
        /\ reg[Phys("sp", "usr")] \in StackTop(running) - Room .. StackTop(running)

InKernel ==
    routine = "kernel" =>
        /\ cpsr.mode = "svc" /\ reg[Phys("sp", "svc")] = KernelTop
        /\ pc = KernelCode /\ \A t \in Task : Saved(t)

\* ctx_switch goes on with instruction k, for a task whose frame is at a.
SwitchAt(k, a) ==
    /\ k = 1 => /\ reg[Phys("r0", "svc")] = TdAddr(running)
                /\ reg[Phys("r4", "svc")] = 70
                /\ reg[Phys("lr", "svc")] = KernelCode
                /\ reg[Phys("sp", "svc")] = KernelTop
    /\ k > 1 => KernelFrame
    /\ k = 2 => reg[Phys("r0", "svc")] = TdAddr(running)
    /\ k = 3 => reg[Phys("r12", "svc")] = a
    /\ k = 4 => reg[Phys("r3", "svc")] = memory[a]
    /\ k >= 4 => reg[Phys("lr", "svc")] = memory[a + 1]
    /\ k \in 4 .. 5 => reg[Phys("r12", "svc")] = a + 2
    /\ k >= 5 => spsr["svc"] = memory[a]
    /\ k = 6 => UserIs(left[running].view)

InSwitch ==
    routine = "ctx_switch" =>
        /\ cpsr.mode = "svc" /\ \A t \in Task : Saved(t)
        /\ \E k \in 1 .. 6, a \in Int :
              pc = k /\ memory[TdAddr(running)] = a /\ SwitchAt(k, a)

\* An entry: the mode it is entered in, and how many instructions of SaveTask
\* it has done, -1 before lr is put right
EntryMode(r) == CASE r = "kern_entry_swi" -> "svc" [] r = "kern_entry_irq" -> "irq"
                  [] r = "kern_entry_undef" -> "und"
First(r) == IF r = "kern_entry_swi" THEN 1 ELSE 2
Done == pc - First(routine)

\* Entry r has done d instructions of its SaveTask, for a task that was left as view.
EntryAt(d, r, view) ==
    LET m  == EntryMode(r)
        sp == view.regs[6] IN
    /\ cpsr.mode = IF d \in 1 .. 3 THEN "sys" ELSE IF d <= 6 THEN m ELSE "svc"
    /\ reg[Phys("sp", "usr")] = sp
    /\ d <= 7 => KernelFrame
    /\ d >= 8 => /\ reg[Phys("sp", "svc")] = 1
                 /\ memory[1] = 70 /\ memory[2] = KernelCode
    /\ d <= 1 => UserIs(view)
    /\ d <= 4 => spsr[m] = UsrPsr(view.flags)
    /\ d = -1 => reg[Phys("lr", m)] = view.pc + 1
    /\ d \in 0 .. 5 => reg[Phys("lr", m)] = view.pc
    /\ d \in 2 .. 8 => \A i \in 1 .. 7 : memory[sp - 8 + i] = view.regs[i]
    /\ d \in 3 .. 5 => reg[Phys("r12", "usr")] = sp - 7
    /\ d = 5 => reg[Phys("r3", "usr")] = UsrPsr(view.flags)
    /\ d \in 6 .. 8 => /\ reg[Phys("r12", "usr")] = sp - 9
                       /\ memory[sp - 9] = UsrPsr(view.flags)
                       /\ memory[sp - 8] = view.pc
    /\ d = 8 => reg[Phys("r0", "usr")] = TdAddr(running)
    /\ d >= 9 => Saved(running)
    /\ d = 10 => reg[Phys("r0", "usr")] = INTR[r]

InEntry ==
    routine \in DOMAIN INTR =>
        /\ OthersSaved
        /\ \E d \in -1 .. 10, r \in DOMAIN INTR, view \in Views :
              /\ Done = d /\ routine = r /\ left[running].view = view
              /\ r = "kern_entry_swi" => d >= 0
              /\ StackIs(view) /\ EntryAt(d, r, view)

SwitchInv == SwitchTypes /\ InUser /\ InKernel /\ InSwitch /\ InEntry

\* UserRegs by place, and the size of a frame
LEMMA FrameFacts ==
    /\ FrameWords = 9 /\ Len(UserRegs) = 7 /\ DOMAIN UserRegs = 1 .. 7
    /\ UserRegs[1] = "r0" /\ UserRegs[2] = "r1" /\ UserRegs[3] = "r3" /\ UserRegs[4] = "r4"
    /\ UserRegs[5] = "r12" /\ UserRegs[6] = "sp" /\ UserRegs[7] = "lr"
    /\ \A i \in 1 .. 7 : UserRegs[i] \in RegNames
    /\ \A i, j \in 1 .. 7 : UserRegs[i] = UserRegs[j] => i = j
<1>1. Len(UserRegs) = 7 /\ DOMAIN UserRegs = 1 .. 7
  BY DEF UserRegs
<1>2. /\ UserRegs[1] = "r0" /\ UserRegs[2] = "r1" /\ UserRegs[3] = "r3" /\ UserRegs[4] = "r4"
      /\ UserRegs[5] = "r12" /\ UserRegs[6] = "sp" /\ UserRegs[7] = "lr"
  BY DEF UserRegs
<1>3. \A i \in 1 .. 7 : i = 1 \/ i = 2 \/ i = 3 \/ i = 4 \/ i = 5 \/ i = 6 \/ i = 7
  OBVIOUS
<1>4. \A i \in 1 .. 7 : UserRegs[i] \in RegNames
  BY <1>2, <1>3 DEF RegNames, Common
<1>5. \A i, j \in 1 .. 7 : UserRegs[i] = UserRegs[j] => i = j
  BY <1>2, <1>3
<1> QED BY <1>1, <1>2, <1>4, <1>5 DEF FrameWords

Bank(m) == IF m = "sys" THEN "usr" ELSE m

\* Which names are one register
LEMMA PhysFacts ==
    /\ \A r \in RegNames, m \in AnyMode : Phys(r, m) \in Cells
    /\ \A r, s \in RegNames, m, n \in AnyMode :
          Phys(r, m) = Phys(s, n) <=> r = s /\ (r \in Common \/ Bank(m) = Bank(n))
<1>1. \A m \in AnyMode : Bank(m) \in Modes
  BY DEF AnyMode, Modes, Bank
<1>2. \A r \in RegNames, m \in AnyMode :
          Phys(r, m) = IF r \in Common THEN <<r, "all">> ELSE <<r, Bank(m)>>
  BY DEF Phys, Bank
<1>3. \A r \in RegNames : r \in Common \/ r \in {"sp", "lr"}
  BY DEF RegNames
<1>4. \A r, s, x, y : <<r, x>> = <<s, y>> <=> r = s /\ x = y
  OBVIOUS
<1>5. "all" \notin Modes
  BY DEF Modes
<1>6. \A r \in RegNames, m \in AnyMode : Phys(r, m) \in Cells
  BY <1>1, <1>2, <1>3 DEF Cells
<1>7. ASSUME NEW r \in RegNames, NEW s \in RegNames, NEW m \in AnyMode, NEW n \in AnyMode
      PROVE  Phys(r, m) = Phys(s, n) <=> r = s /\ (r \in Common \/ Bank(m) = Bank(n))
  <2>1. Bank(m) # "all" /\ Bank(n) # "all"
    BY <1>1, <1>5
  <2>2. CASE r \in Common /\ s \in Common
    BY <1>2, <1>4, <2>2
  <2>3. CASE r \in Common /\ s \notin Common
    BY <1>2, <1>4, <2>1, <2>3
  <2>4. CASE r \notin Common /\ s \in Common
    BY <1>2, <1>4, <2>1, <2>4
  <2>5. CASE r \notin Common /\ s \notin Common
    BY <1>2, <1>4, <2>5
  <2> QED BY <2>2, <2>3, <2>4, <2>5
<1> QED BY <1>6, <1>7

\* Stacks lie apart, above the descriptors.
LEMMA StackFacts ==
    ASSUME ContextSwitchAssumption
    PROVE  /\ Tasks \in Nat \ {0} /\ Room \in Nat /\ StackTop(Tasks) \in Int
           /\ \A t \in Task : /\ StackTop(t) \in Int /\ TdAddr(t) \in 3 .. 2 + Tasks
                              /\ StackTop(t) - Room - 9 >= 3 + Tasks
                              /\ StackTop(t) <= StackTop(Tasks)
           /\ \A t, u \in Task : TdAddr(t) = TdAddr(u) => t = u
           /\ \A t, u \in Task : t # u => \/ StackTop(t) <= StackTop(u) - Room - 9
                                          \/ StackTop(u) <= StackTop(t) - Room - 9
<1> DEFINE W == 9 + Room
<1>1. Tasks \in Nat \ {0} /\ Room \in Nat /\ W \in Nat \ {0}
  BY DEF ContextSwitchAssumption
<1>2. \A t : StackTop(t) = 3 + Tasks + t * W
  BY FrameFacts DEF StackTop, KernelTop
<1>3. \A t, u \in Nat : t * W \in Nat /\ (t < u => t * W <= u * W - W)
  <2>1. ASSUME NEW t \in Nat, NEW u \in Nat, t < u PROVE t * W <= u * W - W
    <3>1. u - t \in Nat \ {0}
      BY <2>1
    <3>2. (u - t) * W >= W
      BY <1>1, <3>1
    <3>3. (u - t) * W = u * W - t * W
      BY <1>1
    <3>4. t * W \in Nat /\ u * W \in Nat
      BY <1>1
    <3> QED BY <1>1, <3>2, <3>3, <3>4
  <2>2. \A t \in Nat : t * W \in Nat
    BY <1>1
  <2> QED BY <2>1, <2>2
<1> HIDE DEF W
<1>4. Task \subseteq Nat /\ \A t \in Task : t >= 1 /\ t <= Tasks
  BY <1>1 DEF Task
<1>5. \A t \in Task : t * W >= W
  <2> SUFFICES ASSUME NEW t \in Task PROVE t * W >= W
    OBVIOUS
  <2>1. 0 * W = 0
    BY <1>1
  <2>2. 0 * W <= t * W - W
    BY <1>3, <1>4
  <2>3. t * W \in Nat
    BY <1>3, <1>4
  <2> QED BY <1>1, <2>1, <2>2, <2>3
<1>6. \A t \in Task : t * W <= Tasks * W
  BY <1>1, <1>3, <1>4
<1>7. \A t \in Task : StackTop(t) \in Int
  BY <1>1, <1>2, <1>3, <1>4
<1>8. W = 9 + Room
  BY DEF W
<1>9. \A t \in Task : StackTop(t) - Room - 9 >= 3 + Tasks /\ StackTop(t) <= StackTop(Tasks)
  BY <1>1, <1>2, <1>3, <1>4, <1>5, <1>6, <1>8
<1>10. \A t \in Task : TdAddr(t) \in 3 .. 2 + Tasks
  BY <1>1, <1>4 DEF TdAddr, KernelTop
<1>11. \A t, u \in Task : TdAddr(t) = TdAddr(u) => t = u
  BY <1>4 DEF TdAddr, KernelTop
<1>12. \A t, u \in Task : t < u => StackTop(t) <= StackTop(u) - Room - 9
  BY <1>1, <1>2, <1>3, <1>4, <1>8
<1>13. \A t, u \in Task : t # u => t < u \/ u < t
  BY <1>4
<1>14. StackTop(Tasks) \in Int
  BY <1>1, <1>7 DEF Task
<1> QED BY <1>1, <1>7, <1>9, <1>10, <1>11, <1>12, <1>13, <1>14

\* What lies elsewhere in memory leaves a saved task alone.
LEMMA SavedStays ==
    ASSUME ContextSwitchAssumption, NEW t \in Task, Saved(t), left'[t] = left[t],
           memory'[TdAddr(t)] = memory[TdAddr(t)],
           \A x \in StackTop(t) - Room - 9 .. StackTop(t) - 1 : memory'[x] = memory[x]
    PROVE  Saved(t)'
<1> DEFINE a == memory[TdAddr(t)]
<1>1. a \in StackTop(t) - Room - 9 .. StackTop(t) - 9
  BY DEF Saved, Framed
<1>2. StackTop(t) \in Int /\ Room \in Nat
  BY StackFacts
<1>3. \A x \in a .. a + 8 : memory'[x] = memory[x]
  BY <1>1, <1>2
<1>4. Words(t, a + 9)' = Words(t, a + 9)
  <2> SUFFICES ASSUME NEW k \in 1 .. Room, StackTop(t) - k >= a + 9
               PROVE  memory'[StackTop(t) - k] = memory[StackTop(t) - k]
    BY DEF Words, StackTop
  <2> QED BY <1>1, <1>2
<1> QED BY <1>1, <1>3, <1>4 DEF Saved, Framed, TdAddr, StackTop

\* What an instruction does to registers and memory

\* reg' is reg but for the register r of mode m.
OthersKept(f, r, m) ==
    \A s \in RegNames, n \in AnyMode :
        ~ (s = r /\ (r \in Common \/ Bank(n) = Bank(m))) => f[Phys(s, n)] = reg[Phys(s, n)]

LEMMA SetsReg ==
    ASSUME SwitchTypes, NEW r \in RegNames, NEW v \in Int, SetReg(r, v)
    PROVE  /\ reg' \in [Cells -> Int] /\ reg'[Phys(r, cpsr.mode)] = v
           /\ OthersKept(reg', r, cpsr.mode)
<1>1. reg \in [Cells -> Int] /\ cpsr.mode \in AnyMode
  BY DEF SwitchTypes
<1>2. Phys(r, cpsr.mode) \in Cells
  BY <1>1, PhysFacts
<1>3. reg' = [reg EXCEPT ![Phys(r, cpsr.mode)] = v]
  BY DEF SetReg
<1>4. \A s \in RegNames, n \in AnyMode :
          Phys(s, n) \in Cells /\
          (~ (s = r /\ (r \in Common \/ Bank(n) = Bank(cpsr.mode))) => Phys(s, n) # Phys(r, cpsr.mode))
  BY <1>1, PhysFacts
<1> QED BY <1>1, <1>2, <1>3, <1>4 DEF OthersKept

\* f is the registers once k of them have been read from address a on.
Has(f, list, k, a, m) ==
    /\ f \in [Cells -> Int]
    /\ \A i \in 1 .. k : f[Phys(list[i], m)] = memory[a + i - 1]
    /\ \A s \in RegNames, n \in AnyMode :
          (\A i \in 1 .. k : ~ (s = list[i] /\ (s \in Common \/ Bank(n) = Bank(m))))
          => f[Phys(s, n)] = reg[Phys(s, n)]

LEMMA Loads ==
    ASSUME SwitchTypes, NEW list, NEW k \in Nat \ {0}, DOMAIN list = 1 .. k,
           \A i \in 1 .. k : list[i] \in RegNames,
           \A i, j \in 1 .. k : list[i] = list[j] => i = j,
           NEW a \in Int, 0 <= a, a + k - 1 <= StackTop(Tasks), StackTop(Tasks) \in Int,
           NEW m \in AnyMode
    PROVE  Has(Loaded(list, a, m), list, k, a, m)
<1> DEFINE f == Loaded(list, a, m)
           Is(p, i) == Phys(list[i], m) = p
           The(p) == CHOOSE i \in 1 .. k : Is(p, i)
<1>1. /\ reg \in [Cells -> Int] /\ memory \in [Address -> Int]
      /\ \A i \in 1 .. k : a + i - 1 \in Address
  BY DEF SwitchTypes, Address
<1>2. f = [p \in Cells |-> IF \E i \in 1 .. k : Is(p, i) THEN memory[a + The(p) - 1] ELSE reg[p]]
  BY <1>1 DEF Loaded
<1>3. \A p : (\E i \in 1 .. k : Is(p, i)) => The(p) \in 1 .. k /\ Is(p, The(p))
  OBVIOUS
<1>4. \A i, j \in 1 .. k : Phys(list[i], m) = Phys(list[j], m) => i = j
  BY PhysFacts
<1>5. f \in [Cells -> Int]
  <2>1. \A p \in Cells : reg[p] \in Int
    BY <1>1
  <2>2. \A p : (\E i \in 1 .. k : Is(p, i)) => a + The(p) - 1 \in Address
    BY <1>1, <1>3
  <2>3. \A p : (\E i \in 1 .. k : Is(p, i)) => memory[a + The(p) - 1] \in Int
    BY <1>1, <2>2
  <2> HIDE DEF Is, The
  <2> QED BY <1>2, <2>1, <2>3
<1>6. ASSUME NEW i \in 1 .. k PROVE f[Phys(list[i], m)] = memory[a + i - 1]
  <2>1. Phys(list[i], m) \in Cells
    BY PhysFacts
  <2>2. The(Phys(list[i], m)) = i
    BY <1>3, <1>4
  <2> QED BY <1>2, <2>1, <2>2
<1>7. ASSUME NEW s \in RegNames, NEW n \in AnyMode,
             \A i \in 1 .. k : ~ (s = list[i] /\ (s \in Common \/ Bank(n) = Bank(m)))
      PROVE  f[Phys(s, n)] = reg[Phys(s, n)]
  <2>1. Phys(s, n) \in Cells /\ \A i \in 1 .. k : ~ Is(Phys(s, n), i)
    BY <1>7, PhysFacts
  <2> QED BY <1>2, <2>1
<1> QED BY <1>5, <1>6, <1>7 DEF Has

\* f is memory once k registers have been written from address a on.
Holds(f, list, k, a) ==
    /\ f \in [Address -> Int]
    /\ \A i \in 1 .. k : a + i - 1 \in Address => f[a + i - 1] = Get(list[i])
    /\ \A x \in Address : x \notin a .. a + k - 1 => f[x] = memory[x]

LEMMA Stores ==
    ASSUME SwitchTypes, NEW list, NEW k \in Nat \ {0}, Len(list) = k,
           \A i \in 1 .. k : list[i] \in RegNames, NEW a \in Int
    PROVE  Holds(Stored(list, a), list, k, a)
<1> DEFINE f == Stored(list, a)
<1>1. memory \in [Address -> Int] /\ reg \in [Cells -> Int] /\ cpsr.mode \in AnyMode
  BY DEF SwitchTypes
<1>2. f = [x \in Address |-> IF x \in a .. a + k - 1 THEN Get(list[x - a + 1]) ELSE memory[x]]
  BY <1>1 DEF Stored
<1>3. \A i \in 1 .. k : Get(list[i]) \in Int
  BY <1>1, PhysFacts DEF Get
<1>4. \A x \in a .. a + k - 1 : x - a + 1 \in 1 .. k
  OBVIOUS
<1>5. f \in [Address -> Int]
  BY <1>1, <1>2, <1>3, <1>4
<1>6. ASSUME NEW i \in 1 .. k, a + i - 1 \in Address PROVE f[a + i - 1] = Get(list[i])
  <2>1. a + i - 1 \in a .. a + k - 1 /\ (a + i - 1) - a + 1 = i
    OBVIOUS
  <2> QED BY <1>2, <1>6, <2>1
<1> QED BY <1>2, <1>5, <1>6 DEF Holds

\* The instruction that is next
LEMMA SwitchCode ==
    ASSUME routine = "ctx_switch"
    PROVE  /\ Code(routine)[1] = StmWb("sp", <<"r0", "r4", "lr">>)
           /\ Code(routine)[2] = Ldr("r12", "r0")
           /\ Code(routine)[3] = LdmWb("r12", <<"r3", "lr">>)
           /\ Code(routine)[4] = WriteSpsr("r3")
           /\ Code(routine)[5] = LdmUser("r12", UserRegs)
           /\ Code(routine)[6] = MovsPcLr
BY DEF Code, ctx_switch

LEMMA EntryIs ==
    /\ DOMAIN INTR = {"kern_entry_swi", "kern_entry_irq", "kern_entry_undef"}
    /\ \A r \in DOMAIN INTR : EntryMode(r) \in Modes \ {"usr"} /\ First(r) \in 1 .. 2 /\ INTR[r] \in Int
BY DEF INTR, EntryMode, First, Modes

\* What comes after one more in front
LEMMA OneInFront ==
    ASSUME NEW S, NEW x \in S, NEW s \in Seq(S)
    PROVE  (<<x>> \o s)[1] = x /\ \A i \in 1 .. Len(s) : (<<x>> \o s)[i + 1] = s[i]
OBVIOUS

LEMMA EntryCode ==
    ASSUME NEW r \in DOMAIN INTR
    PROVE  /\ r # "kern_entry_swi" => Code(r)[First(r) - 1] = Sub("lr", "lr", 1)
           /\ Code(r)[First(r)] = Mode("sys")
           /\ Code(r)[First(r) + 1] = Stm("sp", UserRegs)
           /\ Code(r)[First(r) + 2] = Sub("r12", "sp", 7)
           /\ Code(r)[First(r) + 3] = Mode(EntryMode(r))
           /\ Code(r)[First(r) + 4] = ReadSpsr("r3")
           /\ Code(r)[First(r) + 5] = StmWb("r12", <<"r3", "lr">>)
           /\ Code(r)[First(r) + 6] = Mode("svc")
           /\ Code(r)[First(r) + 7] = Pop("r0", "sp")
           /\ Code(r)[First(r) + 8] = Str("r12", "r0")
           /\ Code(r)[First(r) + 9] = Mov("r0", INTR[r])
           /\ Code(r)[First(r) + 10] = LdmPc("sp", <<"r4">>)
<1> DEFINE s == SaveTask(EntryMode(r), INTR[r])
<1>1. r = "kern_entry_swi" \/ r = "kern_entry_irq" \/ r = "kern_entry_undef"
  BY EntryIs
<1>2. /\ s[1] = Mode("sys") /\ s[2] = Stm("sp", UserRegs) /\ s[3] = Sub("r12", "sp", 7)
      /\ s[4] = Mode(EntryMode(r)) /\ s[5] = ReadSpsr("r3") /\ s[6] = StmWb("r12", <<"r3", "lr">>)
      /\ s[7] = Mode("svc") /\ s[8] = Pop("r0", "sp") /\ s[9] = Str("r12", "r0")
      /\ s[10] = Mov("r0", INTR[r]) /\ s[11] = LdmPc("sp", <<"r4">>)
  BY FrameFacts DEF SaveTask
<1> DEFINE S == {s[i] : i \in 1 .. 11} \cup {Sub("lr", "lr", 1)}
<1>3. s \in Seq(S) /\ Len(s) = 11
  BY DEF SaveTask
<1> HIDE DEF s
<1>4. CASE r = "kern_entry_swi"
  <2>1. Code(r) = s /\ First(r) = 1
    BY <1>4 DEF Code, kern_entry_swi, s, EntryMode, First
  <2> QED BY <1>2, <1>4, <2>1
<1>5. CASE r # "kern_entry_swi"
  <2>1. Code(r) = <<Sub("lr", "lr", 1)>> \o s /\ First(r) = 2
    BY <1>1, <1>5 DEF Code, kern_entry_irq, kern_entry_undef, s, EntryMode, First
  <2>2. /\ Code(r)[1] = Sub("lr", "lr", 1)
        /\ \A i \in 1 .. 11 : Code(r)[i + 1] = s[i]
    <3>1. \A T : \A y \in T, q \in Seq(T) :
              (<<y>> \o q)[1] = y /\ \A i \in 1 .. Len(q) : (<<y>> \o q)[i + 1] = q[i]
      BY OneInFront
    <3>2. Sub("lr", "lr", 1) \in S
      OBVIOUS
    <3> HIDE DEF S
    <3> QED BY <1>3, <2>1, <3>1, <3>2
  <2>3. /\ Code(r)[2] = s[1] /\ Code(r)[3] = s[2] /\ Code(r)[4] = s[3] /\ Code(r)[5] = s[4]
        /\ Code(r)[6] = s[5] /\ Code(r)[7] = s[6] /\ Code(r)[8] = s[7] /\ Code(r)[9] = s[8]
        /\ Code(r)[10] = s[9] /\ Code(r)[11] = s[10] /\ Code(r)[12] = s[11]
    BY <2>2
  <2>4. First(r) - 1 = 1 /\ \A i \in 1 .. 10 : First(r) + i = i + 2
    BY <2>1
  <2>5. /\ First(r) + 1 = 3 /\ First(r) + 2 = 4 /\ First(r) + 3 = 5 /\ First(r) + 4 = 6
        /\ First(r) + 5 = 7 /\ First(r) + 6 = 8 /\ First(r) + 7 = 9 /\ First(r) + 8 = 10
        /\ First(r) + 9 = 11 /\ First(r) + 10 = 12
    BY <2>4
  <2> QED BY <1>2, <2>1, <2>2, <2>3, <2>4, <2>5
<1> QED BY <1>4, <1>5

LEMMA DivFacts ==
    ASSUME NEW b \in Nat \ {0}, NEW y \in Int
    PROVE  y \div b \in Int /\ (y \div b) * b <= y /\ y < (y \div b) * b + b
<1>1. y = b * (y \div b) + (y % b) /\ y % b \in 0 .. b - 1 /\ y \div b \in Int
  OBVIOUS
<1>2. b * (y \div b) = (y \div b) * b /\ (y \div b) * b \in Int
  BY <1>1
<1> QED BY <1>1, <1>2

\* The first state: each task has a frame as task_create leaves it.
LEMMA CsInitInv == ASSUME ContextSwitchAssumption, CsInit PROVE SwitchInv
<1> DEFINE W == 9 + Room
           TaskAt(x) == 1 + (x - KernelTop - Tasks) \div W
<1>1. /\ Tasks \in Nat \ {0} /\ Room \in Nat /\ W \in Nat \ {0} /\ StackTop(Tasks) \in Int
      /\ \A t : StackTop(t) = 3 + Tasks + t * W
  BY StackFacts, FrameFacts DEF StackTop, KernelTop
<1>2. /\ cpsr = [mode |-> "svc", flags |-> 0] /\ spsr = [m \in Modes |-> 0]
      /\ routine = "kernel" /\ pc = KernelCode /\ running = 1 /\ steps = 0
  BY DEF CsInit
<1>3. reg \in [Cells -> Int] /\ reg[Phys("sp", "svc")] = KernelTop
  <2>1. reg = [p \in Cells |-> IF p = <<"sp", "svc">> THEN KernelTop ELSE 0]
    BY DEF CsInit, Cells
  <2>2. Phys("sp", "svc") = <<"sp", "svc">> /\ <<"sp", "svc">> \in Cells
    BY DEF Phys, Common, Cells, Modes
  <2> QED BY <2>1, <2>2 DEF KernelTop
<1>4. memory = [x \in Address |->
                 IF x < 3 THEN 0
                 ELSE IF x < 3 + Tasks THEN StackTop(x - 2) - 9
                 ELSE IF TaskAt(x) <= Tasks /\ x >= StackTop(TaskAt(x)) - 9
                      THEN InitialFrame(TaskAt(x))[x - StackTop(TaskAt(x)) + 10] ELSE 0]
  <2>1. memory = [x \in Address |->
                 LET t == 1 + (x - KernelTop - Tasks) \div (FrameWords + Room) IN
                 IF x < KernelTop THEN 0
                 ELSE IF x < KernelTop + Tasks
                 THEN StackTop(x - KernelTop + 1) - FrameWords
                 ELSE IF t <= Tasks /\ x >= StackTop(t) - FrameWords
                      THEN InitialFrame(t)[x - StackTop(t) + FrameWords + 1] ELSE 0]
    BY DEF CsInit, Address
  <2>2. FrameWords = 9 /\ KernelTop = 3
    BY FrameFacts DEF KernelTop
  <2>3. \A x \in Address : x - 3 + 1 = x - 2 /\ \A z \in Int : x - z + 9 + 1 = x - z + 10
    BY <1>1 DEF Address
  <2>4. \A x \in Address : x >= 3 + Tasks => StackTop(TaskAt(x)) \in Int
    BY <1>1, DivFacts, <2>2 DEF Address
  <2>5. ASSUME NEW x \in Address
        PROVE  memory[x] = IF x < 3 THEN 0
                 ELSE IF x < 3 + Tasks THEN StackTop(x - 2) - 9
                 ELSE IF TaskAt(x) <= Tasks /\ x >= StackTop(TaskAt(x)) - 9
                      THEN InitialFrame(TaskAt(x))[x - StackTop(TaskAt(x)) + 10] ELSE 0
    <3>1. CASE x < 3
      BY <2>1, <2>2, <3>1
    <3>2. CASE ~ x < 3 /\ x < 3 + Tasks
      BY <2>1, <2>2, <2>3, <3>2
    <3>3. CASE ~ x < 3 /\ ~ x < 3 + Tasks
      <4>1. x >= 3 + Tasks
        BY <1>1, <3>3 DEF Address
      <4> HIDE DEF TaskAt
      <4> QED BY <2>1, <2>2, <2>3, <2>4, <3>3, <4>1 DEF TaskAt
    <3> QED BY <3>1, <3>2, <3>3
  <2>6. memory = [x \in Address |-> memory[x]]
    BY <2>1
  <2> HIDE DEF TaskAt
  <2> QED BY <2>5, <2>6
<1>5. \A t : /\ \A i \in 1 .. 9 : i \in DOMAIN InitialFrame(t)
             /\ t \in Int => \A i \in 1 .. 9 : InitialFrame(t)[i] \in Int
             /\ InitialFrame(t)[1] = UsrPsr(0) /\ InitialFrame(t)[2] = Entry(t)
             /\ InitialFrame(t)[8] = StackTop(t)
  <2> SUFFICES ASSUME NEW t
               PROVE  /\ \A i \in 1 .. 9 : i \in DOMAIN InitialFrame(t)
                      /\ t \in Int => \A i \in 1 .. 9 : InitialFrame(t)[i] \in Int
                      /\ InitialFrame(t)[1] = UsrPsr(0) /\ InitialFrame(t)[2] = Entry(t)
                      /\ InitialFrame(t)[8] = StackTop(t)
    OBVIOUS
  <2> DEFINE f == InitialFrame(t)
  <2>1. /\ f[1] = UsrPsr(0) /\ f[2] = Entry(t) /\ f[3] = 0 /\ f[4] = 0 /\ f[5] = 0 /\ f[6] = 0
        /\ f[7] = 0 /\ f[8] = StackTop(t) /\ f[9] = ExitAddr /\ DOMAIN f = 1 .. 9
    BY DEF InitialFrame
  <2>2. UsrPsr(0) \in Int /\ ExitAddr \in Int /\ (t \in Int => Entry(t) \in Int /\ StackTop(t) \in Int)
    BY <1>1 DEF UsrPsr, ExitAddr, Entry
  <2>3. \A i \in 1 .. 9 : i = 1 \/ i = 2 \/ i = 3 \/ i = 4 \/ i = 5 \/ i = 6 \/ i = 7 \/ i = 8 \/ i = 9
    OBVIOUS
  <2> HIDE DEF f
  <2>4. t \in Int => \A i \in 1 .. 9 : f[i] \in Int
    BY <2>1, <2>2, <2>3
  <2> QED BY <2>1, <2>4 DEF f
<1>6. \A x \in Address : x >= 3 + Tasks =>
          TaskAt(x) \in Nat \ {0} /\ StackTop(TaskAt(x)) - W <= x /\ x < StackTop(TaskAt(x))
  <2> SUFFICES ASSUME NEW x \in Address, x >= 3 + Tasks
               PROVE  TaskAt(x) \in Nat \ {0} /\ StackTop(TaskAt(x)) - W <= x /\ x < StackTop(TaskAt(x))
    OBVIOUS
  <2> DEFINE y == x - KernelTop - Tasks
             q == y \div W
  <2>1. y = x - 3 - Tasks /\ y \in Nat
    BY <1>1 DEF Address, KernelTop
  <2>2. q \in Int /\ q * W <= y /\ y < q * W + W
    <3>1. y \in Int /\ W \in Nat \ {0}
      BY <1>1, <2>1
    <3> HIDE DEF y, W
    <3> QED BY <3>1, DivFacts
  <2>3. TaskAt(x) = 1 + q
    OBVIOUS
  <2> HIDE DEF q, y, TaskAt
  <2>4. q >= 0
    <3> SUFFICES ASSUME q <= -1 PROVE FALSE
      BY <2>2
    <3>1. (q + 1) * W = q * W + W /\ (q + 1) * W <= 0 /\ q * W \in Int
      <4>1. (0 - (q + 1)) * W >= 0
        BY <1>1, <2>2
      <4> HIDE DEF W
      <4> QED BY <1>1, <2>2, <4>1
    <3> QED BY <1>1, <2>1, <2>2, <3>1
  <2>5. (1 + q) * W = q * W + W /\ q * W \in Int
    BY <1>1, <2>2
  <2>6. StackTop(1 + q) = 3 + Tasks + q * W + W
    BY <1>1, <2>5
  <2> HIDE DEF W
  <2>7. StackTop(1 + q) - W <= x /\ x < StackTop(1 + q)
    BY <1>1, <2>1, <2>2, <2>5, <2>6 DEF Address
  <2> QED BY <2>2, <2>3, <2>4, <2>7
<1>7. memory \in [Address -> Int]
  <2>1. ASSUME NEW x \in Address PROVE memory[x] \in Int
    <3>1. CASE x < 3
      BY <1>4, <3>1
    <3>2. CASE ~ x < 3 /\ x < 3 + Tasks
      <4>1. memory[x] = StackTop(x - 2) - 9
        BY <1>4, <3>2
      <4>2. x - 2 \in Int /\ W \in Int
        BY <1>1 DEF Address
      <4>3. (x - 2) * W \in Int
        BY <4>2
      <4> QED BY <1>1, <4>1, <4>2, <4>3
    <3>3. CASE ~ x < 3 /\ ~ x < 3 + Tasks
      <4>1. x >= 3 + Tasks
        BY <1>1, <3>3 DEF Address
      <4>2. TaskAt(x) \in Nat \ {0} /\ x < StackTop(TaskAt(x)) /\ StackTop(TaskAt(x)) - W <= x
        BY <1>6, <4>1
      <4>3. TaskAt(x) * W \in Int
        BY <1>1, <4>2
      <4>4. StackTop(TaskAt(x)) \in Int
        BY <1>1, <4>3, <4>2
      <4> HIDE DEF TaskAt
      <4>5. CASE TaskAt(x) <= Tasks /\ x >= StackTop(TaskAt(x)) - 9
        <5>1. x - StackTop(TaskAt(x)) + 10 \in 1 .. 9
          BY <4>2, <4>4, <4>5 DEF Address
        <5>2. InitialFrame(TaskAt(x))[x - StackTop(TaskAt(x)) + 10] \in Int
          BY <1>5, <4>2, <5>1
        <5> QED BY <1>4, <3>3, <4>5, <5>2
      <4>6. CASE ~ (TaskAt(x) <= Tasks /\ x >= StackTop(TaskAt(x)) - 9)
        BY <1>4, <3>3, <4>6
      <4> QED BY <4>5, <4>6
    <3> QED BY <3>1, <3>2, <3>3
  <2> HIDE DEF TaskAt
  <2> QED BY <1>4, <2>1
<1>8. left = [t \in Task |-> [kind |-> 0,
                 view |-> [regs |-> [i \in 1 .. 7 |-> InitialFrame(t)[i + 2]], flags |-> 0,
                           pc |-> Entry(t), words |-> [k \in 1 .. Room |-> 0]]]]
  BY FrameFacts DEF CsInit
<1>9. left \in [Task -> [kind : {0, 1, 2, 6}, view : Views]]
  <2> SUFFICES ASSUME NEW t \in Task
               PROVE  [regs |-> [i \in 1 .. 7 |-> InitialFrame(t)[i + 2]], flags |-> 0,
                       pc |-> Entry(t), words |-> [k \in 1 .. Room |-> 0]] \in Views
    BY <1>8
  <2>1. t \in Int
    BY <1>1 DEF Task
  <2>2. \A i \in 1 .. 7 : i + 2 \in 1 .. 9
    OBVIOUS
  <2>3. [i \in 1 .. 7 |-> InitialFrame(t)[i + 2]] \in [1 .. 7 -> Int]
    BY <1>5, <2>1, <2>2
  <2>4. Entry(t) \in Int /\ [k \in 1 .. Room |-> 0] \in [1 .. Room -> Int]
    BY <2>1 DEF Entry
  <2> QED BY <2>3, <2>4 DEF Views
<1>10. ASSUME NEW t \in Task PROVE Saved(t)
  <2> DEFINE a == StackTop(t) - 9
             view == left[t].view
  <2>1. /\ StackTop(t) \in Int /\ TdAddr(t) \in 3 .. 2 + Tasks /\ t \in 1 .. Tasks
        /\ StackTop(t) - Room - 9 >= 3 + Tasks /\ StackTop(t) <= StackTop(Tasks)
    BY StackFacts DEF Task
  <2>2. TdAddr(t) - 2 = t /\ TdAddr(t) \in Address
    BY <1>1, <2>1 DEF TdAddr, KernelTop, Address
  <2>3. memory[TdAddr(t)] = a
    <3>1. ~ TdAddr(t) < 3 /\ TdAddr(t) < 3 + Tasks
      BY <1>1, <2>1
    <3> HIDE DEF TaskAt
    <3> QED BY <1>4, <2>2, <3>1
  <2>4. ASSUME NEW i \in 1 .. 9 PROVE memory[a + i - 1] = InitialFrame(t)[i]
    <3> DEFINE x == a + i - 1
    <3>1. x \in Address /\ x >= 3 + Tasks /\ x \in Int
      BY <1>1, <2>1 DEF Address
    <3>2. TaskAt(x) \in Nat \ {0} /\ StackTop(TaskAt(x)) - W <= x /\ x < StackTop(TaskAt(x))
      BY <1>6, <3>1
    <3>3. StackTop(t) - W <= x /\ x < StackTop(t)
      BY <1>1, <2>1
    <3>4. TaskAt(x) = t
      <4>1. StackTop(TaskAt(x)) = 3 + Tasks + TaskAt(x) * W /\ StackTop(t) = 3 + Tasks + t * W
        BY <1>1
      <4> DEFINE u == TaskAt(x)
      <4>2. u \in Nat /\ t \in Nat /\ u * W \in Nat /\ t * W \in Nat
        BY <1>1, <2>1, <3>2
      <4>3. t * W < u * W + W /\ u * W < t * W + W
        <5> HIDE DEF W, u, x
        <5> QED BY <1>1, <3>1, <3>2, <3>3, <4>1, <4>2 DEF u
      <4> HIDE DEF u
      <4>4. ~ u < t
        <5> SUFFICES ASSUME u < t PROVE FALSE
          OBVIOUS
        <5>1. (t - u) * W >= W
          BY <1>1, <4>2
        <5>2. (t - u) * W = t * W - u * W
          BY <1>1, <4>2
        <5> QED BY <1>1, <4>2, <4>3, <5>1, <5>2
      <4>5. ~ t < u
        <5> SUFFICES ASSUME t < u PROVE FALSE
          OBVIOUS
        <5>1. (u - t) * W >= W
          BY <1>1, <4>2
        <5>2. (u - t) * W = u * W - t * W
          BY <1>1, <4>2
        <5> QED BY <1>1, <4>2, <4>3, <5>1, <5>2
      <4> QED BY <4>2, <4>4, <4>5 DEF u
    <3>5. ~ x < 3 /\ ~ x < 3 + Tasks /\ t <= Tasks /\ x >= StackTop(t) - 9 /\ x - StackTop(t) + 10 = i
      BY <1>1, <2>1, <3>1
    <3> HIDE DEF TaskAt, x
    <3>6. memory[x] = InitialFrame(t)[i]
      BY <1>4, <3>1, <3>4, <3>5
    <3> QED BY <3>6 DEF x
  <2>5. /\ view.regs = [i \in 1 .. 7 |-> InitialFrame(t)[i + 2]] /\ view.flags = 0
        /\ view.pc = Entry(t) /\ view.words = [k \in 1 .. Room |-> 0]
    BY <1>8
  <2>6. memory[a] = UsrPsr(0) /\ memory[a + 1] = Entry(t)
    <3>1. memory[a + 1 - 1] = InitialFrame(t)[1] /\ memory[a + 2 - 1] = InitialFrame(t)[2]
      BY <2>4
    <3>2. a + 1 - 1 = a /\ a + 2 - 1 = a + 1
      BY <2>1
    <3> QED BY <1>5, <3>1, <3>2
  <2>7. \A i \in 1 .. 7 : memory[a + 1 + i] = view.regs[i]
    <3> SUFFICES ASSUME NEW i \in 1 .. 7 PROVE memory[a + 1 + i] = InitialFrame(t)[i + 2]
      BY <2>5
    <3>1. i + 2 \in 1 .. 9 /\ a + (i + 2) - 1 = a + 1 + i
      BY <2>1
    <3> QED BY <2>4, <3>1
  <2>8. view.regs[6] = a + 9
    BY <1>5, <2>1, <2>5
  <2>9. Words(t, a + 9) = [k \in 1 .. Room |-> 0]
    BY <2>1 DEF Words
  <2>10. a \in StackTop(t) - Room - 9 .. StackTop(t) - 9
    BY <1>1, <2>1
  <2> HIDE DEF a, view
  <2> QED BY <2>3, <2>5, <2>6, <2>7, <2>8, <2>9, <2>10 DEF Saved, Framed, view
<1>11. SwitchTypes
  BY <1>1, <1>2, <1>3, <1>7, <1>9 DEF SwitchTypes, AnyMode, Modes, Task, KernelCode
<1>12. "kernel" \notin DOMAIN INTR
  BY EntryIs
<1> QED BY <1>2, <1>3, <1>10, <1>11, <1>12 DEF SwitchInv, InUser, InKernel, InSwitch, InEntry

LEMMA ElsewhereSaved ==
    ASSUME ContextSwitchAssumption, NEW u \in Task, NEW t \in Task, Saved(t), t # u,
           left'[t] = left[t],
           \A x \in Address : \/ memory'[x] = memory[x] \/ x < 3 \/ x = TdAddr(u)
                              \/ x \in StackTop(u) - Room - 9 .. StackTop(u) - 1
    PROVE  Saved(t)'
<1>1. /\ Tasks \in Nat \ {0} /\ Room \in Nat /\ StackTop(t) \in Int /\ StackTop(u) \in Int
      /\ StackTop(Tasks) \in Int
      /\ TdAddr(t) \in 3 .. 2 + Tasks /\ TdAddr(u) \in 3 .. 2 + Tasks /\ TdAddr(t) # TdAddr(u)
      /\ StackTop(t) - Room - 9 >= 3 + Tasks /\ StackTop(t) <= StackTop(Tasks)
      /\ StackTop(u) - Room - 9 >= 3 + Tasks
      /\ StackTop(t) <= StackTop(u) - Room - 9 \/ StackTop(u) <= StackTop(t) - Room - 9
  BY StackFacts
<1>2. memory'[TdAddr(t)] = memory[TdAddr(t)]
  BY <1>1 DEF Address
<1>3. \A x \in StackTop(t) - Room - 9 .. StackTop(t) - 1 : memory'[x] = memory[x]
  BY <1>1 DEF Address
<1> QED BY <1>2, <1>3, SavedStays

\* Only a task that is left or given its result changes what is saved.
LEMMA UserInv ==
    ASSUME ContextSwitchAssumption, SwitchInv, routine = "user", routine' = "user",
           UNCHANGED <<spsr, running, left>>, pc' \in Int, steps' \in Nat,
           cpsr' \in [mode : {"usr"}, flags : {0, 1}],
           reg' \in [Cells -> Int], memory' \in [Address -> Int],
           reg'[Phys("sp", "svc")] = reg[Phys("sp", "svc")],
           reg'[Phys("sp", "usr")] \in StackTop(running) - Room .. StackTop(running),
           \A x \in Address : \/ memory'[x] = memory[x]
                              \/ x \in StackTop(running) - Room - 9 .. StackTop(running) - 1
    PROVE  SwitchInv'
<1>1. SwitchTypes /\ KernelFrame /\ OthersSaved
  BY DEF SwitchInv, InUser
<1>2. SwitchTypes'
  BY <1>1 DEF SwitchTypes, AnyMode, Modes, Address, StackTop, Task, Views, Cells
<1>3. running \in Task
  BY <1>1 DEF SwitchTypes
<1>4. OthersSaved'
  BY <1>1, <1>3, ElsewhereSaved DEF OthersSaved, Task
<1>5. 0 \in Address /\ 1 \in Address /\ 2 \in Address /\ StackTop(running) - Room - 9 >= 3
      /\ StackTop(running) \in Int /\ Room \in Nat
  <2>1. /\ StackTop(running) \in Int /\ Room \in Nat /\ Tasks \in Nat
        /\ StackTop(running) - Room - 9 >= 3 + Tasks /\ StackTop(running) <= StackTop(Tasks)
        /\ StackTop(Tasks) \in Int
    BY <1>3, StackFacts
  <2>2. 0 \in Address /\ 1 \in Address /\ 2 \in Address
    BY <2>1 DEF Address
  <2> QED BY <2>1, <2>2
<1>6. memory'[0] = memory[0] /\ memory'[1] = memory[1] /\ memory'[2] = memory[2]
  BY <1>5
<1>7. KernelFrame'
  BY <1>1, <1>6 DEF KernelFrame, Phys, TdAddr, KernelCode
<1>8. "user" \notin DOMAIN INTR
  BY EntryIs
<1> QED BY <1>2, <1>4, <1>7, <1>8 DEF SwitchInv, InUser, InKernel, InSwitch, InEntry, Phys, StackTop

LEMMA ComputeInv == ASSUME ContextSwitchAssumption, SwitchInv, Compute PROVE SwitchInv'
<1>1. /\ routine = "user" /\ routine' = "user" /\ pc' = pc + 1 /\ steps' = steps + 1
      /\ spsr' = spsr /\ running' = running /\ left' = left
  BY DEF Compute, Own
<1>2. /\ SwitchTypes /\ cpsr.mode = "usr"
      /\ reg[Phys("sp", "usr")] \in StackTop(running) - Room .. StackTop(running)
  BY <1>1 DEF SwitchInv, InUser
<1>3. /\ reg \in [Cells -> Int] /\ memory \in [Address -> Int] /\ pc' \in Int /\ steps' \in Nat
      /\ cpsr \in [mode : {"usr"}, flags : {0, 1}] /\ running \in Task /\ Fresh \in Int
  BY <1>1, <1>2 DEF SwitchTypes, Fresh
<1>4. ASSUME NEW r \in Common \cup {"lr"}, SetReg(r, Fresh), UNCHANGED <<cpsr, memory>>
      PROVE  SwitchInv'
  <2>1. r \in RegNames /\ r # "sp"
    BY DEF RegNames, Common
  <2>2. /\ reg' \in [Cells -> Int] /\ reg'[Phys("sp", "svc")] = reg[Phys("sp", "svc")]
        /\ reg'[Phys("sp", "usr")] = reg[Phys("sp", "usr")]
    BY <1>2, <1>3, <1>4, <2>1, SetsReg DEF OthersKept, RegNames, AnyMode, Modes
  <2> QED BY <1>1, <1>2, <1>3, <1>4, <2>2, UserInv
<1>5. CASE cpsr' = [cpsr EXCEPT !.flags = 1 - @] /\ UNCHANGED <<reg, memory>>
  <2>1. cpsr' \in [mode : {"usr"}, flags : {0, 1}]
    BY <1>3, <1>5
  <2> QED BY <1>1, <1>2, <1>3, <1>5, <2>1, UserInv
<1>6. CASE /\ Get("sp") > StackTop(running) - Room
           /\ SetReg("sp", Get("sp") - 1)
           /\ memory' = [memory EXCEPT ![Get("sp") - 1] = Fresh]
           /\ UNCHANGED cpsr
  <2> DEFINE sp == reg[Phys("sp", "usr")]
  <2>1. Get("sp") = sp
    BY <1>2 DEF Get
  <2>2. StackTop(running) \in Int /\ Room \in Nat /\ sp \in Int
    BY <1>2, <1>3, StackFacts
  <2>3. /\ reg' \in [Cells -> Int] /\ reg'[Phys("sp", "svc")] = reg[Phys("sp", "svc")]
        /\ reg'[Phys("sp", "usr")] = sp - 1
    <3>1. "sp" \in RegNames /\ sp - 1 \in Int /\ SetReg("sp", sp - 1)
      BY <1>6, <2>1, <2>2 DEF RegNames
    <3> HIDE DEF sp
    <3>2. /\ reg' \in [Cells -> Int] /\ reg'[Phys("sp", cpsr.mode)] = sp - 1
          /\ OthersKept(reg', "sp", cpsr.mode)
      BY <1>2, <3>1, SetsReg
    <3> QED BY <1>2, <3>2 DEF OthersKept, RegNames, AnyMode, Modes, Common, Bank
  <2>4. /\ memory' \in [Address -> Int]
        /\ \A x \in Address : x # sp - 1 => memory'[x] = memory[x]
    BY <1>3, <1>6, <2>1
  <2>5. sp - 1 \in StackTop(running) - Room .. StackTop(running)
    BY <1>2, <1>6, <2>1, <2>2
  <2>6. \A x \in Address : \/ memory'[x] = memory[x]
                           \/ x \in StackTop(running) - Room - 9 .. StackTop(running) - 1
    BY <1>2, <2>2, <2>4, <2>5
  <2> HIDE DEF sp
  <2> QED BY <1>1, <1>3, <1>6, <2>3, <2>4, <2>5, <2>6, UserInv
<1> QED BY <1>4, <1>5, <1>6 DEF Compute

LEMMA CallKernelInv == ASSUME ContextSwitchAssumption, SwitchInv, CallKernel PROVE SwitchInv'
<1>1. /\ routine = "user" /\ routine' = "user" /\ pc' = Wrapper /\ steps' = steps + 1
      /\ spsr' = spsr /\ running' = running /\ left' = left
      /\ SetReg("lr", pc + 1) /\ cpsr' = cpsr /\ memory' = memory
  BY DEF CallKernel, Own
<1>2. /\ SwitchTypes /\ cpsr.mode = "usr"
      /\ reg[Phys("sp", "usr")] \in StackTop(running) - Room .. StackTop(running)
  BY <1>1 DEF SwitchInv, InUser
<1>3. /\ memory' \in [Address -> Int] /\ pc + 1 \in Int /\ pc' \in Int /\ steps' \in Nat
      /\ cpsr' \in [mode : {"usr"}, flags : {0, 1}]
  BY <1>1, <1>2 DEF SwitchTypes, Wrapper
<1>4. /\ reg' \in [Cells -> Int] /\ reg'[Phys("sp", "svc")] = reg[Phys("sp", "svc")]
      /\ reg'[Phys("sp", "usr")] = reg[Phys("sp", "usr")]
  BY <1>1, <1>2, <1>3, SetsReg DEF OthersKept, RegNames, AnyMode, Modes
<1> QED BY <1>1, <1>2, <1>3, <1>4, UserInv

LEMMA WrapperReturnsInv == ASSUME ContextSwitchAssumption, SwitchInv, WrapperReturns PROVE SwitchInv'
<1>1. /\ routine = "user" /\ routine' = "user" /\ pc' = Get("lr") /\ steps' = steps + 1
      /\ spsr' = spsr /\ running' = running /\ left' = left
      /\ reg' = reg /\ cpsr' = cpsr /\ memory' = memory
  BY DEF WrapperReturns, Own
<1>2. /\ SwitchTypes /\ cpsr.mode = "usr"
      /\ reg[Phys("sp", "usr")] \in StackTop(running) - Room .. StackTop(running)
  BY <1>1 DEF SwitchInv, InUser
<1>3. /\ memory' \in [Address -> Int] /\ reg' \in [Cells -> Int] /\ steps' \in Nat
      /\ cpsr' \in [mode : {"usr"}, flags : {0, 1}]
  BY <1>1, <1>2 DEF SwitchTypes
<1>4. pc' \in Int
  BY <1>1, <1>2, <1>3, PhysFacts DEF Get, RegNames, AnyMode, Modes
<1> QED BY <1>1, <1>2, <1>3, <1>4, UserInv

\* The vectors lead to the entry that goes with the exception.
LEMMA Vectors ==
    ASSUME NEW v \in {1, 2, 6}
    PROVE  /\ Vector(v) \in DOMAIN INTR /\ TrapMode(v) = EntryMode(Vector(v))
           /\ TrapMode(v) \in Modes \ {"usr"}
           /\ Vector(v) = "kern_entry_swi" <=> v = 2
<1>1. Vector(1) = "kern_entry_undef" /\ Vector(2) = "kern_entry_swi" /\ Vector(6) = "kern_entry_irq"
  <2>1. vecTbl.offset[1] = 6 /\ vecTbl.offset[2] = 6 /\ vecTbl.offset[6] = 5
    BY DEF vecTbl
  <2>2. /\ vecTbl.word[9] = "kern_entry_undef" /\ vecTbl.word[10] = "kern_entry_swi"
        /\ vecTbl.word[13] = "kern_entry_irq"
    BY DEF vecTbl
  <2> QED BY <2>1, <2>2 DEF Vector
<1> QED BY <1>1 DEF TrapMode, EntryMode, INTR, Modes

LEMMA TrapInv == ASSUME ContextSwitchAssumption, SwitchInv, Trap PROVE SwitchInv'
<1>1. /\ SwitchTypes /\ routine = "user" /\ cpsr.mode = "usr" /\ KernelFrame /\ OthersSaved
      /\ reg[Phys("sp", "usr")] \in StackTop(running) - Room .. StackTop(running)
  BY DEF Trap, SwitchInv, InUser
<1>2. PICK v \in {1, 2, 6} :
          /\ cpsr' = [cpsr EXCEPT !.mode = TrapMode(v)]
          /\ spsr' = [spsr EXCEPT ![TrapMode(v)] = UsrPsr(cpsr.flags)]
          /\ reg' = [reg EXCEPT ![<<"lr", TrapMode(v)>>] = pc + 1]
          /\ routine' = Vector(v)
          /\ pc' = 1
          /\ left' = [left EXCEPT ![running] =
                 [kind |-> v, view |-> [View EXCEPT !.pc = IF v = 2 THEN pc + 1 ELSE pc]]]
  BY DEF Trap
<1> DEFINE r == Vector(v)
           m == TrapMode(v)
           view == [View EXCEPT !.pc = IF v = 2 THEN pc + 1 ELSE pc]
<1>3. /\ r \in DOMAIN INTR /\ m \in Modes \ {"usr"} /\ (r = "kern_entry_swi" <=> v = 2)
      /\ First(r) = (IF v = 2 THEN 1 ELSE 2) /\ EntryMode(r) = m
  BY Vectors DEF First
<1>4. /\ cpsr' = [cpsr EXCEPT !.mode = m] /\ spsr' = [spsr EXCEPT ![m] = UsrPsr(cpsr.flags)]
      /\ reg' = [reg EXCEPT ![<<"lr", m>>] = pc + 1] /\ routine' = r /\ pc' = 1
      /\ left' = [left EXCEPT ![running] = [kind |-> v, view |-> view]]
      /\ memory' = memory /\ running' = running /\ steps' = steps
  BY <1>2 DEF Trap
<1> HIDE DEF r, m
<1>5. /\ reg \in [Cells -> Int] /\ cpsr \in [mode : AnyMode, flags : {0, 1}]
      /\ spsr \in [Modes -> Int] /\ memory \in [Address -> Int] /\ pc \in Int /\ running \in Task
      /\ left \in [Task -> [kind : {0, 1, 2, 6}, view : Views]] /\ steps \in Nat
  BY <1>1 DEF SwitchTypes
<1>6. <<"lr", m>> = Phys("lr", m) /\ "lr" \in RegNames /\ m \in AnyMode /\ Phys("lr", m) \in Cells
  BY <1>3, PhysFacts DEF Phys, Common, RegNames, AnyMode, Modes
<1>7. /\ reg' \in [Cells -> Int] /\ reg'[Phys("lr", m)] = pc + 1
      /\ reg'[Phys("sp", "svc")] = reg[Phys("sp", "svc")]
      /\ \A s \in RegNames : reg'[Phys(s, "usr")] = reg[Phys(s, "usr")]
  <2>1. /\ "usr" \in AnyMode /\ "svc" \in AnyMode /\ "sp" \in RegNames /\ "lr" \notin Common
        /\ Bank("usr") = "usr" /\ Bank(m) = m
    BY <1>3 DEF AnyMode, Modes, RegNames, Common, Bank
  <2>2. \A s \in RegNames : Phys(s, "usr") # Phys("lr", m) /\ Phys(s, "usr") \in Cells
    BY <1>3, <1>6, <2>1, PhysFacts
  <2>3. Phys("sp", "svc") # Phys("lr", m) /\ Phys("sp", "svc") \in Cells
    BY <1>6, <2>1, PhysFacts
  <2> QED BY <1>4, <1>5, <1>6, <2>2, <2>3
<1> DEFINE sp == reg[Phys("sp", "usr")]
<1>8. /\ view.flags = cpsr.flags /\ view.pc = (IF v = 2 THEN pc + 1 ELSE pc)
      /\ view.words = Words(running, sp)
      /\ view.regs = [i \in 1 .. 7 |-> reg[Phys(UserRegs[i], "usr")]]
      /\ view = [regs |-> view.regs, flags |-> view.flags, pc |-> view.pc, words |-> view.words]
  <2>1. sp = reg[<<"sp", "usr">>] /\ DOMAIN UserRegs = 1 .. 7
    BY FrameFacts DEF Phys, Common
  <2>2. View = [regs |-> [i \in 1 .. 7 |-> reg[Phys(UserRegs[i], "usr")]], flags |-> cpsr.flags,
                pc |-> pc, words |-> Words(running, sp)]
    BY <2>1 DEF View
  <2> HIDE DEF sp
  <2>3. view = [regs |-> [i \in 1 .. 7 |-> reg[Phys(UserRegs[i], "usr")]], flags |-> cpsr.flags,
                pc |-> (IF v = 2 THEN pc + 1 ELSE pc), words |-> Words(running, sp)]
    BY <2>2
  <2> HIDE DEF view
  <2> QED BY <2>3
<1>9. view.regs \in [1 .. 7 -> Int] /\ view.regs[6] = sp /\ view.flags \in {0, 1} /\ view.pc \in Int
  <2>1. \A i \in 1 .. 7 : Phys(UserRegs[i], "usr") \in Cells
    BY FrameFacts, PhysFacts DEF AnyMode, Modes
  <2> HIDE DEF view
  <2>2. view.regs \in [1 .. 7 -> Int] /\ view.flags \in {0, 1} /\ view.pc \in Int
    BY <1>5, <1>8, <2>1
  <2> QED BY <1>8, <2>2, FrameFacts
<1>10. view.words \in [1 .. Room -> Int]
  <2>1. /\ StackTop(running) \in Int /\ Room \in Nat /\ StackTop(running) - Room - 9 >= 0
        /\ StackTop(running) <= StackTop(Tasks) /\ StackTop(Tasks) \in Int
    BY <1>5, StackFacts
  <2>2. \A k \in 1 .. Room : StackTop(running) - k \in Address
    BY <2>1 DEF Address
  <2> HIDE DEF view
  <2> QED BY <1>5, <1>8, <2>2 DEF Words
<1> HIDE DEF view
<1>11. view \in Views
  BY <1>8, <1>9, <1>10 DEF Views
<1> PICK w \in Views : w = view
  BY <1>11
<1>12. /\ left' \in [Task -> [kind : {0, 1, 2, 6}, view : Views]] /\ left'[running].view = w
       /\ \A t \in Task \ {running} : left'[t] = left[t]
  BY <1>4, <1>5
<1>13. cpsr' \in [mode : AnyMode, flags : {0, 1}] /\ cpsr'.mode = m /\ spsr' \in [Modes -> Int]
       /\ spsr'[m] = UsrPsr(w.flags)
  <2>1. UsrPsr(cpsr.flags) \in Int
    BY <1>5 DEF UsrPsr
  <2> QED BY <1>3, <1>4, <1>5, <1>6, <1>8, <2>1
<1>14. SwitchTypes'
  <2>1. /\ memory' \in [Address -> Int] /\ pc' \in Int /\ running' \in Task /\ steps' \in Nat
        /\ routine' \in DOMAIN INTR
    BY <1>3, <1>4, <1>5
  <2> QED BY <1>7, <1>12, <1>13, <2>1
     DEF SwitchTypes, AnyMode, Modes, Address, StackTop, Task, Views, Cells, INTR
<1>15. OthersSaved'
  <2> SUFFICES ASSUME NEW t \in Task \ {running} PROVE Saved(t)'
    BY <1>4 DEF OthersSaved, Task
  <2> QED BY <1>1, <1>4, <1>5, <1>12, ElsewhereSaved DEF OthersSaved
<1>16. KernelFrame'
  BY <1>1, <1>4, <1>7 DEF KernelFrame, Phys, TdAddr, KernelCode
<1>17. UserIs(w)' /\ StackIs(w)' /\ reg'[Phys("sp", "usr")] = w.regs[6]
  <2>1. \A i \in 1 .. 7 : reg'[Phys(UserRegs[i], "usr")] = w.regs[i]
    BY <1>7, <1>8, FrameFacts
  <2>2. w.words = Words(running, w.regs[6])'
    <3>1. w.words = Words(running, w.regs[6])
      BY <1>8, <1>9
    <3> QED BY <1>4, <3>1 DEF Words, StackTop
  <2>3. sp \in StackTop(running) - Room .. StackTop(running)
    BY <1>1
  <2>4. reg'[Phys("sp", "usr")] = sp
    BY <1>7 DEF RegNames
  <2> QED BY <1>4, <1>9, <2>1, <2>2, <2>3, <2>4 DEF UserIs, StackIs, Phys, StackTop
<1>18. Done' = (IF v = 2 THEN 0 ELSE -1)
  BY <1>3, <1>4 DEF Done, First
<1>19. reg'[Phys("lr", m)] = (IF v = 2 THEN w.pc ELSE w.pc + 1)
  BY <1>5, <1>7, <1>8
<1>20. InEntry'
  <2> PICK d \in -1 .. 0, q \in DOMAIN INTR : d = Done' /\ q = r
    BY <1>3, <1>18
  <2>1. (q = "kern_entry_swi" => d = 0) /\ (d = 0 => v = 2) /\ (v = 2 => d = 0)
    BY <1>3, <1>18
  <2>2. EntryAt(d, q, w)'
    <3> DEFINE k == EntryMode(q)
    <3>1. /\ cpsr'.mode = k /\ spsr'[k] = UsrPsr(w.flags)
          /\ reg'[Phys("lr", k)] = IF d = 0 THEN w.pc ELSE w.pc + 1
      BY <1>3, <1>13, <1>19, <2>1
    <3>2. ~ d >= 2 /\ ~ d >= 1 /\ d <= 7 /\ d <= 6 /\ (d = -1 => ~ d \in 0 .. 5) /\ (d # -1 => d = 0)
          /\ ~ d \in 1 .. 3 /\ ~ d \in 2 .. 8 /\ ~ d \in 3 .. 5 /\ ~ d \in 6 .. 8 /\ d # 5 /\ d # 8 /\ ~ d >= 9
          /\ ~ d >= 8 /\ d # 10
      OBVIOUS
    <3> QED BY <1>16, <1>17, <3>1, <3>2 DEF EntryAt
  <2>3. left'[running'].view = w /\ routine' = q
    BY <1>4, <1>12
  <2>4. d \in -1 .. 10
    OBVIOUS
  <2> QED BY <1>15, <1>17, <2>1, <2>2, <2>3, <2>4, SMTT(30) DEF InEntry, INTR, Views
<1>21. routine' # "user" /\ routine' # "kernel" /\ routine' # "ctx_switch"
  <2>1. routine' = r
    BY <1>4
  <2>2. r = "kern_entry_swi" \/ r = "kern_entry_irq" \/ r = "kern_entry_undef"
    BY <1>3, EntryIs
  <2> HIDE DEF r
  <2> QED BY <2>1, <2>2
<1>22. InUser' /\ InKernel' /\ InSwitch'
  BY <1>21 DEF InUser, InKernel, InSwitch
<1> QED BY <1>14, <1>20, <1>22 DEF SwitchInv

LEMMA SetResultInv ==
    ASSUME ContextSwitchAssumption, SwitchInv, NEW t \in Task, SetResult(t) PROVE SwitchInv'
<1>0. PICK a : a = memory[TdAddr(t)]
  OBVIOUS
<1>1. /\ SwitchTypes /\ routine = "kernel" /\ \A u \in Task : Saved(u)
      /\ memory' = [memory EXCEPT ![a + 2] = 60]
      /\ left' = [left EXCEPT ![t].view.regs[1] = 60, ![t].kind = 0]
      /\ UNCHANGED <<reg, cpsr, spsr, routine, pc, running, steps>>
  BY <1>0 DEF SetResult, SwitchInv, InKernel
<1>2. /\ memory \in [Address -> Int] /\ left \in [Task -> [kind : {0, 1, 2, 6}, view : Views]]
  BY <1>1 DEF SwitchTypes
<1>3. /\ StackTop(t) \in Int /\ Room \in Nat /\ TdAddr(t) \in 3 .. 2 + Tasks /\ Tasks \in Nat
      /\ StackTop(t) - Room - 9 >= 3 + Tasks /\ StackTop(t) <= StackTop(Tasks) /\ StackTop(Tasks) \in Int
  BY StackFacts
<1>4. a \in StackTop(t) - Room - 9 .. StackTop(t) - 9
  BY <1>0, <1>1 DEF Saved, Framed
<1>5. /\ memory' \in [Address -> Int] /\ \A x \in Address : x # a + 2 => memory'[x] = memory[x]
      /\ memory'[a + 2] = 60
  BY <1>1, <1>2, <1>3, <1>4, SMTT(30) DEF Address
<1> DEFINE view == left[t].view
           new == [view EXCEPT !.regs[1] = 60]
<1>6. view \in Views /\ new \in Views
  <2>1. view \in Views
    BY <1>2
  <2>2. view.regs \in [1 .. 7 -> Int]
    BY <2>1 DEF Views
  <2>3. [view.regs EXCEPT ![1] = 60] \in [1 .. 7 -> Int]
    BY <2>2
  <2> HIDE DEF view
  <2> QED BY <2>1, <2>3 DEF Views
<1>7. /\ left' \in [Task -> [kind : {0, 1, 2, 6}, view : Views]] /\ left'[t].view = new
      /\ \A u \in Task \ {t} : left'[u] = left[u]
  <2>1. left' = [left EXCEPT ![t] = [@ EXCEPT !.view = new, !.kind = 0]]
    BY <1>1, <1>2
  <2> HIDE DEF new
  <2> QED BY <1>2, <1>6, <2>1
<1>8. SwitchTypes'
  BY <1>1, <1>5, <1>7 DEF SwitchTypes, AnyMode, Modes, Address, StackTop, Task, Views, Cells, INTR
<1>9. ASSUME NEW u \in Task, u # t PROVE Saved(u)'
  <2>1. \A x \in Address : \/ memory'[x] = memory[x]
                           \/ x \in StackTop(t) - Room - 9 .. StackTop(t) - 1
    BY <1>3, <1>4, <1>5
  <2> QED BY <1>1, <1>7, <1>9, <2>1, ElsewhereSaved
<1>10. Saved(t)'
  <2>1. /\ memory[a] = UsrPsr(view.flags) /\ memory[a + 1] = view.pc
        /\ \A i \in 1 .. 7 : memory[a + 1 + i] = view.regs[i]
        /\ view.regs[6] = a + 9 /\ view.words = Words(t, a + 9)
    BY <1>0, <1>1 DEF Saved, Framed
  <2>2. /\ new.flags = view.flags /\ new.pc = view.pc /\ new.words = view.words
        /\ new.regs = [view.regs EXCEPT ![1] = 60] /\ view.regs \in [1 .. 7 -> Int]
    BY <1>6 DEF Views
  <2>3. memory'[TdAddr(t)] = a
    <3>1. TdAddr(t) \in Address /\ TdAddr(t) # a + 2
      BY <1>3, <1>4 DEF Address
    <3> QED BY <1>0, <1>5, <3>1
  <2>4. \A i \in 0 .. 8 : i # 2 => memory'[a + i] = memory[a + i]
    <3>1. \A i \in 0 .. 8 : a + i \in Address /\ (i # 2 => a + i # a + 2)
      BY <1>3, <1>4 DEF Address
    <3> QED BY <1>5, <3>1
  <2> HIDE DEF view, new
  <2>5. memory'[a] = UsrPsr(new.flags) /\ memory'[a + 1] = new.pc
    <3>1. memory'[a + 0] = memory[a + 0] /\ memory'[a + 1] = memory[a + 1]
      BY <2>4
    <3>2. a + 0 = a
      BY <1>3, <1>4
    <3> QED BY <2>1, <2>2, <3>1, <3>2
  <2>6. \A i \in 1 .. 7 : memory'[a + 1 + i] = new.regs[i]
    <3> SUFFICES ASSUME NEW i \in 1 .. 7 PROVE memory'[a + 1 + i] = new.regs[i]
      OBVIOUS
    <3>1. CASE i = 1
      BY <1>3, <1>4, <1>5, <2>2, <3>1
    <3>2. CASE i # 1
      <4>1. i + 1 \in 0 .. 8 /\ i + 1 # 2 /\ a + (i + 1) = a + 1 + i
        BY <1>3, <1>4, <3>2
      <4> QED BY <2>1, <2>2, <2>4, <3>2, <4>1
    <3> QED BY <3>1, <3>2
  <2>7. new.regs[6] = a + 9
    BY <2>1, <2>2
  <2>8. Words(t, a + 9)' = Words(t, a + 9)
    <3> SUFFICES ASSUME NEW k \in 1 .. Room, StackTop(t) - k >= a + 9
                 PROVE  memory'[StackTop(t) - k] = memory[StackTop(t) - k]
      BY <1>3 DEF Words, StackTop
    <3>1. StackTop(t) - k \in Address /\ StackTop(t) - k # a + 2
      BY <1>3, <1>4 DEF Address
    <3> QED BY <1>5, <3>1
  <2> QED BY <1>4, <1>7, <2>1, <2>2, <2>3, <2>5, <2>6, <2>7, <2>8 DEF Saved, Framed, TdAddr, StackTop, UsrPsr
<1>11. "kernel" \notin DOMAIN INTR
  BY EntryIs
<1>12. (\A u \in Task : Saved(u))'
  <2>1. \A u \in Task : Saved(u)'
    BY <1>9, <1>10
  <2> QED BY <2>1 DEF Task
<1>13. InKernel'
  BY <1>1, <1>12 DEF SwitchInv, InKernel, Phys, KernelCode, KernelTop
<1> QED BY <1>1, <1>8, <1>11, <1>13 DEF SwitchInv, InUser, InSwitch, InEntry

LEMMA KernActivateInv ==
    ASSUME ContextSwitchAssumption, SwitchInv, NEW t \in Task, kern_activate(t) PROVE SwitchInv'
<1>1. /\ SwitchTypes /\ routine = "kernel" /\ cpsr.mode = "svc" /\ reg[Phys("sp", "svc")] = KernelTop
      /\ \A u \in Task : Saved(u)
      /\ running' = t /\ routine' = "ctx_switch" /\ pc' = 1
      /\ UNCHANGED <<cpsr, spsr, memory, left, steps>>
      /\ reg' = [p \in DOMAIN reg |->
                 CASE p = <<"r0", "all">> -> TdAddr(t)
                   [] p = <<"r4", "all">> -> 70
                   [] p = <<"lr", "svc">> -> KernelCode
                   [] p[2] = "all" /\ p[1] \notin {"r0", "r4"} -> 71
                   [] OTHER -> reg[p]]
  BY DEF kern_activate, SwitchInv, InKernel
<1>2. reg \in [Cells -> Int] /\ TdAddr(t) \in Int
  BY <1>1, StackFacts DEF SwitchTypes
<1>3. /\ Phys("r0", "svc") = <<"r0", "all">> /\ Phys("r4", "svc") = <<"r4", "all">>
      /\ Phys("lr", "svc") = <<"lr", "svc">> /\ Phys("sp", "svc") = <<"sp", "svc">>
      /\ {<<"r0", "all">>, <<"r4", "all">>, <<"lr", "svc">>, <<"sp", "svc">>} \subseteq Cells
  BY DEF Phys, Common, Cells, Modes
<1>4. reg' \in [Cells -> Int]
  <2>1. ASSUME NEW p \in Cells PROVE reg'[p] \in Int
    <3>1. reg[p] \in Int /\ KernelCode \in Int
      BY <1>2 DEF KernelCode
    <3>2. reg'[p] = CASE p = <<"r0", "all">> -> TdAddr(t)
                   [] p = <<"r4", "all">> -> 70
                   [] p = <<"lr", "svc">> -> KernelCode
                   [] p[2] = "all" /\ p[1] \notin {"r0", "r4"} -> 71
                   [] OTHER -> reg[p]
      BY <1>1, <1>2
    <3>3. reg'[p] \in {TdAddr(t), 70, KernelCode, 71, reg[p]}
      BY <3>2
    <3> QED BY <1>2, <3>1, <3>3
  <2>2. reg' = [p \in Cells |-> reg'[p]]
    BY <1>1, <1>2
  <2> QED BY <2>1, <2>2
<1>5. /\ reg'[Phys("r0", "svc")] = TdAddr(t) /\ reg'[Phys("r4", "svc")] = 70
      /\ reg'[Phys("lr", "svc")] = KernelCode /\ reg'[Phys("sp", "svc")] = KernelTop
  BY <1>1, <1>2, <1>3
<1>6a. /\ SwitchTypes /\ running' \in Task /\ routine' = "ctx_switch" /\ pc' \in Int
       /\ UNCHANGED <<cpsr, spsr, memory, left, steps>>
  BY <1>1
<1>6. SwitchTypes'
  BY <1>4, <1>6a DEF SwitchTypes, AnyMode, Modes, Address, StackTop, Task, Views, Cells, INTR
<1>7. \A u \in Task : Saved(u)'
  BY <1>1 DEF Saved, Framed, Words, TdAddr, StackTop, UsrPsr
<1>8. "ctx_switch" \notin DOMAIN INTR
  BY EntryIs
<1>9. (\A u \in Task : Saved(u))'
  BY <1>7 DEF Task
<1>10. InSwitch'
  <2> PICK a : a = memory[TdAddr(t)]
    OBVIOUS
  <2>1. a \in Int /\ memory'[TdAddr(running')] = a
    <3>1. TdAddr(t) \in Address
      <4>1. /\ TdAddr(t) \in 3 .. 2 + Tasks /\ StackTop(t) - Room - 9 >= 3 + Tasks /\ Tasks \in Nat
            /\ StackTop(t) \in Int /\ StackTop(t) <= StackTop(Tasks) /\ StackTop(Tasks) \in Int
            /\ Room \in Nat
        BY StackFacts
      <4> QED BY <4>1 DEF Address
    <3>2. memory \in [Address -> Int]
      BY <1>1 DEF SwitchTypes
    <3> QED BY <1>1, <3>1, <3>2 DEF TdAddr
  <2>2. SwitchAt(1, a)'
    BY <1>1, <1>5 DEF SwitchAt, TdAddr
  <2> QED BY <1>1, <1>9, <2>1, <2>2 DEF InSwitch, TdAddr
<1> QED BY <1>1, <1>6, <1>8, <1>10 DEF SwitchInv, InUser, InKernel, InEntry


\* Going on within ctx_switch changes nothing that is saved.
LEMMA SwitchGoesOn ==
    ASSUME ContextSwitchAssumption, SwitchInv, routine = "ctx_switch", GoesOn, cpsr' = cpsr,
           reg' \in [Cells -> Int], spsr' \in [Modes -> Int], memory' \in [Address -> Int],
           \A x \in Address : x >= 3 => memory'[x] = memory[x]
    PROVE  /\ SwitchTypes' /\ (\A t \in Task : Saved(t))' /\ cpsr'.mode = "svc"
           /\ routine' = "ctx_switch" /\ pc' = pc + 1
           /\ memory'[TdAddr(running)] = memory[TdAddr(running)]
           /\ memory[TdAddr(running)] \in Int
           /\ memory'[memory[TdAddr(running)]] = memory[memory[TdAddr(running)]]
           /\ memory'[memory[TdAddr(running)] + 1] = memory[memory[TdAddr(running)] + 1]
<1>1. /\ SwitchTypes /\ \A t \in Task : Saved(t)
      /\ cpsr.mode = "svc" /\ pc' = pc + 1 /\ routine' = routine /\ running' = running
      /\ left' = left /\ steps' = steps
  BY DEF SwitchInv, InSwitch, GoesOn
<1>2. pc' \in Int /\ running \in Task /\ memory \in [Address -> Int]
  BY <1>1 DEF SwitchTypes
<1>3. SwitchTypes'
  BY <1>1, <1>2 DEF SwitchTypes, AnyMode, Modes, Address, StackTop, Task, Views, Cells, INTR
<1>4. ASSUME NEW t \in Task
      PROVE  /\ memory'[TdAddr(t)] = memory[TdAddr(t)]
             /\ \A x \in StackTop(t) - Room - 9 .. StackTop(t) - 1 : memory'[x] = memory[x]
  <2>1. /\ TdAddr(t) \in 3 .. 2 + Tasks /\ StackTop(t) - Room - 9 >= 3 + Tasks
        /\ StackTop(t) <= StackTop(Tasks) /\ StackTop(Tasks) \in Int /\ StackTop(t) \in Int
        /\ Tasks \in Nat /\ Room \in Nat
    BY StackFacts
  <2>2. TdAddr(t) \in Address /\ TdAddr(t) >= 3
    BY <2>1 DEF Address
  <2>3. \A x \in StackTop(t) - Room - 9 .. StackTop(t) - 1 : x \in Address /\ x >= 3
    BY <2>1 DEF Address
  <2> QED BY <2>2, <2>3
<1>5. \A t \in Task : Saved(t)'
  BY <1>1, <1>4, SavedStays
<1>6. (\A t \in Task : Saved(t))'
  BY <1>5 DEF Task
<1>7. PICK a : a = memory[TdAddr(running)]
  OBVIOUS
<1>8. a \in StackTop(running) - Room - 9 .. StackTop(running) - 9
  BY <1>1, <1>2, <1>7 DEF Saved, Framed
<1>9. memory'[a] = memory[a] /\ memory'[a + 1] = memory[a + 1]
  <2>1. StackTop(running) \in Int /\ Room \in Nat
    BY <1>2, StackFacts
  <2>2. /\ a \in StackTop(running) - Room - 9 .. StackTop(running) - 1
        /\ a + 1 \in StackTop(running) - Room - 9 .. StackTop(running) - 1
    BY <1>8, <2>1
  <2> QED BY <1>2, <1>4, <2>2
<1>10. a \in Int /\ memory'[TdAddr(running)] = a
  BY <1>2, <1>4, <1>7, <1>8
<1> QED BY <1>1, <1>3, <1>6, <1>7, <1>9, <1>10

LEMMA SwitchInstruction ==
    ASSUME ContextSwitchAssumption, SwitchInv, routine = "ctx_switch", Instruction
    PROVE  SwitchInv' /\ (routine' # routine => routine' = "user" /\ View' = left[running].view)
<1>1. /\ SwitchTypes /\ cpsr.mode = "svc" /\ \A t \in Task : Saved(t)
  BY DEF SwitchInv, InSwitch
<1>2. PICK k \in 1 .. 6, a \in Int : pc = k /\ memory[TdAddr(running)] = a /\ SwitchAt(k, a)
  BY DEF SwitchInv, InSwitch
<1>3. /\ reg \in [Cells -> Int] /\ spsr \in [Modes -> Int] /\ memory \in [Address -> Int]
      /\ running \in Task
  BY <1>1 DEF SwitchTypes
<1>4. /\ StackTop(running) \in Int /\ Room \in Nat /\ Tasks \in Nat /\ StackTop(Tasks) \in Int
      /\ TdAddr(running) \in 3 .. 2 + Tasks /\ StackTop(running) - Room - 9 >= 3 + Tasks
      /\ StackTop(running) <= StackTop(Tasks)
  BY <1>3, StackFacts
<1>5. Framed(running, a)
  BY <1>1, <1>2, <1>3 DEF Saved
<1>6. a \in StackTop(running) - Room - 9 .. StackTop(running) - 9
  BY <1>5 DEF Framed
<1>7. {TdAddr(running), a, a + 1, 0, 1, 2} \subseteq Address /\ a >= 3 /\ TdAddr(running) >= 3
  BY <1>4, <1>6 DEF Address
<1>8. /\ "svc" \in AnyMode /\ "usr" \in AnyMode /\ Bank("svc") = "svc" /\ Bank("usr") = "usr"
      /\ "svc" \in Modes
      /\ \A s \in {"r0", "r1", "r3", "r4", "r12"} : s \in RegNames /\ s \in Common
      /\ \A s \in {"sp", "lr"} : s \in RegNames /\ s \notin Common
  BY DEF AnyMode, Modes, Bank, RegNames, Common
<1>9. \A s \in RegNames : Get(s) = reg[Phys(s, "svc")] /\ reg[Phys(s, "svc")] \in Int
  BY <1>1, <1>3, <1>8, PhysFacts DEF Get
<1>0. PICK i : i = Code(routine)[pc]
  OBVIOUS
<1>10. ASSUME routine' = "ctx_switch" /\ (\A t \in Task : Saved(t))' /\ cpsr'.mode = "svc" /\ SwitchTypes',
              k + 1 \in 1 .. 6, pc' = k + 1, memory'[TdAddr(running)] = a, running' = running,
              SwitchAt(k + 1, a)'
       PROVE  SwitchInv' /\ (routine' # routine => routine' = "user" /\ View' = left[running].view)
  <2>1. "ctx_switch" \notin DOMAIN INTR
    BY EntryIs
  <2>2. InSwitch'
    <3>1. memory'[TdAddr(running')] = a
      BY <1>10
    <3> QED BY <1>10, <3>1 DEF InSwitch, TdAddr
  <2> QED BY <1>10, <2>1, <2>2 DEF SwitchInv, InUser, InKernel, InEntry
<1>11. CASE k = 1
  <2>1. i = StmWb("sp", <<"r0", "r4", "lr">>)
    BY <1>0, <1>2, <1>11, SwitchCode
  <2>2. StoreMultiple(i) /\ i.base = "sp" /\ i.list = <<"r0", "r4", "lr">> /\ i.writeback
    <3>1. i.op = "stm" /\ i.base = "sp" /\ i.list = <<"r0", "r4", "lr">> /\ i.writeback
      BY <2>1 DEF StmWb
    <3> QED BY <1>0, <3>1 DEF Instruction, LoadMultiple, OneRegister, StatusOrStore, ReturnToTask
  <2> DEFINE list == <<"r0", "r4", "lr">>
  <2>3. Len(list) = 3 /\ list[1] = "r0" /\ list[2] = "r4" /\ list[3] = "lr"
    OBVIOUS
  <2> HIDE DEF list
  <2>4. /\ reg[Phys("r0", "svc")] = TdAddr(running) /\ reg[Phys("r4", "svc")] = 70
        /\ reg[Phys("lr", "svc")] = KernelCode /\ reg[Phys("sp", "svc")] = 3
    BY <1>2, <1>11 DEF SwitchAt, KernelTop
  <2>5. /\ memory' = Stored(list, 0) /\ SetReg("sp", 0) /\ GoesOn /\ UNCHANGED <<cpsr, spsr>>
    <3>1. Get("sp") - Len(list) = 0
      BY <1>8, <1>9, <2>3, <2>4
    <3> QED BY <2>2, <3>1 DEF StoreMultiple, list
  <2>6. /\ memory' \in [Address -> Int] /\ \A x \in Address : x >= 3 => memory'[x] = memory[x]
        /\ memory'[0] = TdAddr(running) /\ memory'[1] = 70 /\ memory'[2] = KernelCode
    <3>1. \A n \in 1 .. 3 : list[n] \in RegNames
      <4>1. \A n \in 1 .. 3 : n = 1 \/ n = 2 \/ n = 3
        OBVIOUS
      <4> QED BY <1>8, <2>3, <4>1
    <3>0. 3 \in Nat \ {0} /\ 0 \in Int
      OBVIOUS
    <3>2. Holds(memory', list, 3, 0)
      BY <1>1, <2>3, <2>5, <3>0, <3>1, Stores
    <3>3. 0 + 1 - 1 = 0 /\ 0 + 2 - 1 = 1 /\ 0 + 3 - 1 = 2
      OBVIOUS
    <3>4. memory'[0] = Get(list[1]) /\ memory'[1] = Get(list[2]) /\ memory'[2] = Get(list[3])
      BY <1>7, <3>2, <3>3 DEF Holds
    <3> QED BY <1>8, <1>9, <2>3, <2>4, <3>2, <3>4 DEF Address, Holds
  <2>7. /\ reg' \in [Cells -> Int] /\ reg'[Phys("sp", "svc")] = 0
        /\ reg'[Phys("r0", "svc")] = TdAddr(running)
    <3>1. /\ reg' \in [Cells -> Int] /\ reg'[Phys("sp", "svc")] = 0
          /\ OthersKept(reg', "sp", "svc")
      BY <1>1, <1>8, <2>5, SetsReg
    <3> QED BY <1>8, <2>4, <3>1 DEF OthersKept
  <2>8. running' = running /\ spsr' \in [Modes -> Int] /\ cpsr' = cpsr
    BY <1>3, <2>5 DEF GoesOn
  <2>9. SwitchAt(k + 1, a)'
    <3>1. KernelFrame'
      BY <2>6, <2>7, <2>8 DEF KernelFrame, Phys, TdAddr, KernelCode
    <3>2. TdAddr(running)' = TdAddr(running)
      BY <2>8 DEF TdAddr
    <3> QED BY <1>11, <2>7, <3>1, <3>2 DEF SwitchAt
  <2> QED BY <1>2, <1>3, <1>10, <1>11, <2>5, <2>6, <2>7, <2>8, <2>9, SwitchGoesOn
<1>12. CASE k = 2
  <2>1. i = Ldr("r12", "r0")
    BY <1>0, <1>2, <1>12, SwitchCode
  <2>2. GoesOn /\ UNCHANGED <<cpsr, spsr, memory>> /\ SetReg("r12", memory[Get("r0")])
    <3>1. i.op = "ldr" /\ i.rd = "r12" /\ i.base = "r0"
      BY <2>1 DEF Ldr
    <3> QED BY <1>0, <3>1 DEF Instruction, LoadMultiple, OneRegister, StatusOrStore, ReturnToTask
  <2>3. Get("r0") = TdAddr(running) /\ KernelFrame
    BY <1>2, <1>8, <1>9, <1>12 DEF SwitchAt
  <2>4. SetReg("r12", a)
    BY <1>2, <2>2, <2>3
  <2>5. /\ reg' \in [Cells -> Int] /\ reg'[Phys("r12", "svc")] = a /\ OthersKept(reg', "r12", "svc")
    BY <1>1, <1>8, <2>4, SetsReg
  <2>6. reg'[Phys("sp", "svc")] = reg[Phys("sp", "svc")]
    BY <1>8, <2>5 DEF OthersKept
  <2>7. running' = running /\ memory' = memory /\ cpsr' = cpsr /\ spsr' = spsr
    BY <2>2 DEF GoesOn
  <2>8. SwitchAt(k + 1, a)'
    <3>1. KernelFrame'
      BY <2>3, <2>6, <2>7 DEF KernelFrame, Phys, TdAddr, KernelCode
    <3> QED BY <1>12, <2>5, <3>1 DEF SwitchAt
  <2> QED BY <1>2, <1>3, <1>10, <1>12, <2>2, <2>5, <2>7, <2>8, SwitchGoesOn
<1>13. CASE k = 3
  <2>1. i = LdmWb("r12", <<"r3", "lr">>)
    BY <1>0, <1>2, <1>13, SwitchCode
  <2> DEFINE list == <<"r3", "lr">>
  <2>2. GoesOn /\ UNCHANGED <<cpsr, spsr, memory>>
        /\ reg' = [Loaded(list, Get("r12"), "svc") EXCEPT ![Phys("r12", "svc")] = Get("r12") + Len(list)]
    <3>1. i.op = "ldm" /\ i.base = "r12" /\ i.list = list
      BY <2>1 DEF LdmWb
    <3> HIDE DEF list
    <3> QED BY <1>0, <1>1, <3>1 DEF Instruction, LoadMultiple, OneRegister, StatusOrStore, ReturnToTask
  <2>3. Get("r12") = a /\ KernelFrame
    BY <1>2, <1>8, <1>9, <1>13 DEF SwitchAt
  <2>4. Len(list) = 2 /\ DOMAIN list = 1 .. 2 /\ list[1] = "r3" /\ list[2] = "lr"
    OBVIOUS
  <2> HIDE DEF list
  <2>5. \A n \in 1 .. 2 : n = 1 \/ n = 2
    OBVIOUS
  <2> DEFINE f == Loaded(list, a, "svc")
  <2>6. Has(f, list, 2, a, "svc")
    <3>1. \A n \in 1 .. 2 : list[n] \in RegNames
      BY <1>8, <2>4, <2>5
    <3>2. \A n, m \in 1 .. 2 : list[n] = list[m] => n = m
      BY <2>4, <2>5
    <3>3. 0 <= a /\ a + 2 - 1 <= StackTop(Tasks)
      BY <1>4, <1>6
    <3>4. 2 \in Nat \ {0}
      OBVIOUS
    <3> QED BY <1>1, <1>2, <1>4, <1>8, <2>4, <3>1, <3>2, <3>3, <3>4, Loads
  <2>7. /\ f[Phys("r3", "svc")] = memory[a] /\ f[Phys("lr", "svc")] = memory[a + 1]
        /\ f[Phys("sp", "svc")] = reg[Phys("sp", "svc")]
    <3>1. a + 1 - 1 = a /\ a + 2 - 1 = a + 1
      OBVIOUS
    <3>2. f[Phys("r3", "svc")] = memory[a] /\ f[Phys("lr", "svc")] = memory[a + 1]
      BY <2>4, <2>6, <3>1 DEF Has
    <3>3. \A n \in 1 .. 2 : "sp" # list[n]
      BY <2>4, <2>5
    <3> QED BY <1>8, <2>6, <3>2, <3>3 DEF Has
  <2> HIDE DEF f
  <2>8. reg' = [f EXCEPT ![Phys("r12", "svc")] = a + 2]
    BY <2>2, <2>3, <2>4 DEF f
  <2>9. /\ reg' \in [Cells -> Int] /\ reg'[Phys("r12", "svc")] = a + 2
        /\ reg'[Phys("r3", "svc")] = memory[a] /\ reg'[Phys("lr", "svc")] = memory[a + 1]
        /\ reg'[Phys("sp", "svc")] = reg[Phys("sp", "svc")]
    <3>1. Phys("r12", "svc") \in Cells /\ \A s \in {"r3", "lr", "sp"} :
              Phys(s, "svc") # Phys("r12", "svc")
      BY <1>8, PhysFacts
    <3> QED BY <2>6, <2>7, <2>8, <3>1 DEF Has
  <2>10. running' = running /\ memory' = memory /\ cpsr' = cpsr /\ spsr' = spsr
    BY <2>2 DEF GoesOn
  <2>11. SwitchAt(k + 1, a)'
    <3>1. KernelFrame'
      BY <2>3, <2>9, <2>10 DEF KernelFrame, Phys, TdAddr, KernelCode
    <3> QED BY <1>13, <2>9, <2>10, <3>1 DEF SwitchAt
  <2> QED BY <1>2, <1>3, <1>10, <1>13, <2>2, <2>9, <2>10, <2>11, SwitchGoesOn
<1>14. CASE k = 4
  <2>1. i = WriteSpsr("r3")
    BY <1>0, <1>2, <1>14, SwitchCode
  <2>2. GoesOn /\ UNCHANGED <<cpsr, reg, memory>> /\ spsr' = [spsr EXCEPT !["svc"] = Get("r3")]
    <3>1. i.op = "msr" /\ i.rs = "r3"
      BY <2>1 DEF WriteSpsr
    <3> QED BY <1>0, <1>1, <3>1 DEF Instruction, LoadMultiple, OneRegister, StatusOrStore, ReturnToTask
  <2>3. /\ Get("r3") = memory[a] /\ KernelFrame /\ reg[Phys("lr", "svc")] = memory[a + 1]
        /\ reg[Phys("r12", "svc")] = a + 2
    BY <1>2, <1>8, <1>9, <1>14 DEF SwitchAt
  <2>4. spsr' \in [Modes -> Int] /\ spsr'["svc"] = memory[a]
    BY <1>3, <1>7, <1>8, <2>2, <2>3
  <2>5. running' = running /\ memory' = memory /\ cpsr' = cpsr /\ reg' = reg
    BY <2>2 DEF GoesOn
  <2>6. SwitchAt(k + 1, a)'
    <3>1. KernelFrame'
      BY <2>3, <2>5 DEF KernelFrame, Phys, TdAddr, KernelCode
    <3> QED BY <1>14, <2>3, <2>4, <2>5, <3>1 DEF SwitchAt
  <2> QED BY <1>2, <1>3, <1>10, <1>14, <2>2, <2>4, <2>5, <2>6, SwitchGoesOn
<1>15. CASE k = 5
  <2>1. i = LdmUser("r12", UserRegs)
    BY <1>0, <1>2, <1>15, SwitchCode
  <2>2. GoesOn /\ UNCHANGED <<cpsr, spsr, memory>> /\ reg' = Loaded(UserRegs, Get("r12"), "usr")
    <3>1. i.op = "ldmuser" /\ i.base = "r12" /\ i.list = UserRegs
      BY <2>1 DEF LdmUser
    <3> QED BY <1>0, <1>1, <3>1 DEF Instruction, LoadMultiple, OneRegister, StatusOrStore, ReturnToTask
  <2>3. /\ Get("r12") = a + 2 /\ KernelFrame /\ reg[Phys("lr", "svc")] = memory[a + 1]
        /\ spsr["svc"] = memory[a]
    BY <1>2, <1>8, <1>9, <1>15 DEF SwitchAt
  <2>4. /\ reg' \in [Cells -> Int]
        /\ \A n \in 1 .. 7 : reg'[Phys(UserRegs[n], "usr")] = memory[(a + 2) + n - 1]
        /\ \A s \in RegNames, m \in AnyMode :
              (\A n \in 1 .. 7 : ~ (s = UserRegs[n] /\ (s \in Common \/ Bank(m) = Bank("usr"))))
              => reg'[Phys(s, m)] = reg[Phys(s, m)]
    <3>1. a + 2 \in Int /\ 0 <= a + 2 /\ (a + 2) + 7 - 1 <= StackTop(Tasks)
      BY <1>4, <1>6
    <3>2. 7 \in Nat \ {0}
      OBVIOUS
    <3>3. Has(Loaded(UserRegs, a + 2, "usr"), UserRegs, 7, a + 2, "usr")
      BY <1>1, <1>4, <1>8, <3>1, <3>2, Loads, FrameFacts
    <3> QED BY <2>2, <2>3, <3>3 DEF Has
  <2>5. \A s \in {"sp", "lr"} : reg'[Phys(s, "svc")] = reg[Phys(s, "svc")]
    BY <1>8, <2>4
  <2>6. running' = running /\ memory' = memory /\ cpsr' = cpsr /\ spsr' = spsr /\ left' = left
    BY <2>2 DEF GoesOn
  <2>7. UserIs(left[running].view)'
    <3>1. ASSUME NEW n \in 1 .. 7
          PROVE  reg'[Phys(UserRegs[n], "usr")] = left[running].view.regs[n]
      <4>1. (a + 2) + n - 1 = a + 1 + n
        OBVIOUS
      <4> QED BY <1>5, <2>4, <4>1 DEF Framed
    <3> QED BY <2>6, <3>1 DEF UserIs, Phys
  <2>8. SwitchAt(k + 1, a)'
    <3>1. KernelFrame'
      BY <2>3, <2>5, <2>6 DEF KernelFrame, Phys, TdAddr, KernelCode
    <3> QED BY <1>15, <2>3, <2>5, <2>6, <2>7, <3>1 DEF SwitchAt
  <2> QED BY <1>2, <1>3, <1>10, <1>15, <2>2, <2>4, <2>6, <2>8, SwitchGoesOn
<1>16. CASE k = 6
  <2>1. i = MovsPcLr
    BY <1>0, <1>2, <1>16, SwitchCode
  <2>2. /\ cpsr' = [mode |-> "usr", flags |-> spsr["svc"] - UsrPsr(0)] /\ pc' = Get("lr")
        /\ routine' = IF spsr["svc"] \in Psr THEN "user" ELSE "lost"
        /\ UNCHANGED <<reg, spsr, memory, running, left, steps>>
    <3>1. i.op = "movs"
      BY <2>1 DEF MovsPcLr
    <3> QED BY <1>0, <1>1, <3>1 DEF Instruction, LoadMultiple, OneRegister, StatusOrStore, ReturnToTask
  <2> DEFINE view == left[running].view
  <2>3. /\ KernelFrame /\ reg[Phys("lr", "svc")] = memory[a + 1] /\ spsr["svc"] = memory[a]
        /\ UserIs(view)
    BY <1>2, <1>16 DEF SwitchAt
  <2>4. view \in Views
    BY <1>1, <1>3 DEF SwitchTypes
  <2>5. /\ memory[a] = UsrPsr(view.flags) /\ memory[a + 1] = view.pc
        /\ view.regs[6] = a + 9 /\ view.words = Words(running, a + 9)
    BY <1>5 DEF Framed
  <2> HIDE DEF view
  <2>6. /\ routine' = "user" /\ cpsr' = [mode |-> "usr", flags |-> view.flags] /\ pc' = view.pc
        /\ view.flags \in {0, 1} /\ view.pc \in Int
    <3>1. view.flags \in {0, 1} /\ view.pc \in Int /\ view.flags - 0 = view.flags
      BY <2>4 DEF Views
    <3>2. spsr["svc"] \in Psr /\ spsr["svc"] - UsrPsr(0) = view.flags
      BY <2>3, <2>5, <3>1 DEF Psr, UsrPsr
    <3> QED BY <1>8, <1>9, <2>2, <2>3, <2>5, <3>1, <3>2
  <2>7. SwitchTypes'
    BY <1>1, <2>2, <2>6 DEF SwitchTypes, AnyMode, Modes, Address, StackTop, Task, Views, Cells, INTR
  <2>8. KernelFrame'
    BY <2>2, <2>3 DEF KernelFrame, Phys, TdAddr, KernelCode
  <2>9. OthersSaved'
    <3>1. \A t \in Task : Saved(t)'
      BY <1>1, <2>2 DEF Saved, Framed, Words, TdAddr, StackTop, UsrPsr
    <3> QED BY <2>2, <3>1 DEF OthersSaved, Task
  <2>10. \A n \in 1 .. 7 : reg[Phys(UserRegs[n], "usr")] = view.regs[n]
    BY <2>3 DEF UserIs
  <2>11. reg'[Phys("sp", "usr")] = a + 9
    BY <2>2, <2>5, <2>10, FrameFacts
  <2>12. InUser'
    <3>1. a + 9 \in StackTop(running) - Room .. StackTop(running)
      BY <1>4, <1>6
    <3>2. reg'[Phys("sp", "usr")] \in StackTop(running) - Room .. StackTop(running)
      BY <2>11, <3>1
    <3> QED BY <2>2, <2>6, <2>8, <2>9, <3>2 DEF InUser, Phys, StackTop
  <2>13. View' = view
    <3>1. View' = [regs |-> [n \in 1 .. 7 |-> reg[Phys(UserRegs[n], "usr")]], flags |-> cpsr'.flags,
                   pc |-> pc', words |-> Words(running, a + 9)]
      <4>1. /\ DOMAIN UserRegs = 1 .. 7 /\ <<"sp", "usr">> = Phys("sp", "usr")
            /\ reg[Phys("sp", "usr")] = a + 9
        BY <2>2, <2>11, FrameFacts DEF Phys, Common
      <4>2. Words(running, reg[<<"sp", "usr">>])' = Words(running, a + 9)
        BY <2>2, <4>1 DEF Words, StackTop
      <4> QED BY <2>2, <4>1, <4>2 DEF View, Phys
    <3>2. view.regs = [n \in 1 .. 7 |-> reg[Phys(UserRegs[n], "usr")]]
      <4>1. view.regs \in [1 .. 7 -> Int]
        BY <2>4 DEF Views
      <4> QED BY <2>10, <4>1
    <3>3. view = [regs |-> view.regs, flags |-> view.flags, pc |-> view.pc, words |-> view.words]
      BY <2>4 DEF Views
    <3> QED BY <2>5, <2>6, <3>1, <3>2, <3>3
  <2>14. "user" \notin DOMAIN INTR
    BY EntryIs
  <2> QED BY <2>6, <2>7, <2>12, <2>13, <2>14 DEF SwitchInv, InKernel, InSwitch, InEntry, view
<1> QED BY <1>11, <1>12, <1>13, <1>14, <1>15, <1>16

\* Going on within an entry: nothing that is saved of the others changes.
LEMMA EntryGoesOn ==
    ASSUME ContextSwitchAssumption, SwitchTypes, NEW r \in DOMAIN INTR, NEW d \in -1 .. 9,
           NEW view \in Views, routine = r, Done = d, left[running].view = view,
           r = "kern_entry_swi" => d >= 0, OthersSaved, StackIs(view), GoesOn,
           cpsr' \in [mode : AnyMode, flags : {0, 1}], reg' \in [Cells -> Int],
           spsr' \in [Modes -> Int], memory' \in [Address -> Int],
           \A x \in Address : \/ memory'[x] = memory[x] \/ x < 3 \/ x = TdAddr(running)
                              \/ x \in view.regs[6] - 9 .. view.regs[6] - 1,
           EntryAt(d + 1, r, view)'
    PROVE  SwitchInv'
<1>1. /\ routine' = r /\ pc' = pc + 1 /\ running' = running /\ left' = left /\ steps' = steps
      /\ running \in Task /\ pc \in Int /\ steps \in Nat
      /\ left \in [Task -> [kind : {0, 1, 2, 6}, view : Views]]
  BY DEF GoesOn, SwitchTypes
<1>2. SwitchTypes'
  <2>1. pc' \in Int /\ running' \in Task /\ steps' \in Nat /\ routine' \in DOMAIN INTR
    BY <1>1
  <2> QED BY <1>1, <2>1 DEF SwitchTypes, AnyMode, Modes, Address, StackTop, Task, Views, Cells, INTR
<1>3. view.regs[6] \in StackTop(running) - Room .. StackTop(running)
  BY DEF StackIs
<1>4. StackTop(running) \in Int /\ Room \in Nat /\ TdAddr(running) \in 3 .. 2 + Tasks /\ Tasks \in Nat
      /\ StackTop(running) - Room - 9 >= 3 + Tasks /\ StackTop(running) <= StackTop(Tasks)
      /\ StackTop(Tasks) \in Int
  BY <1>1, StackFacts
<1>5. OthersSaved'
  <2> SUFFICES ASSUME NEW t \in Task \ {running} PROVE Saved(t)'
    BY <1>1 DEF OthersSaved, Task
  <2>1. \A x \in Address : \/ memory'[x] = memory[x] \/ x < 3 \/ x = TdAddr(running)
                           \/ x \in StackTop(running) - Room - 9 .. StackTop(running) - 1
    <3> SUFFICES ASSUME NEW x \in Address, x \in view.regs[6] - 9 .. view.regs[6] - 1
                 PROVE  x \in StackTop(running) - Room - 9 .. StackTop(running) - 1
      OBVIOUS
    <3>1. x \in Int
      BY <1>4 DEF Address
    <3> PICK sp : sp = view.regs[6]
      OBVIOUS
    <3> QED BY <1>3, <1>4, <3>1
  <2> QED BY <1>1, <2>1, ElsewhereSaved DEF OthersSaved
<1>6. StackIs(view)'
  <2>1. Words(running, view.regs[6])' = Words(running, view.regs[6])
    <3> SUFFICES ASSUME NEW k \in 1 .. Room, StackTop(running) - k >= view.regs[6]
                 PROVE  memory'[StackTop(running) - k] = memory[StackTop(running) - k]
      BY <1>1 DEF Words, StackTop
    <3>1. /\ StackTop(running) - k \in Address /\ StackTop(running) - k >= 3 + Tasks
          /\ ~ StackTop(running) - k \in view.regs[6] - 9 .. view.regs[6] - 1
      <4> PICK sp : sp = view.regs[6]
        OBVIOUS
      <4>1. StackTop(running) - k \in 0 .. StackTop(Tasks) /\ StackTop(running) - k >= 3 + Tasks
        BY <1>4
      <4>2. ~ StackTop(running) - k \in sp - 9 .. sp - 1
        BY <1>3, <1>4
      <4> QED BY <4>1, <4>2 DEF Address
    <3>2. ~ StackTop(running) - k < 3 /\ StackTop(running) - k # TdAddr(running)
      BY <1>4, <3>1
    <3> QED BY <3>1, <3>2
  <2> QED BY <1>1, <2>1 DEF StackIs, StackTop
<1>7. /\ Done' = d + 1 /\ d + 1 \in -1 .. 10 /\ (r = "kern_entry_swi" => d + 1 >= 0)
  <2>1. First(routine)' = First(r) /\ First(r) \in Int
    BY <1>1, EntryIs DEF First
  <2>2. d = pc - First(r)
    BY DEF Done
  <2> QED BY <1>1, <2>1, <2>2 DEF Done
<1>8. left'[running'].view = view
  BY <1>1
<1>9. InEntry'
  BY <1>1, <1>5, <1>6, <1>7, <1>8 DEF InEntry, INTR, Views
<1> QED BY <1>1, <1>2, <1>9, EntryIs DEF SwitchInv, InUser, InKernel, InSwitch

LEMMA EntryInstruction ==
    ASSUME ContextSwitchAssumption, SwitchInv, routine \in DOMAIN INTR, Instruction
    PROVE  SwitchInv' /\
           (routine' # routine =>
               /\ routine' = "kernel" /\ pc' = KernelCode
               /\ reg'[<<"r4", "all">>] = 70 /\ reg'[<<"sp", "svc">>] = KernelTop
               /\ reg'[<<"r0", "all">>] = INTR[routine] /\ cpsr'.mode = "svc")
<1>1. SwitchTypes /\ OthersSaved
  BY DEF SwitchInv, InEntry
<1>2. PICK d \in -1 .. 10, r \in DOMAIN INTR, view \in Views :
          /\ Done = d /\ routine = r /\ left[running].view = view
          /\ r = "kern_entry_swi" => d >= 0
          /\ StackIs(view) /\ EntryAt(d, r, view)
  BY DEF SwitchInv, InEntry
<1> DEFINE m == EntryMode(r)
           sp == view.regs[6]
<1>0. PICK i : i = Code(r)[First(r) + d]
  OBVIOUS
<1>3. /\ reg \in [Cells -> Int] /\ spsr \in [Modes -> Int] /\ memory \in [Address -> Int]
      /\ cpsr \in [mode : AnyMode, flags : {0, 1}] /\ running \in Task /\ pc \in Int
  BY <1>1 DEF SwitchTypes
<1>4. /\ StackTop(running) \in Int /\ Room \in Nat /\ Tasks \in Nat /\ StackTop(Tasks) \in Int
      /\ TdAddr(running) \in 3 .. 2 + Tasks /\ StackTop(running) - Room - 9 >= 3 + Tasks
      /\ StackTop(running) <= StackTop(Tasks) /\ sp \in StackTop(running) - Room .. StackTop(running)
  BY <1>2, <1>3, StackFacts DEF StackIs
<1>5. /\ sp \in Int /\ sp - 9 >= 3 + Tasks
      /\ \A x \in sp - 9 .. sp - 1 : x \in Address /\ x >= 3 + Tasks
      /\ {0, 1, 2, TdAddr(running)} \subseteq Address
  BY <1>4 DEF Address
<1>6. /\ m \in Modes \ {"usr"} /\ First(r) \in 1 .. 2 /\ pc = First(r) + d
  BY <1>2, <1>3, EntryIs DEF Done
<1>7. i = Code(routine)[pc]
  BY <1>0, <1>2, <1>6
<1>8. /\ m \in AnyMode /\ {"svc", "usr", "sys"} \subseteq AnyMode /\ Bank(m) = m
      /\ Bank("svc") = "svc" /\ Bank("usr") = "usr" /\ Bank("sys") = "usr"
      /\ \A s \in {"r0", "r1", "r3", "r4", "r12"} : s \in RegNames /\ s \in Common
      /\ \A s \in {"sp", "lr"} : s \in RegNames /\ s \notin Common
  BY <1>6 DEF AnyMode, Modes, Bank, RegNames, Common
<1>9. /\ \A s \in RegNames : Phys(s, "sys") = Phys(s, "usr")
      /\ \A s \in Common, n \in AnyMode : s \in RegNames /\ Phys(s, n) = Phys(s, "usr")
      /\ \A s \in RegNames, n \in AnyMode : Phys(s, n) \in Cells /\ reg[Phys(s, n)] \in Int
  <2>1. Common \subseteq RegNames
    BY DEF RegNames
  <2> QED BY <1>3, <1>8, <2>1, PhysFacts
<1>10. \A s \in RegNames : Get(s) = reg[Phys(s, cpsr.mode)]
  BY DEF Get
<1>11. /\ view.regs \in [1 .. 7 -> Int] /\ view.pc \in Int /\ view.flags \in {0, 1}
       /\ UsrPsr(view.flags) \in Int
  BY DEF Views, UsrPsr
<1>12. r = "kern_entry_swi" => d >= 0
  BY <1>2
<1> DEFINE Goal == SwitchInv' /\
           (routine' # routine =>
               /\ routine' = "kernel" /\ pc' = KernelCode
               /\ reg'[<<"r4", "all">>] = 70 /\ reg'[<<"sp", "svc">>] = KernelTop
               /\ reg'[<<"r0", "all">>] = INTR[routine] /\ cpsr'.mode = "svc")
<1>13. ASSUME d \in -1 .. 9, GoesOn, cpsr' \in [mode : AnyMode, flags : {0, 1}], reg' \in [Cells -> Int],
              spsr' = spsr, memory' \in [Address -> Int],
              \A x \in Address : \/ memory'[x] = memory[x] \/ x = TdAddr(running)
                                 \/ x \in sp - 9 .. sp - 1,
              EntryAt(d + 1, r, view)'
       PROVE  Goal
  <2>1. routine' = routine /\ spsr' \in [Modes -> Int]
    BY <1>3, <1>13 DEF GoesOn
  <2>2. SwitchInv'
    BY <1>1, <1>2, <1>13, <2>1, EntryGoesOn
  <2> QED BY <2>1, <2>2
<1>14. ASSUME KernelFrame, reg'[Phys("sp", "svc")] = reg[Phys("sp", "svc")], running' = running,
              \A x \in 0 .. 2 : memory'[x] = memory[x]
       PROVE  KernelFrame'
  BY <1>14 DEF KernelFrame, Phys, TdAddr, KernelCode
<1>15. SUFFICES Goal
  OBVIOUS
<1> HIDE DEF Goal
\* sub lr, lr, #4
<1>20. CASE d = -1
  <2>1. i = Sub("lr", "lr", 1)
    <3>1. r # "kern_entry_swi" /\ First(r) + d = First(r) - 1
      BY <1>6, <1>12, <1>20
    <3> QED BY <1>0, <3>1, EntryCode
  <2>2. SetReg("lr", Get("lr") - 1) /\ GoesOn /\ UNCHANGED <<cpsr, spsr, memory>>
    <3>1. i.op = "sub" /\ i.rd = "lr" /\ i.rn = "lr" /\ i.value = 1
      BY <2>1 DEF Sub
    <3> QED BY <1>7, <3>1 DEF Instruction, LoadMultiple, OneRegister, StatusOrStore, ReturnToTask
  <2>3. /\ cpsr.mode = m /\ reg[Phys("sp", "usr")] = sp /\ KernelFrame /\ UserIs(view)
        /\ spsr[m] = UsrPsr(view.flags) /\ reg[Phys("lr", m)] = view.pc + 1
    BY <1>2, <1>20 DEF EntryAt
  <2>4. Get("lr") - 1 = view.pc
    <3>1. Get("lr") = view.pc + 1
      BY <1>8, <1>10, <2>3
    <3> QED BY <1>11, <3>1
  <2>5. /\ reg' \in [Cells -> Int] /\ reg'[Phys("lr", m)] = view.pc /\ OthersKept(reg', "lr", m)
    BY <1>1, <1>8, <1>11, <2>2, <2>3, <2>4, SetsReg
  <2>6. /\ reg'[Phys("sp", "svc")] = reg[Phys("sp", "svc")]
        /\ \A s \in RegNames : reg'[Phys(s, "usr")] = reg[Phys(s, "usr")]
    BY <1>6, <1>8, <2>5 DEF OthersKept
  <2>7. running' = running /\ memory' = memory /\ cpsr' = cpsr /\ spsr' = spsr
    BY <2>2 DEF GoesOn
  <2>8. EntryAt(0, r, view)'
    <3>1. KernelFrame'
      BY <1>14, <2>3, <2>6, <2>7
    <3>2. UserIs(view)'
      BY <2>3, <2>6, FrameFacts DEF UserIs, Phys
    <3>3. reg'[Phys("sp", "usr")] = sp
      BY <1>8, <2>3, <2>6
    <3> QED BY <2>3, <2>5, <2>7, <3>1, <3>2, <3>3 DEF EntryAt
  <2>9. d + 1 = 0 /\ d \in -1 .. 9
    BY <1>20
  <2>10. EntryAt(d + 1, r, view)'
    BY <2>8, <2>9
  <2> QED BY <1>3, <1>13, <2>2, <2>5, <2>7, <2>9, <2>10
\* cpsid, to the mode that has the task's registers
<1>21. CASE d = 0
  <2>1. i = Mode("sys")
    <3>1. First(r) + d = First(r)
      BY <1>6, <1>21
    <3> QED BY <1>0, <3>1, EntryCode
  <2>2. cpsr' = [cpsr EXCEPT !.mode = "sys"] /\ GoesOn /\ UNCHANGED <<reg, spsr, memory>>
    <3>1. i.op = "mode" /\ i.mode = "sys"
      BY <2>1 DEF Mode
    <3> QED BY <1>7, <3>1 DEF Instruction, LoadMultiple, OneRegister, StatusOrStore, ReturnToTask
  <2>3. /\ cpsr.mode = m /\ reg[Phys("sp", "usr")] = sp /\ KernelFrame /\ UserIs(view)
        /\ spsr[m] = UsrPsr(view.flags) /\ reg[Phys("lr", m)] = view.pc
    BY <1>2, <1>21 DEF EntryAt
  <2>4. cpsr' \in [mode : AnyMode, flags : {0, 1}] /\ cpsr'.mode = "sys"
    BY <1>3, <1>8, <2>2
  <2>5. running' = running /\ memory' = memory /\ reg' = reg /\ spsr' = spsr
    BY <2>2 DEF GoesOn
  <2>6. EntryAt(1, r, view)'
    <3>1. KernelFrame'
      BY <1>14, <2>3, <2>5
    <3>2. UserIs(view)'
      BY <2>3, <2>5 DEF UserIs, Phys
    <3> QED BY <2>3, <2>4, <2>5, <3>1, <3>2 DEF EntryAt
  <2>7. d + 1 = 1 /\ d \in -1 .. 9
    BY <1>21
  <2>8. EntryAt(d + 1, r, view)'
    BY <2>6, <2>7
  <2> QED BY <1>3, <1>13, <2>2, <2>4, <2>5, <2>7, <2>8
\* stmfd sp, {r0-r12, sp, lr}
<1>22. CASE d = 1
  <2>1. i = Stm("sp", UserRegs)
    <3>1. First(r) + d = First(r) + 1
      BY <1>22
    <3> QED BY <1>0, <3>1, EntryCode
  <2>2. /\ cpsr.mode = "sys" /\ reg[Phys("sp", "usr")] = sp /\ KernelFrame /\ UserIs(view)
        /\ spsr[m] = UsrPsr(view.flags) /\ reg[Phys("lr", m)] = view.pc
    BY <1>2, <1>22 DEF EntryAt
  <2>3. memory' = Stored(UserRegs, sp - 7) /\ GoesOn /\ UNCHANGED <<reg, cpsr, spsr>>
    <3>1. i.op = "stm" /\ i.base = "sp" /\ i.list = UserRegs /\ i.writeback = FALSE
      BY <2>1 DEF Stm
    <3>2. StoreMultiple(i)
      BY <1>7, <3>1 DEF Instruction, LoadMultiple, OneRegister, StatusOrStore, ReturnToTask
    <3>3. Get("sp") - Len(UserRegs) = sp - 7
      BY <1>8, <1>9, <1>10, <2>2, FrameFacts
    <3> QED BY <3>1, <3>2, <3>3 DEF StoreMultiple
  <2>4. Holds(memory', UserRegs, 7, sp - 7)
    <3>1. 7 \in Nat \ {0} /\ sp - 7 \in Int
      BY <1>5
    <3> QED BY <1>1, <2>3, <3>1, Stores, FrameFacts
  <2>5. /\ memory' \in [Address -> Int]
        /\ \A x \in Address : x \notin sp - 9 .. sp - 1 => memory'[x] = memory[x]
        /\ \A x \in 0 .. 2 : memory'[x] = memory[x]
    <3>1. \A x \in Address : x \in sp - 7 .. (sp - 7) + 7 - 1 => x \in sp - 9 .. sp - 1
      BY <1>5
    <3>2. \A x \in Address : x \notin sp - 9 .. sp - 1 => memory'[x] = memory[x]
      BY <2>4, <3>1 DEF Holds
    <3>3. \A x \in 0 .. 2 : x \in Address /\ x \notin sp - 9 .. sp - 1
      BY <1>4, <1>5
    <3> QED BY <2>4, <3>2, <3>3 DEF Holds
  <2>6. \A n \in 1 .. 7 : memory'[sp - 8 + n] = view.regs[n]
    <3> SUFFICES ASSUME NEW n \in 1 .. 7 PROVE memory'[sp - 8 + n] = view.regs[n]
      OBVIOUS
    <3>1. (sp - 7) + n - 1 = sp - 8 + n /\ sp - 8 + n \in sp - 9 .. sp - 1
      BY <1>5
    <3>2. memory'[sp - 8 + n] = Get(UserRegs[n])
      BY <1>5, <2>4, <3>1 DEF Holds
    <3>3. Get(UserRegs[n]) = reg[Phys(UserRegs[n], "usr")]
      BY <1>9, <1>10, <2>2, FrameFacts
    <3> QED BY <2>2, <3>2, <3>3 DEF UserIs
  <2>7. running' = running /\ cpsr' = cpsr /\ reg' = reg /\ spsr' = spsr
    BY <2>3 DEF GoesOn
  <2>8. EntryAt(2, r, view)'
    <3>1. KernelFrame'
      BY <1>14, <2>2, <2>5, <2>7
    <3> QED BY <2>2, <2>6, <2>7, <3>1 DEF EntryAt
  <2>9. d + 1 = 2 /\ d \in -1 .. 9
    BY <1>22
  <2>10. EntryAt(d + 1, r, view)'
    BY <2>8, <2>9
  <2> QED BY <1>3, <1>13, <2>3, <2>5, <2>7, <2>9, <2>10
\* sub r12, sp, #60
<1>23. CASE d = 2
  <2>1. i = Sub("r12", "sp", 7)
    <3>1. First(r) + d = First(r) + 2
      BY <1>23
    <3> QED BY <1>0, <3>1, EntryCode
  <2>2. /\ cpsr.mode = "sys" /\ reg[Phys("sp", "usr")] = sp /\ KernelFrame
        /\ spsr[m] = UsrPsr(view.flags) /\ reg[Phys("lr", m)] = view.pc
        /\ \A n \in 1 .. 7 : memory[sp - 8 + n] = view.regs[n]
    BY <1>2, <1>23 DEF EntryAt
  <2>3. SetReg("r12", sp - 7) /\ GoesOn /\ UNCHANGED <<cpsr, spsr, memory>>
    <3>1. i.op = "sub" /\ i.rd = "r12" /\ i.rn = "sp" /\ i.value = 7
      BY <2>1 DEF Sub
    <3>2. Get("sp") = sp
      BY <1>8, <1>9, <1>10, <2>2
    <3> QED BY <1>7, <3>1, <3>2 DEF Instruction, LoadMultiple, OneRegister, StatusOrStore, ReturnToTask
  <2>4. /\ reg' \in [Cells -> Int] /\ reg'[Phys("r12", "usr")] = sp - 7
        /\ \A s \in {"sp", "lr"}, n \in AnyMode : reg'[Phys(s, n)] = reg[Phys(s, n)]
    <3>1. sp - 7 \in Int
      BY <1>5
    <3>2. /\ reg' \in [Cells -> Int] /\ reg'[Phys("r12", "sys")] = sp - 7
          /\ OthersKept(reg', "r12", "sys")
      BY <1>1, <1>8, <2>2, <2>3, <3>1, SetsReg
    <3> QED BY <1>8, <1>9, <3>2 DEF OthersKept
  <2>5. running' = running /\ memory' = memory /\ cpsr' = cpsr /\ spsr' = spsr
    BY <2>3 DEF GoesOn
  <2>6. EntryAt(3, r, view)'
    <3>1. KernelFrame'
      BY <1>8, <1>14, <2>2, <2>4, <2>5
    <3>2. reg'[Phys("sp", "usr")] = sp /\ reg'[Phys("lr", m)] = view.pc
      BY <1>8, <2>2, <2>4
    <3> QED BY <2>2, <2>4, <2>5, <3>1, <3>2 DEF EntryAt
  <2>7. d + 1 = 3 /\ d \in -1 .. 9
    BY <1>23
  <2>8. EntryAt(d + 1, r, view)'
    BY <2>6, <2>7
  <2> QED BY <1>3, <1>13, <2>3, <2>4, <2>5, <2>7, <2>8
\* cpsid, back to the mode of the exception
<1>24. CASE d = 3
  <2>1. i = Mode(m)
    <3>1. First(r) + d = First(r) + 3
      BY <1>24
    <3> QED BY <1>0, <3>1, EntryCode
  <2>2. /\ reg[Phys("sp", "usr")] = sp /\ KernelFrame
        /\ spsr[m] = UsrPsr(view.flags) /\ reg[Phys("lr", m)] = view.pc
        /\ reg[Phys("r12", "usr")] = sp - 7
        /\ \A n \in 1 .. 7 : memory[sp - 8 + n] = view.regs[n]
    BY <1>2, <1>24 DEF EntryAt
  <2>3. cpsr' = [cpsr EXCEPT !.mode = m] /\ GoesOn /\ UNCHANGED <<reg, spsr, memory>>
    <3>1. i.op = "mode" /\ i.mode = m
      BY <2>1 DEF Mode
    <3> QED BY <1>7, <3>1 DEF Instruction, LoadMultiple, OneRegister, StatusOrStore, ReturnToTask
  <2>4. cpsr' \in [mode : AnyMode, flags : {0, 1}] /\ cpsr'.mode = m
    BY <1>3, <1>8, <2>3
  <2>5. running' = running /\ memory' = memory /\ reg' = reg /\ spsr' = spsr
    BY <2>3 DEF GoesOn
  <2>6. EntryAt(4, r, view)'
    <3>1. KernelFrame'
      BY <1>14, <2>2, <2>5
    <3> QED BY <2>2, <2>4, <2>5, <3>1 DEF EntryAt
  <2>7. d + 1 = 4 /\ d \in -1 .. 9
    BY <1>24
  <2>8. EntryAt(d + 1, r, view)'
    BY <2>6, <2>7
  <2> QED BY <1>3, <1>13, <2>3, <2>4, <2>5, <2>7, <2>8
\* mrs r3, spsr
<1>25. CASE d = 4
  <2>1. i = ReadSpsr("r3")
    <3>1. First(r) + d = First(r) + 4
      BY <1>25
    <3> QED BY <1>0, <3>1, EntryCode
  <2>2. /\ cpsr.mode = m /\ reg[Phys("sp", "usr")] = sp /\ KernelFrame
        /\ spsr[m] = UsrPsr(view.flags) /\ reg[Phys("lr", m)] = view.pc
        /\ reg[Phys("r12", "usr")] = sp - 7
        /\ \A n \in 1 .. 7 : memory[sp - 8 + n] = view.regs[n]
    BY <1>2, <1>25 DEF EntryAt
  <2>3. SetReg("r3", UsrPsr(view.flags)) /\ GoesOn /\ UNCHANGED <<cpsr, spsr, memory>>
    <3>1. i.op = "mrs" /\ i.rd = "r3"
      BY <2>1 DEF ReadSpsr
    <3>2. spsr[cpsr.mode] = UsrPsr(view.flags)
      BY <2>2
    <3> QED BY <1>7, <3>1, <3>2 DEF Instruction, LoadMultiple, OneRegister, StatusOrStore, ReturnToTask
  <2>4. /\ reg' \in [Cells -> Int] /\ reg'[Phys("r3", "usr")] = UsrPsr(view.flags)
        /\ reg'[Phys("r12", "usr")] = reg[Phys("r12", "usr")]
        /\ \A s \in {"sp", "lr"}, n \in AnyMode : reg'[Phys(s, n)] = reg[Phys(s, n)]
    <3>1. /\ reg' \in [Cells -> Int] /\ reg'[Phys("r3", m)] = UsrPsr(view.flags)
          /\ OthersKept(reg', "r3", m)
      BY <1>1, <1>8, <1>11, <2>2, <2>3, SetsReg
    <3> QED BY <1>8, <1>9, <3>1 DEF OthersKept
  <2>5. running' = running /\ memory' = memory /\ cpsr' = cpsr /\ spsr' = spsr
    BY <2>3 DEF GoesOn
  <2>6. EntryAt(5, r, view)'
    <3>1. KernelFrame'
      BY <1>8, <1>14, <2>2, <2>4, <2>5
    <3>2. reg'[Phys("sp", "usr")] = sp /\ reg'[Phys("lr", m)] = view.pc
      BY <1>8, <2>2, <2>4
    <3> QED BY <2>2, <2>4, <2>5, <3>1, <3>2 DEF EntryAt
  <2>7. d + 1 = 5 /\ d \in -1 .. 9
    BY <1>25
  <2>8. EntryAt(d + 1, r, view)'
    BY <2>6, <2>7
  <2> QED BY <1>3, <1>13, <2>3, <2>4, <2>5, <2>7, <2>8
\* stmfd r12!, {r3, lr}
<1>26. CASE d = 5
  <2>1. i = StmWb("r12", <<"r3", "lr">>)
    <3>1. First(r) + d = First(r) + 5
      BY <1>26
    <3> QED BY <1>0, <3>1, EntryCode
  <2>2. /\ cpsr.mode = m /\ reg[Phys("sp", "usr")] = sp /\ KernelFrame
        /\ reg[Phys("lr", m)] = view.pc
        /\ reg[Phys("r12", "usr")] = sp - 7 /\ reg[Phys("r3", "usr")] = UsrPsr(view.flags)
        /\ \A n \in 1 .. 7 : memory[sp - 8 + n] = view.regs[n]
    BY <1>2, <1>26 DEF EntryAt
  <2> DEFINE list == <<"r3", "lr">>
  <2>3. Len(list) = 2 /\ list[1] = "r3" /\ list[2] = "lr"
    OBVIOUS
  <2>4. memory' = Stored(list, sp - 9) /\ SetReg("r12", sp - 9) /\ GoesOn /\ UNCHANGED <<cpsr, spsr>>
    <3>1. i.op = "stm" /\ i.base = "r12" /\ i.list = list /\ i.writeback = TRUE
      BY <2>1 DEF StmWb
    <3> HIDE DEF list
    <3>2. StoreMultiple(i)
      BY <1>7, <3>1 DEF Instruction, LoadMultiple, OneRegister, StatusOrStore, ReturnToTask
    <3>3. Get("r12") - Len(list) = sp - 9
      <4>1. Get("r12") = sp - 7
        BY <1>8, <1>9, <1>10, <2>2
      <4> QED BY <1>5, <2>3, <4>1
    <3> QED BY <3>1, <3>2, <3>3 DEF StoreMultiple
  <2> HIDE DEF list
  <2>5. Holds(memory', list, 2, sp - 9)
    <3>1. 2 \in Nat \ {0} /\ sp - 9 \in Int
      BY <1>5
    <3>2. \A n \in 1 .. 2 : list[n] \in RegNames
      <4>1. \A n \in 1 .. 2 : n = 1 \/ n = 2
        OBVIOUS
      <4> QED BY <1>8, <2>3, <4>1
    <3> QED BY <1>1, <2>3, <2>4, <3>1, <3>2, Stores
  <2>6. /\ memory' \in [Address -> Int]
        /\ \A x \in Address : x \notin sp - 9 .. sp - 8 => memory'[x] = memory[x]
        /\ \A x \in 0 .. 2 : memory'[x] = memory[x]
    <3>1. \A x \in Address : x \notin sp - 9 .. sp - 8 => x \notin sp - 9 .. (sp - 9) + 2 - 1
      BY <1>5
    <3>2. \A x \in 0 .. 2 : x \in Address /\ x \notin sp - 9 .. (sp - 9) + 2 - 1
      BY <1>4, <1>5
    <3> QED BY <2>5, <3>1, <3>2 DEF Holds
  <2>7. memory'[sp - 9] = UsrPsr(view.flags) /\ memory'[sp - 8] = view.pc
    <3>1. (sp - 9) + 1 - 1 = sp - 9 /\ (sp - 9) + 2 - 1 = sp - 8
      BY <1>5
    <3>2. sp - 9 \in Address /\ sp - 8 \in Address
      BY <1>5
    <3>3. memory'[sp - 9] = Get("r3") /\ memory'[sp - 8] = Get("lr")
      BY <2>3, <2>5, <3>1, <3>2 DEF Holds
    <3> QED BY <1>8, <1>9, <1>10, <2>2, <3>3
  <2>8. \A n \in 1 .. 7 : memory'[sp - 8 + n] = view.regs[n]
    <3> SUFFICES ASSUME NEW n \in 1 .. 7 PROVE memory'[sp - 8 + n] = memory[sp - 8 + n]
      BY <2>2
    <3>1. sp - 8 + n \in sp - 9 .. sp - 1 /\ sp - 8 + n \notin sp - 9 .. sp - 8
      BY <1>5
    <3>2. sp - 8 + n \in Address
      BY <1>5, <3>1
    <3> QED BY <2>6, <3>1, <3>2
  <2>9. /\ reg' \in [Cells -> Int] /\ reg'[Phys("r12", "usr")] = sp - 9
        /\ \A s \in {"sp", "lr"}, n \in AnyMode : reg'[Phys(s, n)] = reg[Phys(s, n)]
    <3>1. sp - 9 \in Int
      BY <1>5
    <3>2. /\ reg' \in [Cells -> Int] /\ reg'[Phys("r12", m)] = sp - 9 /\ OthersKept(reg', "r12", m)
      BY <1>1, <1>8, <2>2, <2>4, <3>1, SetsReg
    <3> QED BY <1>8, <1>9, <3>2 DEF OthersKept
  <2>10. running' = running /\ cpsr' = cpsr /\ spsr' = spsr
    BY <2>4 DEF GoesOn
  <2>11. EntryAt(6, r, view)'
    <3>1. KernelFrame'
      BY <1>8, <1>14, <2>2, <2>6, <2>9, <2>10
    <3>2. reg'[Phys("sp", "usr")] = sp
      BY <1>8, <2>2, <2>9
    <3> QED BY <2>2, <2>7, <2>8, <2>9, <2>10, <3>1, <3>2 DEF EntryAt
  <2>12. d + 1 = 6 /\ d \in -1 .. 9
    BY <1>26
  <2>13. EntryAt(d + 1, r, view)'
    BY <2>11, <2>12
  <2>14. \A x \in Address : memory'[x] = memory[x] \/ x \in sp - 9 .. sp - 1
    <3>1. \A x \in Address : x \in sp - 9 .. sp - 8 => x \in sp - 9 .. sp - 1
      BY <1>5
    <3> QED BY <2>6, <3>1
  <2> QED BY <1>3, <1>13, <2>4, <2>6, <2>9, <2>10, <2>12, <2>13, <2>14
\* cpsid, to the kernel's mode
<1>27. CASE d = 6
  <2>1. i = Mode("svc")
    <3>1. First(r) + d = First(r) + 6
      BY <1>27
    <3> QED BY <1>0, <3>1, EntryCode
  <2>2. /\ reg[Phys("sp", "usr")] = sp /\ KernelFrame /\ reg[Phys("r12", "usr")] = sp - 9
        /\ memory[sp - 9] = UsrPsr(view.flags) /\ memory[sp - 8] = view.pc
        /\ \A n \in 1 .. 7 : memory[sp - 8 + n] = view.regs[n]
    BY <1>2, <1>27 DEF EntryAt
  <2>3. cpsr' = [cpsr EXCEPT !.mode = "svc"] /\ GoesOn /\ UNCHANGED <<reg, spsr, memory>>
    <3>1. i.op = "mode" /\ i.mode = "svc"
      BY <2>1 DEF Mode
    <3> QED BY <1>7, <3>1 DEF Instruction, LoadMultiple, OneRegister, StatusOrStore, ReturnToTask
  <2>4. cpsr' \in [mode : AnyMode, flags : {0, 1}] /\ cpsr'.mode = "svc"
    BY <1>3, <1>8, <2>3
  <2>5. running' = running /\ memory' = memory /\ reg' = reg /\ spsr' = spsr
    BY <2>3 DEF GoesOn
  <2>6. EntryAt(7, r, view)'
    <3>1. KernelFrame'
      BY <1>14, <2>2, <2>5
    <3> QED BY <2>2, <2>4, <2>5, <3>1 DEF EntryAt
  <2>7. d + 1 = 7 /\ d \in -1 .. 9
    BY <1>27
  <2>8. EntryAt(d + 1, r, view)'
    BY <2>6, <2>7
  <2> QED BY <1>3, <1>13, <2>3, <2>4, <2>5, <2>7, <2>8
\* pop {r0}, the task that ctx_switch was called for
<1>28. CASE d = 7
  <2>1. i = Pop("r0", "sp")
    <3>1. First(r) + d = First(r) + 7
      BY <1>28
    <3> QED BY <1>0, <3>1, EntryCode
  <2>2. /\ cpsr.mode = "svc" /\ reg[Phys("sp", "usr")] = sp /\ KernelFrame
        /\ reg[Phys("r12", "usr")] = sp - 9
        /\ memory[sp - 9] = UsrPsr(view.flags) /\ memory[sp - 8] = view.pc
        /\ \A n \in 1 .. 7 : memory[sp - 8 + n] = view.regs[n]
    BY <1>2, <1>28 DEF EntryAt
  <2> DEFINE list == <<"r0">>
             f == Loaded(list, 0, "svc")
  <2>3. /\ memory[0] = TdAddr(running) /\ memory[1] = 70 /\ memory[2] = KernelCode
        /\ reg[Phys("sp", "svc")] = 0
    BY <2>2 DEF KernelFrame
  <2>4. Len(list) = 1 /\ DOMAIN list = 1 .. 1 /\ list[1] = "r0"
    OBVIOUS
  <2>5. reg' = [f EXCEPT ![Phys("sp", "svc")] = @ + 1] /\ GoesOn /\ UNCHANGED <<cpsr, spsr, memory>>
    <3>1. i.op = "pop" /\ i.rd = "r0" /\ i.base = "sp"
      BY <2>1 DEF Pop
    <3>2. Get("sp") = 0
      BY <1>8, <1>10, <2>2, <2>3
    <3> QED BY <1>7, <2>2, <3>1, <3>2 DEF Instruction, LoadMultiple, OneRegister, StatusOrStore, ReturnToTask
  <2> HIDE DEF list
  <2>6. Has(f, list, 1, 0, "svc")
    <3>1. 1 \in Nat \ {0} /\ 0 \in Int /\ 0 <= 0
      OBVIOUS
    <3>2. 0 + 1 - 1 <= StackTop(Tasks)
      BY <1>4
    <3>3. \A n \in 1 .. 1 : n = 1
      OBVIOUS
    <3>4. (\A n \in 1 .. 1 : list[n] \in RegNames) /\ (\A n, k \in 1 .. 1 : list[n] = list[k] => n = k)
      BY <1>8, <2>4, <3>3
    <3> QED BY <1>1, <1>4, <1>8, <2>4, <3>1, <3>2, <3>4, Loads
  <2> HIDE DEF f
  <2>7. /\ f \in [Cells -> Int] /\ f[Phys("r0", "svc")] = TdAddr(running)
        /\ \A s \in {"r12", "sp", "lr"}, n \in AnyMode : f[Phys(s, n)] = reg[Phys(s, n)]
    <3>1. 1 \in 1 .. 1 /\ 0 + 1 - 1 = 0 /\ \A n \in 1 .. 1 : n = 1
      OBVIOUS
    <3>2. f[Phys("r0", "svc")] = memory[0]
      BY <2>4, <2>6, <3>1 DEF Has
    <3>3. \A s \in {"r12", "sp", "lr"} : s \in RegNames /\ \A n \in 1 .. 1 : s # list[n]
      BY <1>8, <2>4, <3>1
    <3> QED BY <2>3, <2>6, <3>2, <3>3 DEF Has
  <2>8. /\ reg' \in [Cells -> Int] /\ reg'[Phys("sp", "svc")] = 1
        /\ reg'[Phys("r0", "usr")] = TdAddr(running) /\ reg'[Phys("r12", "usr")] = sp - 9
        /\ reg'[Phys("sp", "usr")] = sp
    <3>1. /\ Phys("sp", "svc") \in Cells /\ Phys("r0", "usr") \in Cells
          /\ Phys("r12", "usr") \in Cells /\ Phys("sp", "usr") \in Cells
          /\ Phys("r0", "usr") # Phys("sp", "svc") /\ Phys("r12", "usr") # Phys("sp", "svc")
          /\ Phys("sp", "usr") # Phys("sp", "svc") /\ Phys("r0", "svc") = Phys("r0", "usr")
      BY <1>8, <1>9, PhysFacts
    <3>2. f[Phys("sp", "svc")] = 0 /\ f[Phys("sp", "usr")] = sp /\ f[Phys("r12", "usr")] = sp - 9
      BY <1>8, <2>2, <2>3, <2>7
    <3> QED BY <2>5, <2>7, <3>1, <3>2
  <2>9. running' = running /\ memory' = memory /\ cpsr' = cpsr /\ spsr' = spsr
    BY <2>5 DEF GoesOn
  <2>10. EntryAt(8, r, view)'
    <3>1. TdAddr(running)' = TdAddr(running) /\ KernelCode' = KernelCode
      BY <2>9 DEF TdAddr, KernelCode
    <3> QED BY <2>2, <2>3, <2>8, <2>9, <3>1 DEF EntryAt
  <2>11. d + 1 = 8 /\ d \in -1 .. 9
    BY <1>28
  <2>12. EntryAt(d + 1, r, view)'
    BY <2>10, <2>11
  <2> QED BY <1>3, <1>13, <2>5, <2>8, <2>9, <2>11, <2>12
\* str r12, [r0]
<1>29. CASE d = 8
  <2>1. i = Str("r12", "r0")
    <3>1. First(r) + d = First(r) + 8
      BY <1>29
    <3> QED BY <1>0, <3>1, EntryCode
  <2>2. /\ cpsr.mode = "svc" /\ reg[Phys("sp", "usr")] = sp /\ reg[Phys("sp", "svc")] = 1
        /\ memory[1] = 70 /\ memory[2] = KernelCode
        /\ reg[Phys("r12", "usr")] = sp - 9 /\ reg[Phys("r0", "usr")] = TdAddr(running)
        /\ memory[sp - 9] = UsrPsr(view.flags) /\ memory[sp - 8] = view.pc
        /\ \A n \in 1 .. 7 : memory[sp - 8 + n] = view.regs[n]
    BY <1>2, <1>29 DEF EntryAt
  <2>3. memory' = [memory EXCEPT ![TdAddr(running)] = sp - 9] /\ GoesOn /\ UNCHANGED <<reg, cpsr, spsr>>
    <3>1. i.op = "str" /\ i.base = "r0" /\ i.rs = "r12"
      BY <2>1 DEF Str
    <3>2. Get("r0") = TdAddr(running) /\ Get("r12") = sp - 9
      BY <1>8, <1>9, <1>10, <2>2
    <3> QED BY <1>7, <3>1, <3>2 DEF Instruction, LoadMultiple, OneRegister, StatusOrStore, ReturnToTask
  <2>4. /\ memory' \in [Address -> Int] /\ memory'[TdAddr(running)] = sp - 9
        /\ \A x \in Address : x # TdAddr(running) => memory'[x] = memory[x]
    <3>1. sp - 9 \in Int
      BY <1>5
    <3> QED BY <1>3, <1>5, <2>3, <3>1
  <2>5. /\ \A x \in sp - 9 .. StackTop(Tasks) : memory'[x] = memory[x]
        /\ memory'[1] = memory[1] /\ memory'[2] = memory[2]
    <3>1. \A x \in sp - 9 .. StackTop(Tasks) : x \in Address /\ x # TdAddr(running)
      BY <1>4, <1>5 DEF Address
    <3>2. TdAddr(running) # 1 /\ TdAddr(running) # 2
      BY <1>4
    <3> QED BY <1>5, <2>4, <3>1, <3>2
  <2>6. running' = running /\ cpsr' = cpsr /\ reg' = reg /\ spsr' = spsr /\ left' = left
    BY <2>3 DEF GoesOn
  <2>7. Framed(running, sp - 9)'
    <3>1. sp - 9 \in StackTop(running) - Room - 9 .. StackTop(running) - 9
      BY <1>4
    <3>2. memory'[sp - 9] = UsrPsr(view.flags) /\ memory'[(sp - 9) + 1] = view.pc
      <4>1. sp - 9 \in sp - 9 .. StackTop(Tasks) /\ sp - 8 \in sp - 9 .. StackTop(Tasks) /\ (sp - 9) + 1 = sp - 8
        BY <1>4
      <4> QED BY <2>2, <2>5, <4>1
    <3>3. \A n \in 1 .. 7 : memory'[(sp - 9) + 1 + n] = view.regs[n]
      <4> SUFFICES ASSUME NEW n \in 1 .. 7 PROVE memory'[(sp - 9) + 1 + n] = view.regs[n]
        OBVIOUS
      <4>1. (sp - 9) + 1 + n = sp - 8 + n /\ sp - 8 + n \in sp - 9 .. StackTop(Tasks)
        BY <1>4
      <4> QED BY <2>2, <2>5, <4>1
    <3>4. sp = (sp - 9) + 9
      BY <1>5
    <3>5. view.words = Words(running, (sp - 9) + 9)'
      <4>1. view.words = Words(running, sp)
        BY <1>2 DEF StackIs
      <4>2. Words(running, sp)' = Words(running, sp)
        <5> SUFFICES ASSUME NEW k \in 1 .. Room, StackTop(running) - k >= sp
                     PROVE  memory'[StackTop(running) - k] = memory[StackTop(running) - k]
          BY <2>6 DEF Words, StackTop
        <5>1. StackTop(running) - k \in sp - 9 .. StackTop(Tasks)
          BY <1>4
        <5> QED BY <2>5, <5>1
      <4> QED BY <3>4, <4>1, <4>2
    <3>6. left'[running'].view = view /\ running' = running
      BY <1>2, <2>6
    <3> QED BY <3>1, <3>2, <3>3, <3>4, <3>5, <3>6 DEF Framed, StackTop, UsrPsr
  <2>8. Saved(running)'
    <3>1. memory'[TdAddr(running')] = sp - 9
      BY <2>4, <2>6
    <3> QED BY <2>7, <3>1 DEF Saved, Framed, TdAddr, Words, StackTop, UsrPsr
  <2>9. EntryAt(9, r, view)'
    BY <2>2, <2>5, <2>6, <2>8 DEF EntryAt, KernelCode
  <2>10. d + 1 = 9 /\ d \in -1 .. 9
    BY <1>29
  <2>11. EntryAt(d + 1, r, view)'
    BY <2>9, <2>10
  <2> QED BY <1>3, <1>13, <2>3, <2>4, <2>6, <2>10, <2>11
\* mov r0, #code
<1>30. CASE d = 9
  <2>1. i = Mov("r0", INTR[r])
    <3>1. First(r) + d = First(r) + 9
      BY <1>30
    <3> QED BY <1>0, <3>1, EntryCode
  <2>2. /\ cpsr.mode = "svc" /\ reg[Phys("sp", "usr")] = sp /\ reg[Phys("sp", "svc")] = 1
        /\ memory[1] = 70 /\ memory[2] = KernelCode /\ Saved(running)
    BY <1>2, <1>30 DEF EntryAt
  <2>3. SetReg("r0", INTR[r]) /\ GoesOn /\ UNCHANGED <<cpsr, spsr, memory>>
    <3>1. i.op = "mov" /\ i.rd = "r0" /\ i.value = INTR[r]
      BY <2>1 DEF Mov
    <3> QED BY <1>7, <3>1 DEF Instruction, LoadMultiple, OneRegister, StatusOrStore, ReturnToTask
  <2>4. /\ reg' \in [Cells -> Int] /\ reg'[Phys("r0", "usr")] = INTR[r]
        /\ \A s \in {"sp", "lr"}, n \in AnyMode : reg'[Phys(s, n)] = reg[Phys(s, n)]
    <3>1. INTR[r] \in Int
      BY EntryIs
    <3>2. /\ reg' \in [Cells -> Int] /\ reg'[Phys("r0", "svc")] = INTR[r]
          /\ OthersKept(reg', "r0", "svc")
      BY <1>1, <1>8, <2>2, <2>3, <3>1, SetsReg
    <3> QED BY <1>8, <1>9, <3>2 DEF OthersKept
  <2>5. running' = running /\ memory' = memory /\ cpsr' = cpsr /\ spsr' = spsr /\ left' = left
    BY <2>3 DEF GoesOn
  <2>6. EntryAt(10, r, view)'
    <3>1. Saved(running)'
      BY <2>2, <2>5 DEF Saved, Framed, TdAddr, Words, StackTop, UsrPsr
    <3>2. reg'[Phys("sp", "usr")] = sp /\ reg'[Phys("sp", "svc")] = 1
      BY <1>8, <2>2, <2>4
    <3> QED BY <2>2, <2>4, <2>5, <3>1, <3>2 DEF EntryAt, KernelCode
  <2>7. d + 1 = 10 /\ d \in -1 .. 9
    BY <1>30
  <2>8. EntryAt(d + 1, r, view)'
    BY <2>6, <2>7
  <2> QED BY <1>3, <1>13, <2>3, <2>4, <2>5, <2>7, <2>8
\* ldmfd sp!, {r4-r11, pc}
<1>31. CASE d = 10
  <2>1. i = LdmPc("sp", <<"r4">>)
    <3>1. First(r) + d = First(r) + 10
      BY <1>31
    <3> QED BY <1>0, <3>1, EntryCode
  <2>2. /\ cpsr.mode = "svc" /\ reg[Phys("sp", "svc")] = 1
        /\ memory[1] = 70 /\ memory[2] = KernelCode /\ Saved(running)
        /\ reg[Phys("r0", "usr")] = INTR[r]
    BY <1>2, <1>31 DEF EntryAt
  <2> DEFINE list == <<"r4">>
             f == Loaded(list, 1, "svc")
  <2>3. Len(list) = 1 /\ DOMAIN list = 1 .. 1 /\ list[1] = "r4"
    OBVIOUS
  <2>4. /\ reg' = [f EXCEPT ![Phys("sp", "svc")] = 3] /\ routine' = "kernel" /\ pc' = memory[2]
        /\ UNCHANGED <<running, left, steps, cpsr, spsr, memory>>
    <3>1. i.op = "ldmpc" /\ i.base = "sp" /\ i.list = list
      BY <2>1 DEF LdmPc
    <3> HIDE DEF list
    <3>2. Get("sp") = 1 /\ Get("sp") + Len(list) = 2 /\ 2 + 1 = 3
      BY <1>8, <1>10, <2>2, <2>3
    <3> QED BY <1>7, <2>2, <3>1, <3>2 DEF Instruction, LoadMultiple, OneRegister, StatusOrStore, ReturnToTask
  <2> HIDE DEF list
  <2>5. Has(f, list, 1, 1, "svc")
    <3>1. 1 \in Nat \ {0} /\ 1 \in Int /\ 0 <= 1
      OBVIOUS
    <3>2. 1 + 1 - 1 <= StackTop(Tasks)
      BY <1>4
    <3>3. \A n \in 1 .. 1 : n = 1
      OBVIOUS
    <3>4. (\A n \in 1 .. 1 : list[n] \in RegNames) /\ (\A n, k \in 1 .. 1 : list[n] = list[k] => n = k)
      BY <1>8, <2>3, <3>3
    <3> QED BY <1>1, <1>4, <1>8, <2>3, <3>1, <3>2, <3>4, Loads
  <2> HIDE DEF f
  <2>6. /\ f \in [Cells -> Int] /\ f[Phys("r4", "svc")] = 70 /\ f[Phys("r0", "svc")] = INTR[r]
    <3>1. 1 \in 1 .. 1 /\ 1 + 1 - 1 = 1 /\ \A n \in 1 .. 1 : n = 1
      OBVIOUS
    <3>2. f[Phys("r4", "svc")] = memory[1]
      BY <2>3, <2>5, <3>1 DEF Has
    <3>3. \A n \in 1 .. 1 : "r0" # list[n]
      BY <2>3, <3>1
    <3>4. f[Phys("r0", "svc")] = reg[Phys("r0", "svc")]
      BY <1>8, <2>5, <3>3 DEF Has
    <3> QED BY <1>8, <1>9, <2>2, <2>5, <3>2, <3>4 DEF Has
  <2>7. /\ reg' \in [Cells -> Int] /\ reg'[Phys("sp", "svc")] = 3
        /\ reg'[Phys("r0", "svc")] = INTR[r] /\ reg'[Phys("r4", "svc")] = 70
    <3>1. /\ Phys("sp", "svc") \in Cells /\ Phys("r0", "svc") \in Cells /\ Phys("r4", "svc") \in Cells
          /\ Phys("r0", "svc") # Phys("sp", "svc") /\ Phys("r4", "svc") # Phys("sp", "svc")
      BY <1>8, <1>9, PhysFacts
    <3> QED BY <2>4, <2>6, <3>1
  <2>8. SwitchTypes'
    <3>1. pc' \in Int /\ routine' \in {"kernel"}
      BY <2>2, <2>4 DEF KernelCode
    <3> QED BY <1>1, <2>4, <2>7, <3>1
        DEF SwitchTypes, AnyMode, Modes, Address, StackTop, Task, Views, Cells, INTR
  <2>9. (\A t \in Task : Saved(t))'
    <3>1. \A t \in Task : Saved(t)
      BY <1>1, <2>2 DEF OthersSaved
    <3>2. \A t \in Task : Saved(t)'
      BY <2>4, <3>1 DEF Saved, Framed, Words, TdAddr, StackTop, UsrPsr
    <3> QED BY <3>2 DEF Task
  <2>10. InKernel'
    BY <2>2, <2>4, <2>7, <2>9 DEF InKernel, Phys, KernelCode, KernelTop
  <2>11. SwitchInv'
    BY <2>4, <2>8, <2>10, EntryIs DEF SwitchInv, InUser, InSwitch, InEntry
  <2>12. /\ reg'[<<"r4", "all">>] = 70 /\ reg'[<<"sp", "svc">>] = KernelTop
         /\ reg'[<<"r0", "all">>] = INTR[r] /\ pc' = KernelCode /\ cpsr'.mode = "svc"
    <3>1. /\ Phys("r4", "svc") = <<"r4", "all">> /\ Phys("r0", "svc") = <<"r0", "all">>
          /\ Phys("sp", "svc") = <<"sp", "svc">>
      BY DEF Phys, Common
    <3> QED BY <2>2, <2>4, <2>7, <3>1 DEF KernelTop
  <2> QED BY <1>2, <2>4, <2>11, <2>12 DEF Goal
<1> QED BY <1>20, <1>21, <1>22, <1>23, <1>24, <1>25, <1>26, <1>27, <1>28, <1>29, <1>30, <1>31

LEMMA SwitchInvStep ==
    ASSUME ContextSwitchAssumption, SwitchInv, [CsNext]_csVars PROVE SwitchInv' /\ SwitchPreserves
<1>1. CASE Instruction /\ routine = "ctx_switch"
  BY <1>1, SwitchInstruction, EntryIs DEF SwitchPreserves
<1>2. CASE Instruction /\ routine \in DOMAIN INTR
  BY <1>2, EntryInstruction, EntryIs DEF SwitchPreserves
<1>3. CASE Compute \/ CallKernel \/ WrapperReturns \/ Trap
  <2>1. routine = "user"
    BY <1>3 DEF Compute, CallKernel, WrapperReturns, Trap, Own
  <2> QED BY <1>3, <2>1, ComputeInv, CallKernelInv, WrapperReturnsInv, TrapInv, EntryIs DEF SwitchPreserves
<1>4. CASE \E t \in Task : SetResult(t) \/ kern_activate(t)
  <2>1. routine = "kernel"
    BY <1>4 DEF SetResult, kern_activate
  <2> QED BY <1>4, <2>1, SetResultInv, KernActivateInv, EntryIs DEF SwitchPreserves
<1>5. CASE UNCHANGED csVars
  <2>1. /\ reg' = reg /\ cpsr' = cpsr /\ spsr' = spsr /\ memory' = memory /\ routine' = routine
        /\ pc' = pc /\ running' = running /\ left' = left /\ steps' = steps
    BY <1>5 DEF csVars
  <2>2. SwitchTypes'
    BY <2>1 DEF SwitchInv, SwitchTypes, AnyMode, Modes, Address, StackTop, Task, Views, Cells, INTR
  <2>3. \A t \in Task : Saved(t) => Saved(t)'
    BY <2>1 DEF Saved, Framed, Words, TdAddr, StackTop, UsrPsr
  <2>4. (KernelFrame => KernelFrame') /\ (OthersSaved => OthersSaved')
    <3>1. KernelFrame => KernelFrame'
      BY <2>1 DEF KernelFrame, Phys, TdAddr, KernelCode
    <3>2. OthersSaved => OthersSaved'
      BY <2>1, <2>3 DEF OthersSaved, Task
    <3> QED BY <3>1, <3>2
  <2>5. InUser'
    BY <2>1, <2>4 DEF SwitchInv, InUser, Phys, StackTop
  <2>6. InKernel'
    BY <2>1, <2>3 DEF SwitchInv, InKernel, Phys, KernelTop, KernelCode, Task
  <2>7. \A v \in Views : (UserIs(v) => UserIs(v)') /\ (StackIs(v) => StackIs(v)')
    BY <2>1 DEF UserIs, StackIs, Words, Phys, StackTop
  <2>8. InSwitch'
    <3> SUFFICES ASSUME routine = "ctx_switch" PROVE InSwitch'
      BY <2>1 DEF InSwitch
    <3>1. PICK k \in 1 .. 6, a \in Int : pc = k /\ memory[TdAddr(running)] = a /\ SwitchAt(k, a)
      BY DEF SwitchInv, InSwitch
    <3>3. UserIs(left[running].view) => UserIs(left[running].view)'
      BY <2>1 DEF UserIs, Phys
    <3>4. SwitchAt(k, a)'
      BY <2>1, <2>4, <3>1, <3>3 DEF SwitchAt, TdAddr, KernelCode, KernelTop
    <3>5. (\A t \in Task : Saved(t))' /\ cpsr'.mode = "svc"
      BY <2>1, <2>3 DEF SwitchInv, InSwitch, Task
    <3>6. pc' = k /\ memory'[TdAddr(running')] = a
      BY <2>1, <3>1
    <3> QED BY <3>4, <3>5, <3>6 DEF InSwitch, TdAddr
  <2>9. InEntry'
    <3> SUFFICES ASSUME routine \in DOMAIN INTR PROVE InEntry'
      BY <2>1 DEF InEntry, INTR
    <3>1. PICK d \in -1 .. 10, r \in DOMAIN INTR, view \in Views :
              /\ Done = d /\ routine = r /\ left[running].view = view
              /\ r = "kern_entry_swi" => d >= 0
              /\ StackIs(view) /\ EntryAt(d, r, view)
      BY DEF SwitchInv, InEntry
    <3>2. Saved(running) => Saved(running)'
      BY <2>1 DEF Saved, Framed, Words, TdAddr, StackTop, UsrPsr
    <3>3. EntryAt(d, r, view)'
      <4>1. TdAddr(running)' = TdAddr(running) /\ KernelCode' = KernelCode
        BY <2>1 DEF TdAddr, KernelCode
      <4> QED BY <2>1, <2>4, <2>7, <3>1, <3>2, <4>1 DEF EntryAt
    <3>4. Done' = d
      BY <2>1, <3>1 DEF Done, First
    <3>5. OthersSaved' /\ StackIs(view)' /\ routine' = r /\ left'[running'].view = view
      BY <2>1, <2>4, <2>7, <3>1 DEF SwitchInv, InEntry
    <3> QED BY <3>1, <3>3, <3>4, <3>5 DEF InEntry, INTR, Views
  <2>10. SwitchInv'
    BY <2>2, <2>5, <2>6, <2>8, <2>9 DEF SwitchInv
  <2> QED BY <2>1, <2>10 DEF SwitchPreserves
<1> QED BY <1>1, <1>2, <1>3, <1>4, <1>5 DEF CsNext, Instruction

\* A task that is switched to goes on as it was left, and the kernel as it was
\* when it called ctx_switch, whatever happens in between.
THEOREM TasksGoOnAsLeft == ASSUME ContextSwitchAssumption PROVE CsSpec => RegistersPreserved
<1>1. CsInit => SwitchInv
  BY CsInitInv
<1>2. SwitchInv /\ [CsNext]_csVars => SwitchInv'
  BY SwitchInvStep
<1>3. SwitchInv /\ [CsNext]_csVars => [SwitchPreserves]_csVars
  BY SwitchInvStep
<1> QED BY <1>1, <1>2, <1>3, PTL DEF CsSpec, RegistersPreserved

-----------------------------------------------------------------------------
(* Numbers *)

IsMagnitude(n) == n \in Nat /\ n <= IntMax

\* What is left of n at the place k, from there up and below, and the digit there
Upper(n, b, k) == n \div Powers(b)[k]
Lower(n, b, k) == n % Powers(b)[k]
Digit(n, b, k) == Upper(n, b, k) % b

NumPlaces(b) == IF b = 10 THEN 10 ELSE 8

LEMMA TenPowers ==
    /\ Len(Powers(10)) = 10
    /\ Powers(10)[1] = 1
    /\ Powers(10)[2] = 10
    /\ Powers(10)[3] = 100
    /\ Powers(10)[4] = 1000
    /\ Powers(10)[5] = 10000
    /\ Powers(10)[6] = 100000
    /\ Powers(10)[7] = 1000000
    /\ Powers(10)[8] = 10000000
    /\ Powers(10)[9] = 100000000
    /\ Powers(10)[10] = 1000000000
<1>1. Powers(10) = <<1, 10, 100, 1000, 10000, 100000, 1000000, 10000000, 100000000, 1000000000>>
  BY SMT DEF Powers, PowersOf10
<1> QED BY <1>1, SMT

LEMMA SixteenPowers ==
    /\ Len(Powers(16)) = 8
    /\ Powers(16)[1] = 1
    /\ Powers(16)[2] = 16
    /\ Powers(16)[3] = 256
    /\ Powers(16)[4] = 4096
    /\ Powers(16)[5] = 65536
    /\ Powers(16)[6] = 1048576
    /\ Powers(16)[7] = 16777216
    /\ Powers(16)[8] = 268435456
<1>1. Powers(16) = <<1, 16, 256, 4096, 65536, 1048576, 16777216, 268435456>>
  BY SMT DEF Powers, PowersOf16
<1> QED BY <1>1, SMT

\* What one place has to do with the next, for a power p of the base b
Neighbours(n, b, k) ==
    /\ Powers(b)[k + 1] = Powers(b)[k] * b
    /\ Powers(b)[k + 1] \div b = Powers(b)[k]
    /\ Lower(n, b, k + 1) \div Powers(b)[k] = Digit(n, b, k)
    /\ Lower(n, b, k + 1) % Powers(b)[k] = Lower(n, b, k)
    /\ Upper(n, b, k) = Upper(n, b, k + 1) * b + Digit(n, b, k)
    /\ Upper(n, b, k) \div b = Upper(n, b, k + 1)

LEMMA PlaceNext ==
    ASSUME NEW n, IsMagnitude(n), NEW b \in {10, 16}, NEW k \in 1 .. NumPlaces(b) - 1
    PROVE  Neighbours(n, b, k)
<1>0. n \in Nat
  BY SMT DEF IsMagnitude
<1>1. CASE b = 10 /\ k = 1
  <2>1. Powers(b)[k] = 1 /\ Powers(b)[k + 1] = 10
    BY <1>1, TenPowers
  <2> QED BY <2>1, <1>0, <1>1, SMT DEF Neighbours, Upper, Lower, Digit
<1>2. CASE b = 10 /\ k = 2
  <2>1. Powers(b)[k] = 10 /\ Powers(b)[k + 1] = 100
    BY <1>2, TenPowers
  <2> QED BY <2>1, <1>0, <1>2, SMT DEF Neighbours, Upper, Lower, Digit
<1>3. CASE b = 10 /\ k = 3
  <2>1. Powers(b)[k] = 100 /\ Powers(b)[k + 1] = 1000
    BY <1>3, TenPowers
  <2> QED BY <2>1, <1>0, <1>3, SMT DEF Neighbours, Upper, Lower, Digit
<1>4. CASE b = 10 /\ k = 4
  <2>1. Powers(b)[k] = 1000 /\ Powers(b)[k + 1] = 10000
    BY <1>4, TenPowers
  <2> QED BY <2>1, <1>0, <1>4, SMT DEF Neighbours, Upper, Lower, Digit
<1>5. CASE b = 10 /\ k = 5
  <2>1. Powers(b)[k] = 10000 /\ Powers(b)[k + 1] = 100000
    BY <1>5, TenPowers
  <2> QED BY <2>1, <1>0, <1>5, SMT DEF Neighbours, Upper, Lower, Digit
<1>6. CASE b = 10 /\ k = 6
  <2>1. Powers(b)[k] = 100000 /\ Powers(b)[k + 1] = 1000000
    BY <1>6, TenPowers
  <2> QED BY <2>1, <1>0, <1>6, SMT DEF Neighbours, Upper, Lower, Digit
<1>7. CASE b = 10 /\ k = 7
  <2>1. Powers(b)[k] = 1000000 /\ Powers(b)[k + 1] = 10000000
    BY <1>7, TenPowers
  <2> QED BY <2>1, <1>0, <1>7, SMT DEF Neighbours, Upper, Lower, Digit
<1>8. CASE b = 10 /\ k = 8
  <2>1. Powers(b)[k] = 10000000 /\ Powers(b)[k + 1] = 100000000
    BY <1>8, TenPowers
  <2> QED BY <2>1, <1>0, <1>8, SMT DEF Neighbours, Upper, Lower, Digit
<1>9. CASE b = 10 /\ k = 9
  <2>1. Powers(b)[k] = 100000000 /\ Powers(b)[k + 1] = 1000000000
    BY <1>9, TenPowers
  <2> QED BY <2>1, <1>0, <1>9, SMT DEF Neighbours, Upper, Lower, Digit
<1>10. CASE b = 16 /\ k = 1
  <2>1. Powers(b)[k] = 1 /\ Powers(b)[k + 1] = 16
    BY <1>10, SixteenPowers
  <2> QED BY <2>1, <1>0, <1>10, SMT DEF Neighbours, Upper, Lower, Digit
<1>11. CASE b = 16 /\ k = 2
  <2>1. Powers(b)[k] = 16 /\ Powers(b)[k + 1] = 256
    BY <1>11, SixteenPowers
  <2> QED BY <2>1, <1>0, <1>11, SMT DEF Neighbours, Upper, Lower, Digit
<1>12. CASE b = 16 /\ k = 3
  <2>1. Powers(b)[k] = 256 /\ Powers(b)[k + 1] = 4096
    BY <1>12, SixteenPowers
  <2> QED BY <2>1, <1>0, <1>12, SMT DEF Neighbours, Upper, Lower, Digit
<1>13. CASE b = 16 /\ k = 4
  <2>1. Powers(b)[k] = 4096 /\ Powers(b)[k + 1] = 65536
    BY <1>13, SixteenPowers
  <2> QED BY <2>1, <1>0, <1>13, SMT DEF Neighbours, Upper, Lower, Digit
<1>14. CASE b = 16 /\ k = 5
  <2>1. Powers(b)[k] = 65536 /\ Powers(b)[k + 1] = 1048576
    BY <1>14, SixteenPowers
  <2> QED BY <2>1, <1>0, <1>14, SMT DEF Neighbours, Upper, Lower, Digit
<1>15. CASE b = 16 /\ k = 6
  <2>1. Powers(b)[k] = 1048576 /\ Powers(b)[k + 1] = 16777216
    BY <1>15, SixteenPowers
  <2> QED BY <2>1, <1>0, <1>15, SMT DEF Neighbours, Upper, Lower, Digit
<1>16. CASE b = 16 /\ k = 7
  <2>1. Powers(b)[k] = 16777216 /\ Powers(b)[k + 1] = 268435456
    BY <1>16, SixteenPowers
  <2> QED BY <2>1, <1>0, <1>16, SMT DEF Neighbours, Upper, Lower, Digit
<1> QED BY <1>1, <1>2, <1>3, <1>4, <1>5, <1>6, <1>7, <1>8, <1>9, <1>10, <1>11, <1>12, <1>13, <1>14, <1>15, <1>16, SMT DEF NumPlaces

\* The bounds of the table
LEMMA PlaceBounds ==
    ASSUME NEW b \in {10, 16}, NEW k \in 1 .. NumPlaces(b)
    PROVE  /\ Powers(b)[k] \in Nat \ {0} /\ Powers(b)[k] <= IntMax /\ Len(Powers(b)) = NumPlaces(b) /\ Powers(b)[1] = 1
           /\ \A j \in 1 .. k - 1 : Powers(b)[j] * b <= Powers(b)[k]
           /\ Powers(b)[NumPlaces(b)] * b > IntMax
<1>1. CASE b = 10 /\ k = 1
  BY <1>1, TenPowers, SMT DEF NumPlaces, IntMax
<1>2. CASE b = 10 /\ k = 2
  BY <1>2, TenPowers, SMT DEF NumPlaces, IntMax
<1>3. CASE b = 10 /\ k = 3
  BY <1>3, TenPowers, SMT DEF NumPlaces, IntMax
<1>4. CASE b = 10 /\ k = 4
  BY <1>4, TenPowers, SMT DEF NumPlaces, IntMax
<1>5. CASE b = 10 /\ k = 5
  BY <1>5, TenPowers, SMT DEF NumPlaces, IntMax
<1>6. CASE b = 10 /\ k = 6
  BY <1>6, TenPowers, SMT DEF NumPlaces, IntMax
<1>7. CASE b = 10 /\ k = 7
  BY <1>7, TenPowers, SMT DEF NumPlaces, IntMax
<1>8. CASE b = 10 /\ k = 8
  BY <1>8, TenPowers, SMT DEF NumPlaces, IntMax
<1>9. CASE b = 10 /\ k = 9
  BY <1>9, TenPowers, SMT DEF NumPlaces, IntMax
<1>10. CASE b = 10 /\ k = 10
  BY <1>10, TenPowers, SMT DEF NumPlaces, IntMax
<1>11. CASE b = 16 /\ k = 1
  BY <1>11, SixteenPowers, SMT DEF NumPlaces, IntMax
<1>12. CASE b = 16 /\ k = 2
  BY <1>12, SixteenPowers, SMT DEF NumPlaces, IntMax
<1>13. CASE b = 16 /\ k = 3
  BY <1>13, SixteenPowers, SMT DEF NumPlaces, IntMax
<1>14. CASE b = 16 /\ k = 4
  BY <1>14, SixteenPowers, SMT DEF NumPlaces, IntMax
<1>15. CASE b = 16 /\ k = 5
  BY <1>15, SixteenPowers, SMT DEF NumPlaces, IntMax
<1>16. CASE b = 16 /\ k = 6
  BY <1>16, SixteenPowers, SMT DEF NumPlaces, IntMax
<1>17. CASE b = 16 /\ k = 7
  BY <1>17, SixteenPowers, SMT DEF NumPlaces, IntMax
<1>18. CASE b = 16 /\ k = 8
  BY <1>18, SixteenPowers, SMT DEF NumPlaces, IntMax
<1> QED BY <1>1, <1>2, <1>3, <1>4, <1>5, <1>6, <1>7, <1>8, <1>9, <1>10, <1>11, <1>12, <1>13, <1>14, <1>15, <1>16, <1>17, <1>18, SMT DEF NumPlaces

LEMMA PlaceValues ==
    ASSUME NEW n, IsMagnitude(n), NEW b \in {10, 16}, NEW k \in 1 .. NumPlaces(b)
    PROVE  /\ Upper(n, b, k) \in Nat /\ Upper(n, b, k) <= n /\ Lower(n, b, k) \in Nat /\ Digit(n, b, k) \in Nat /\ Digit(n, b, k) < b
           /\ Upper(n, b, k) > 0 <=> Powers(b)[k] <= n
           /\ Upper(n, b, k) < b <=> n < Powers(b)[k] * b
           /\ Upper(n, b, 1) = n
           /\ Upper(n, b, NumPlaces(b)) < b
           /\ Upper(n, b, k) < b => Digit(n, b, k) = Upper(n, b, k)
<1>0. n \in Nat
  BY SMT DEF IsMagnitude
<1>1. CASE b = 10 /\ k = 1
  <2>1. Powers(b)[k] = 1 /\ Powers(b)[1] = 1 /\ Powers(b)[NumPlaces(b)] = 1000000000 /\ NumPlaces(b) = 10
    BY <1>1, TenPowers, SMT DEF NumPlaces
  <2> QED BY <2>1, <1>0, <1>1, SMT DEF Upper, Lower, Digit, IntMax, IsMagnitude
<1>2. CASE b = 10 /\ k = 2
  <2>1. Powers(b)[k] = 10 /\ Powers(b)[1] = 1 /\ Powers(b)[NumPlaces(b)] = 1000000000 /\ NumPlaces(b) = 10
    BY <1>2, TenPowers, SMT DEF NumPlaces
  <2> QED BY <2>1, <1>0, <1>2, SMT DEF Upper, Lower, Digit, IntMax, IsMagnitude
<1>3. CASE b = 10 /\ k = 3
  <2>1. Powers(b)[k] = 100 /\ Powers(b)[1] = 1 /\ Powers(b)[NumPlaces(b)] = 1000000000 /\ NumPlaces(b) = 10
    BY <1>3, TenPowers, SMT DEF NumPlaces
  <2> QED BY <2>1, <1>0, <1>3, SMT DEF Upper, Lower, Digit, IntMax, IsMagnitude
<1>4. CASE b = 10 /\ k = 4
  <2>1. Powers(b)[k] = 1000 /\ Powers(b)[1] = 1 /\ Powers(b)[NumPlaces(b)] = 1000000000 /\ NumPlaces(b) = 10
    BY <1>4, TenPowers, SMT DEF NumPlaces
  <2> QED BY <2>1, <1>0, <1>4, SMT DEF Upper, Lower, Digit, IntMax, IsMagnitude
<1>5. CASE b = 10 /\ k = 5
  <2>1. Powers(b)[k] = 10000 /\ Powers(b)[1] = 1 /\ Powers(b)[NumPlaces(b)] = 1000000000 /\ NumPlaces(b) = 10
    BY <1>5, TenPowers, SMT DEF NumPlaces
  <2> QED BY <2>1, <1>0, <1>5, SMT DEF Upper, Lower, Digit, IntMax, IsMagnitude
<1>6. CASE b = 10 /\ k = 6
  <2>1. Powers(b)[k] = 100000 /\ Powers(b)[1] = 1 /\ Powers(b)[NumPlaces(b)] = 1000000000 /\ NumPlaces(b) = 10
    BY <1>6, TenPowers, SMT DEF NumPlaces
  <2> QED BY <2>1, <1>0, <1>6, SMT DEF Upper, Lower, Digit, IntMax, IsMagnitude
<1>7. CASE b = 10 /\ k = 7
  <2>1. Powers(b)[k] = 1000000 /\ Powers(b)[1] = 1 /\ Powers(b)[NumPlaces(b)] = 1000000000 /\ NumPlaces(b) = 10
    BY <1>7, TenPowers, SMT DEF NumPlaces
  <2> QED BY <2>1, <1>0, <1>7, SMT DEF Upper, Lower, Digit, IntMax, IsMagnitude
<1>8. CASE b = 10 /\ k = 8
  <2>1. Powers(b)[k] = 10000000 /\ Powers(b)[1] = 1 /\ Powers(b)[NumPlaces(b)] = 1000000000 /\ NumPlaces(b) = 10
    BY <1>8, TenPowers, SMT DEF NumPlaces
  <2> QED BY <2>1, <1>0, <1>8, SMT DEF Upper, Lower, Digit, IntMax, IsMagnitude
<1>9. CASE b = 10 /\ k = 9
  <2>1. Powers(b)[k] = 100000000 /\ Powers(b)[1] = 1 /\ Powers(b)[NumPlaces(b)] = 1000000000 /\ NumPlaces(b) = 10
    BY <1>9, TenPowers, SMT DEF NumPlaces
  <2> QED BY <2>1, <1>0, <1>9, SMT DEF Upper, Lower, Digit, IntMax, IsMagnitude
<1>10. CASE b = 10 /\ k = 10
  <2>1. Powers(b)[k] = 1000000000 /\ Powers(b)[1] = 1 /\ Powers(b)[NumPlaces(b)] = 1000000000 /\ NumPlaces(b) = 10
    BY <1>10, TenPowers, SMT DEF NumPlaces
  <2> QED BY <2>1, <1>0, <1>10, SMT DEF Upper, Lower, Digit, IntMax, IsMagnitude
<1>11. CASE b = 16 /\ k = 1
  <2>1. Powers(b)[k] = 1 /\ Powers(b)[1] = 1 /\ Powers(b)[NumPlaces(b)] = 268435456 /\ NumPlaces(b) = 8
    BY <1>11, SixteenPowers, SMT DEF NumPlaces
  <2> QED BY <2>1, <1>0, <1>11, SMT DEF Upper, Lower, Digit, IntMax, IsMagnitude
<1>12. CASE b = 16 /\ k = 2
  <2>1. Powers(b)[k] = 16 /\ Powers(b)[1] = 1 /\ Powers(b)[NumPlaces(b)] = 268435456 /\ NumPlaces(b) = 8
    BY <1>12, SixteenPowers, SMT DEF NumPlaces
  <2> QED BY <2>1, <1>0, <1>12, SMT DEF Upper, Lower, Digit, IntMax, IsMagnitude
<1>13. CASE b = 16 /\ k = 3
  <2>1. Powers(b)[k] = 256 /\ Powers(b)[1] = 1 /\ Powers(b)[NumPlaces(b)] = 268435456 /\ NumPlaces(b) = 8
    BY <1>13, SixteenPowers, SMT DEF NumPlaces
  <2> QED BY <2>1, <1>0, <1>13, SMT DEF Upper, Lower, Digit, IntMax, IsMagnitude
<1>14. CASE b = 16 /\ k = 4
  <2>1. Powers(b)[k] = 4096 /\ Powers(b)[1] = 1 /\ Powers(b)[NumPlaces(b)] = 268435456 /\ NumPlaces(b) = 8
    BY <1>14, SixteenPowers, SMT DEF NumPlaces
  <2> QED BY <2>1, <1>0, <1>14, SMT DEF Upper, Lower, Digit, IntMax, IsMagnitude
<1>15. CASE b = 16 /\ k = 5
  <2>1. Powers(b)[k] = 65536 /\ Powers(b)[1] = 1 /\ Powers(b)[NumPlaces(b)] = 268435456 /\ NumPlaces(b) = 8
    BY <1>15, SixteenPowers, SMT DEF NumPlaces
  <2> QED BY <2>1, <1>0, <1>15, SMT DEF Upper, Lower, Digit, IntMax, IsMagnitude
<1>16. CASE b = 16 /\ k = 6
  <2>1. Powers(b)[k] = 1048576 /\ Powers(b)[1] = 1 /\ Powers(b)[NumPlaces(b)] = 268435456 /\ NumPlaces(b) = 8
    BY <1>16, SixteenPowers, SMT DEF NumPlaces
  <2> QED BY <2>1, <1>0, <1>16, SMT DEF Upper, Lower, Digit, IntMax, IsMagnitude
<1>17. CASE b = 16 /\ k = 7
  <2>1. Powers(b)[k] = 16777216 /\ Powers(b)[1] = 1 /\ Powers(b)[NumPlaces(b)] = 268435456 /\ NumPlaces(b) = 8
    BY <1>17, SixteenPowers, SMT DEF NumPlaces
  <2> QED BY <2>1, <1>0, <1>17, SMT DEF Upper, Lower, Digit, IntMax, IsMagnitude
<1>18. CASE b = 16 /\ k = 8
  <2>1. Powers(b)[k] = 268435456 /\ Powers(b)[1] = 1 /\ Powers(b)[NumPlaces(b)] = 268435456 /\ NumPlaces(b) = 8
    BY <1>18, SixteenPowers, SMT DEF NumPlaces
  <2> QED BY <2>1, <1>0, <1>18, SMT DEF Upper, Lower, Digit, IntMax, IsMagnitude
<1> QED BY <1>1, <1>2, <1>3, <1>4, <1>5, <1>6, <1>7, <1>8, <1>9, <1>10, <1>11, <1>12, <1>13, <1>14, <1>15, <1>16, <1>17, <1>18, SMT DEF NumPlaces

-----------------------------------------------------------------------------
(* Trailing zeros *)

LEMMA TwoPowers ==
    /\ Len(PowersOf2) = 31
    /\ PowersOf2[1] = 1
    /\ PowersOf2[2] = 2
    /\ PowersOf2[3] = 4
    /\ PowersOf2[4] = 8
    /\ PowersOf2[5] = 16
    /\ PowersOf2[6] = 32
    /\ PowersOf2[7] = 64
    /\ PowersOf2[8] = 128
    /\ PowersOf2[9] = 256
    /\ PowersOf2[10] = 512
    /\ PowersOf2[11] = 1024
    /\ PowersOf2[12] = 2048
    /\ PowersOf2[13] = 4096
    /\ PowersOf2[14] = 8192
    /\ PowersOf2[15] = 16384
    /\ PowersOf2[16] = 32768
    /\ PowersOf2[17] = 65536
    /\ PowersOf2[18] = 131072
    /\ PowersOf2[19] = 262144
    /\ PowersOf2[20] = 524288
    /\ PowersOf2[21] = 1048576
    /\ PowersOf2[22] = 2097152
    /\ PowersOf2[23] = 4194304
    /\ PowersOf2[24] = 8388608
    /\ PowersOf2[25] = 16777216
    /\ PowersOf2[26] = 33554432
    /\ PowersOf2[27] = 67108864
    /\ PowersOf2[28] = 134217728
    /\ PowersOf2[29] = 268435456
    /\ PowersOf2[30] = 536870912
    /\ PowersOf2[31] = 1073741824
BY SMT DEF PowersOf2

\* n ends in s zeros, and then in the two bits of m that are not both 0.
EndsIn(n, m, s) ==
    /\ n \in Nat /\ n <= IntMax /\ m \in Nat /\ m % 4 # 0
    /\ s \in {0, 2, 4, 6, 8, 10, 12, 14, 16, 18, 20, 22, 24, 26, 28, 30} /\ n = m * PowersOf2[s + 1]

\* The lowest bit of n that is 1 has the number c.
LowestBit(n, c) == n % PowersOf2[c + 1] = 0 /\ (n \div PowersOf2[c + 1]) % 2 = 1

LEMMA LastBits ==
    ASSUME NEW n, NEW m, NEW s, EndsIn(n, m, s)
    PROVE  LowestBit(n, s + 1 - (m % 2))
<1> DEFINE c == s + 1 - (m % 2)
<1>0. /\ n \in Nat /\ n <= IntMax /\ m \in Nat /\ m % 4 # 0
      /\ s \in {0, 2, 4, 6, 8, 10, 12, 14, 16, 18, 20, 22, 24, 26, 28, 30} /\ n = m * PowersOf2[s + 1]
  BY DEF EndsIn
<1> SUFFICES n % PowersOf2[c + 1] = 0 /\ (n \div PowersOf2[c + 1]) % 2 = 1
  BY DEF LowestBit
<1>1. CASE s = 0
  <2>1. PowersOf2[s + 1] = 1 /\ PowersOf2[s + 2] = 2
    BY <1>1, TwoPowers, SMT
  <2>2. CASE m % 2 = 1
    <3>1. c = s
      BY <1>0, <2>2, <1>1, SMT
    <3> QED BY <1>0, <2>1, <2>2, <3>1, <1>1, SMT
  <2>3. CASE m % 2 = 0
    <3>1. c = s + 1
      BY <1>0, <2>3, <1>1, SMT
    <3> QED BY <1>0, <2>1, <2>3, <3>1, <1>1, SMT
  <2> QED BY <1>0, <2>2, <2>3, SMT
<1>2. CASE s = 2
  <2>1. PowersOf2[s + 1] = 4 /\ PowersOf2[s + 2] = 8
    BY <1>2, TwoPowers, SMT
  <2>2. CASE m % 2 = 1
    <3>1. c = s
      BY <1>0, <2>2, <1>2, SMT
    <3> QED BY <1>0, <2>1, <2>2, <3>1, <1>2, SMT
  <2>3. CASE m % 2 = 0
    <3>1. c = s + 1
      BY <1>0, <2>3, <1>2, SMT
    <3> QED BY <1>0, <2>1, <2>3, <3>1, <1>2, SMT
  <2> QED BY <1>0, <2>2, <2>3, SMT
<1>3. CASE s = 4
  <2>1. PowersOf2[s + 1] = 16 /\ PowersOf2[s + 2] = 32
    BY <1>3, TwoPowers, SMT
  <2>2. CASE m % 2 = 1
    <3>1. c = s
      BY <1>0, <2>2, <1>3, SMT
    <3> QED BY <1>0, <2>1, <2>2, <3>1, <1>3, SMT
  <2>3. CASE m % 2 = 0
    <3>1. c = s + 1
      BY <1>0, <2>3, <1>3, SMT
    <3> QED BY <1>0, <2>1, <2>3, <3>1, <1>3, SMT
  <2> QED BY <1>0, <2>2, <2>3, SMT
<1>4. CASE s = 6
  <2>1. PowersOf2[s + 1] = 64 /\ PowersOf2[s + 2] = 128
    BY <1>4, TwoPowers, SMT
  <2>2. CASE m % 2 = 1
    <3>1. c = s
      BY <1>0, <2>2, <1>4, SMT
    <3> QED BY <1>0, <2>1, <2>2, <3>1, <1>4, SMT
  <2>3. CASE m % 2 = 0
    <3>1. c = s + 1
      BY <1>0, <2>3, <1>4, SMT
    <3> QED BY <1>0, <2>1, <2>3, <3>1, <1>4, SMT
  <2> QED BY <1>0, <2>2, <2>3, SMT
<1>5. CASE s = 8
  <2>1. PowersOf2[s + 1] = 256 /\ PowersOf2[s + 2] = 512
    BY <1>5, TwoPowers, SMT
  <2>2. CASE m % 2 = 1
    <3>1. c = s
      BY <1>0, <2>2, <1>5, SMT
    <3> QED BY <1>0, <2>1, <2>2, <3>1, <1>5, SMT
  <2>3. CASE m % 2 = 0
    <3>1. c = s + 1
      BY <1>0, <2>3, <1>5, SMT
    <3> QED BY <1>0, <2>1, <2>3, <3>1, <1>5, SMT
  <2> QED BY <1>0, <2>2, <2>3, SMT
<1>6. CASE s = 10
  <2>1. PowersOf2[s + 1] = 1024 /\ PowersOf2[s + 2] = 2048
    BY <1>6, TwoPowers, SMT
  <2>2. CASE m % 2 = 1
    <3>1. c = s
      BY <1>0, <2>2, <1>6, SMT
    <3> QED BY <1>0, <2>1, <2>2, <3>1, <1>6, SMT
  <2>3. CASE m % 2 = 0
    <3>1. c = s + 1
      BY <1>0, <2>3, <1>6, SMT
    <3> QED BY <1>0, <2>1, <2>3, <3>1, <1>6, SMT
  <2> QED BY <1>0, <2>2, <2>3, SMT
<1>7. CASE s = 12
  <2>1. PowersOf2[s + 1] = 4096 /\ PowersOf2[s + 2] = 8192
    BY <1>7, TwoPowers, SMT
  <2>2. CASE m % 2 = 1
    <3>1. c = s
      BY <1>0, <2>2, <1>7, SMT
    <3> QED BY <1>0, <2>1, <2>2, <3>1, <1>7, SMT
  <2>3. CASE m % 2 = 0
    <3>1. c = s + 1
      BY <1>0, <2>3, <1>7, SMT
    <3> QED BY <1>0, <2>1, <2>3, <3>1, <1>7, SMT
  <2> QED BY <1>0, <2>2, <2>3, SMT
<1>8. CASE s = 14
  <2>1. PowersOf2[s + 1] = 16384 /\ PowersOf2[s + 2] = 32768
    BY <1>8, TwoPowers, SMT
  <2>2. CASE m % 2 = 1
    <3>1. c = s
      BY <1>0, <2>2, <1>8, SMT
    <3> QED BY <1>0, <2>1, <2>2, <3>1, <1>8, SMT
  <2>3. CASE m % 2 = 0
    <3>1. c = s + 1
      BY <1>0, <2>3, <1>8, SMT
    <3> QED BY <1>0, <2>1, <2>3, <3>1, <1>8, SMT
  <2> QED BY <1>0, <2>2, <2>3, SMT
<1>9. CASE s = 16
  <2>1. PowersOf2[s + 1] = 65536 /\ PowersOf2[s + 2] = 131072
    BY <1>9, TwoPowers, SMT
  <2>2. CASE m % 2 = 1
    <3>1. c = s
      BY <1>0, <2>2, <1>9, SMT
    <3> QED BY <1>0, <2>1, <2>2, <3>1, <1>9, SMT
  <2>3. CASE m % 2 = 0
    <3>1. c = s + 1
      BY <1>0, <2>3, <1>9, SMT
    <3> QED BY <1>0, <2>1, <2>3, <3>1, <1>9, SMT
  <2> QED BY <1>0, <2>2, <2>3, SMT
<1>10. CASE s = 18
  <2>1. PowersOf2[s + 1] = 262144 /\ PowersOf2[s + 2] = 524288
    BY <1>10, TwoPowers, SMT
  <2>2. CASE m % 2 = 1
    <3>1. c = s
      BY <1>0, <2>2, <1>10, SMT
    <3> QED BY <1>0, <2>1, <2>2, <3>1, <1>10, SMT
  <2>3. CASE m % 2 = 0
    <3>1. c = s + 1
      BY <1>0, <2>3, <1>10, SMT
    <3> QED BY <1>0, <2>1, <2>3, <3>1, <1>10, SMT
  <2> QED BY <1>0, <2>2, <2>3, SMT
<1>11. CASE s = 20
  <2>1. PowersOf2[s + 1] = 1048576 /\ PowersOf2[s + 2] = 2097152
    BY <1>11, TwoPowers, SMT
  <2>2. CASE m % 2 = 1
    <3>1. c = s
      BY <1>0, <2>2, <1>11, SMT
    <3> QED BY <1>0, <2>1, <2>2, <3>1, <1>11, SMT
  <2>3. CASE m % 2 = 0
    <3>1. c = s + 1
      BY <1>0, <2>3, <1>11, SMT
    <3> QED BY <1>0, <2>1, <2>3, <3>1, <1>11, SMT
  <2> QED BY <1>0, <2>2, <2>3, SMT
<1>12. CASE s = 22
  <2>1. PowersOf2[s + 1] = 4194304 /\ PowersOf2[s + 2] = 8388608
    BY <1>12, TwoPowers, SMT
  <2>2. CASE m % 2 = 1
    <3>1. c = s
      BY <1>0, <2>2, <1>12, SMT
    <3> QED BY <1>0, <2>1, <2>2, <3>1, <1>12, SMT
  <2>3. CASE m % 2 = 0
    <3>1. c = s + 1
      BY <1>0, <2>3, <1>12, SMT
    <3> QED BY <1>0, <2>1, <2>3, <3>1, <1>12, SMT
  <2> QED BY <1>0, <2>2, <2>3, SMT
<1>13. CASE s = 24
  <2>1. PowersOf2[s + 1] = 16777216 /\ PowersOf2[s + 2] = 33554432
    BY <1>13, TwoPowers, SMT
  <2>2. CASE m % 2 = 1
    <3>1. c = s
      BY <1>0, <2>2, <1>13, SMT
    <3> QED BY <1>0, <2>1, <2>2, <3>1, <1>13, SMT
  <2>3. CASE m % 2 = 0
    <3>1. c = s + 1
      BY <1>0, <2>3, <1>13, SMT
    <3> QED BY <1>0, <2>1, <2>3, <3>1, <1>13, SMT
  <2> QED BY <1>0, <2>2, <2>3, SMT
<1>14. CASE s = 26
  <2>1. PowersOf2[s + 1] = 67108864 /\ PowersOf2[s + 2] = 134217728
    BY <1>14, TwoPowers, SMT
  <2>2. CASE m % 2 = 1
    <3>1. c = s
      BY <1>0, <2>2, <1>14, SMT
    <3> QED BY <1>0, <2>1, <2>2, <3>1, <1>14, SMT
  <2>3. CASE m % 2 = 0
    <3>1. c = s + 1
      BY <1>0, <2>3, <1>14, SMT
    <3> QED BY <1>0, <2>1, <2>3, <3>1, <1>14, SMT
  <2> QED BY <1>0, <2>2, <2>3, SMT
<1>15. CASE s = 28
  <2>1. PowersOf2[s + 1] = 268435456 /\ PowersOf2[s + 2] = 536870912
    BY <1>15, TwoPowers, SMT
  <2>2. CASE m % 2 = 1
    <3>1. c = s
      BY <1>0, <2>2, <1>15, SMT
    <3> QED BY <1>0, <2>1, <2>2, <3>1, <1>15, SMT
  <2>3. CASE m % 2 = 0
    <3>1. c = s + 1
      BY <1>0, <2>3, <1>15, SMT
    <3> QED BY <1>0, <2>1, <2>3, <3>1, <1>15, SMT
  <2> QED BY <1>0, <2>2, <2>3, SMT
<1>16. CASE s = 30
  <2>1. PowersOf2[s + 1] = 1073741824
    BY <1>16, TwoPowers, SMT
  <2>2. CASE m % 2 = 1
    <3>1. c = s
      BY <1>0, <2>2, <1>16, SMT
    <3> QED BY <1>0, <2>1, <2>2, <3>1, <1>16, SMT
  <2>3. CASE m % 2 = 0
    BY <1>0, <2>1, <2>3, SMT DEF IntMax
  <2> QED BY <1>0, <2>2, <2>3, SMT
<1> QED BY <1>0, <1>1, <1>2, <1>3, <1>4, <1>5, <1>6, <1>7, <1>8, <1>9, <1>10, <1>11, <1>12, <1>13, <1>14, <1>15, <1>16, SMT

\* What the search keeps of x when it finds its w low bits 0, for p the power of w
Shifted(x, p) == IF x % p = 0 THEN x \div p ELSE x
Counted(x, p, w) == IF x % p = 0 THEN w ELSE 0

\* n is x after s zeros; x ends in a bit that is 1 below m, and z ends like x.
Ends(n, x, z, s, m) ==
    x \in Nat /\ z \in Nat /\ x % m # 0 /\ x % m = z % m /\ n = x * PowersOf2[s + 1]

LEMMA ShiftBy8 ==
    ASSUME NEW n \in Nat, NEW x, NEW z, NEW s \in {0, 16}, Ends(n, x, z, s, 65536)
    PROVE  /\ Ends(n, Shifted(x, 256), Shifted(z, 256), s + Counted(z, 256, 8), 256)
           /\ s + Counted(z, 256, 8) \in {0, 8, 16, 24}
<1>0. x \in Nat /\ z \in Nat /\ x % 65536 # 0 /\ x % 65536 = z % 65536 /\ n = x * PowersOf2[s + 1]
  BY DEF Ends
<1>1. CASE s = 0
  <2>1. PowersOf2[s + 1] = 1 /\ PowersOf2[s + 8 + 1] = 256
    BY <1>1, TwoPowers, SMT
  <2>2. CASE z % 256 = 0
    <3>1. x % 256 = 0
      BY <2>2, <1>0, SMT
    <3>2. Shifted(x, 256) = x \div 256 /\ Shifted(z, 256) = z \div 256 /\ s + Counted(z, 256, 8) = s + 8
      BY <2>2, <3>1, SMT DEF Shifted, Counted
    <3>3. x \div 256 \in Nat /\ z \div 256 \in Nat /\ x = 256 * (x \div 256)
      BY <1>0, <3>1, SMT
    <3>4. (x \div 256) % 256 # 0
      BY <1>0, <3>1, SMT
    <3>5. (x \div 256) % 256 = (z \div 256) % 256
      BY <1>0, <3>1, <2>2, SMT
    <3>6. n = x * 1
      BY <1>0, <2>1
    <3>7. n = (x \div 256) * 256
      BY <3>6, <3>3, SMT
    <3>8. PowersOf2[s + 8 + 1] = 256
      BY <2>1
    <3>9. Ends(n, x \div 256, z \div 256, s + 8, 256)
      BY <3>3, <3>4, <3>5, <3>7, <3>8 DEF Ends
    <3> QED BY <3>2, <3>9, <1>1, SMT
  <2>3. CASE z % 256 # 0
    <3>1. x % 256 # 0
      BY <2>3, <1>0, SMT
    <3>2. Shifted(x, 256) = x /\ Shifted(z, 256) = z /\ s + Counted(z, 256, 8) = s
      BY <2>3, <3>1, SMT DEF Shifted, Counted
    <3> QED BY <1>0, <1>1, <2>1, <2>3, <3>1, <3>2, SMT DEF Ends
  <2> QED BY <2>2, <2>3
<1>2. CASE s = 16
  <2>1. PowersOf2[s + 1] = 65536 /\ PowersOf2[s + 8 + 1] = 16777216
    BY <1>2, TwoPowers, SMT
  <2>2. CASE z % 256 = 0
    <3>1. x % 256 = 0
      BY <2>2, <1>0, SMT
    <3>2. Shifted(x, 256) = x \div 256 /\ Shifted(z, 256) = z \div 256 /\ s + Counted(z, 256, 8) = s + 8
      BY <2>2, <3>1, SMT DEF Shifted, Counted
    <3>3. x \div 256 \in Nat /\ z \div 256 \in Nat /\ x = 256 * (x \div 256)
      BY <1>0, <3>1, SMT
    <3>4. (x \div 256) % 256 # 0
      BY <1>0, <3>1, SMT
    <3>5. (x \div 256) % 256 = (z \div 256) % 256
      BY <1>0, <3>1, <2>2, SMT
    <3>6. n = x * 65536
      BY <1>0, <2>1
    <3>7. n = (x \div 256) * 16777216
      BY <3>6, <3>3, SMT
    <3>8. PowersOf2[s + 8 + 1] = 16777216
      BY <2>1
    <3>9. Ends(n, x \div 256, z \div 256, s + 8, 256)
      BY <3>3, <3>4, <3>5, <3>7, <3>8 DEF Ends
    <3> QED BY <3>2, <3>9, <1>2, SMT
  <2>3. CASE z % 256 # 0
    <3>1. x % 256 # 0
      BY <2>3, <1>0, SMT
    <3>2. Shifted(x, 256) = x /\ Shifted(z, 256) = z /\ s + Counted(z, 256, 8) = s
      BY <2>3, <3>1, SMT DEF Shifted, Counted
    <3> QED BY <1>0, <1>2, <2>1, <2>3, <3>1, <3>2, SMT DEF Ends
  <2> QED BY <2>2, <2>3
<1> QED BY <1>1, <1>2, SMT

LEMMA ShiftBy4 ==
    ASSUME NEW n \in Nat, NEW x, NEW z, NEW s \in {0, 8, 16, 24}, Ends(n, x, z, s, 256)
    PROVE  /\ Ends(n, Shifted(x, 16), Shifted(z, 16), s + Counted(z, 16, 4), 16)
           /\ s + Counted(z, 16, 4) \in {0, 4, 8, 12, 16, 20, 24, 28}
<1>0. x \in Nat /\ z \in Nat /\ x % 256 # 0 /\ x % 256 = z % 256 /\ n = x * PowersOf2[s + 1]
  BY DEF Ends
<1>1. CASE s = 0
  <2>1. PowersOf2[s + 1] = 1 /\ PowersOf2[s + 4 + 1] = 16
    BY <1>1, TwoPowers, SMT
  <2>2. CASE z % 16 = 0
    <3>1. x % 16 = 0
      BY <2>2, <1>0, SMT
    <3>2. Shifted(x, 16) = x \div 16 /\ Shifted(z, 16) = z \div 16 /\ s + Counted(z, 16, 4) = s + 4
      BY <2>2, <3>1, SMT DEF Shifted, Counted
    <3>3. x \div 16 \in Nat /\ z \div 16 \in Nat /\ x = 16 * (x \div 16)
      BY <1>0, <3>1, SMT
    <3>4. (x \div 16) % 16 # 0
      BY <1>0, <3>1, SMT
    <3>5. (x \div 16) % 16 = (z \div 16) % 16
      BY <1>0, <3>1, <2>2, SMT
    <3>6. n = x * 1
      BY <1>0, <2>1
    <3>7. n = (x \div 16) * 16
      BY <3>6, <3>3, SMT
    <3>8. PowersOf2[s + 4 + 1] = 16
      BY <2>1
    <3>9. Ends(n, x \div 16, z \div 16, s + 4, 16)
      BY <3>3, <3>4, <3>5, <3>7, <3>8 DEF Ends
    <3> QED BY <3>2, <3>9, <1>1, SMT
  <2>3. CASE z % 16 # 0
    <3>1. x % 16 # 0
      BY <2>3, <1>0, SMT
    <3>2. Shifted(x, 16) = x /\ Shifted(z, 16) = z /\ s + Counted(z, 16, 4) = s
      BY <2>3, <3>1, SMT DEF Shifted, Counted
    <3> QED BY <1>0, <1>1, <2>1, <2>3, <3>1, <3>2, SMT DEF Ends
  <2> QED BY <2>2, <2>3
<1>2. CASE s = 8
  <2>1. PowersOf2[s + 1] = 256 /\ PowersOf2[s + 4 + 1] = 4096
    BY <1>2, TwoPowers, SMT
  <2>2. CASE z % 16 = 0
    <3>1. x % 16 = 0
      BY <2>2, <1>0, SMT
    <3>2. Shifted(x, 16) = x \div 16 /\ Shifted(z, 16) = z \div 16 /\ s + Counted(z, 16, 4) = s + 4
      BY <2>2, <3>1, SMT DEF Shifted, Counted
    <3>3. x \div 16 \in Nat /\ z \div 16 \in Nat /\ x = 16 * (x \div 16)
      BY <1>0, <3>1, SMT
    <3>4. (x \div 16) % 16 # 0
      BY <1>0, <3>1, SMT
    <3>5. (x \div 16) % 16 = (z \div 16) % 16
      BY <1>0, <3>1, <2>2, SMT
    <3>6. n = x * 256
      BY <1>0, <2>1
    <3>7. n = (x \div 16) * 4096
      BY <3>6, <3>3, SMT
    <3>8. PowersOf2[s + 4 + 1] = 4096
      BY <2>1
    <3>9. Ends(n, x \div 16, z \div 16, s + 4, 16)
      BY <3>3, <3>4, <3>5, <3>7, <3>8 DEF Ends
    <3> QED BY <3>2, <3>9, <1>2, SMT
  <2>3. CASE z % 16 # 0
    <3>1. x % 16 # 0
      BY <2>3, <1>0, SMT
    <3>2. Shifted(x, 16) = x /\ Shifted(z, 16) = z /\ s + Counted(z, 16, 4) = s
      BY <2>3, <3>1, SMT DEF Shifted, Counted
    <3> QED BY <1>0, <1>2, <2>1, <2>3, <3>1, <3>2, SMT DEF Ends
  <2> QED BY <2>2, <2>3
<1>3. CASE s = 16
  <2>1. PowersOf2[s + 1] = 65536 /\ PowersOf2[s + 4 + 1] = 1048576
    BY <1>3, TwoPowers, SMT
  <2>2. CASE z % 16 = 0
    <3>1. x % 16 = 0
      BY <2>2, <1>0, SMT
    <3>2. Shifted(x, 16) = x \div 16 /\ Shifted(z, 16) = z \div 16 /\ s + Counted(z, 16, 4) = s + 4
      BY <2>2, <3>1, SMT DEF Shifted, Counted
    <3>3. x \div 16 \in Nat /\ z \div 16 \in Nat /\ x = 16 * (x \div 16)
      BY <1>0, <3>1, SMT
    <3>4. (x \div 16) % 16 # 0
      BY <1>0, <3>1, SMT
    <3>5. (x \div 16) % 16 = (z \div 16) % 16
      BY <1>0, <3>1, <2>2, SMT
    <3>6. n = x * 65536
      BY <1>0, <2>1
    <3>7. n = (x \div 16) * 1048576
      BY <3>6, <3>3, SMT
    <3>8. PowersOf2[s + 4 + 1] = 1048576
      BY <2>1
    <3>9. Ends(n, x \div 16, z \div 16, s + 4, 16)
      BY <3>3, <3>4, <3>5, <3>7, <3>8 DEF Ends
    <3> QED BY <3>2, <3>9, <1>3, SMT
  <2>3. CASE z % 16 # 0
    <3>1. x % 16 # 0
      BY <2>3, <1>0, SMT
    <3>2. Shifted(x, 16) = x /\ Shifted(z, 16) = z /\ s + Counted(z, 16, 4) = s
      BY <2>3, <3>1, SMT DEF Shifted, Counted
    <3> QED BY <1>0, <1>3, <2>1, <2>3, <3>1, <3>2, SMT DEF Ends
  <2> QED BY <2>2, <2>3
<1>4. CASE s = 24
  <2>1. PowersOf2[s + 1] = 16777216 /\ PowersOf2[s + 4 + 1] = 268435456
    BY <1>4, TwoPowers, SMT
  <2>2. CASE z % 16 = 0
    <3>1. x % 16 = 0
      BY <2>2, <1>0, SMT
    <3>2. Shifted(x, 16) = x \div 16 /\ Shifted(z, 16) = z \div 16 /\ s + Counted(z, 16, 4) = s + 4
      BY <2>2, <3>1, SMT DEF Shifted, Counted
    <3>3. x \div 16 \in Nat /\ z \div 16 \in Nat /\ x = 16 * (x \div 16)
      BY <1>0, <3>1, SMT
    <3>4. (x \div 16) % 16 # 0
      BY <1>0, <3>1, SMT
    <3>5. (x \div 16) % 16 = (z \div 16) % 16
      BY <1>0, <3>1, <2>2, SMT
    <3>6. n = x * 16777216
      BY <1>0, <2>1
    <3>7. n = (x \div 16) * 268435456
      BY <3>6, <3>3, SMT
    <3>8. PowersOf2[s + 4 + 1] = 268435456
      BY <2>1
    <3>9. Ends(n, x \div 16, z \div 16, s + 4, 16)
      BY <3>3, <3>4, <3>5, <3>7, <3>8 DEF Ends
    <3> QED BY <3>2, <3>9, <1>4, SMT
  <2>3. CASE z % 16 # 0
    <3>1. x % 16 # 0
      BY <2>3, <1>0, SMT
    <3>2. Shifted(x, 16) = x /\ Shifted(z, 16) = z /\ s + Counted(z, 16, 4) = s
      BY <2>3, <3>1, SMT DEF Shifted, Counted
    <3> QED BY <1>0, <1>4, <2>1, <2>3, <3>1, <3>2, SMT DEF Ends
  <2> QED BY <2>2, <2>3
<1> QED BY <1>1, <1>2, <1>3, <1>4, SMT

LEMMA ShiftBy2 ==
    ASSUME NEW n \in Nat, NEW x, NEW z, NEW s \in {0, 4, 8, 12, 16, 20, 24, 28}, Ends(n, x, z, s, 16)
    PROVE  /\ Ends(n, Shifted(x, 4), Shifted(z, 4), s + Counted(z, 4, 2), 4)
           /\ s + Counted(z, 4, 2) \in {0, 2, 4, 6, 8, 10, 12, 14, 16, 18, 20, 22, 24, 26, 28, 30}
<1>0. x \in Nat /\ z \in Nat /\ x % 16 # 0 /\ x % 16 = z % 16 /\ n = x * PowersOf2[s + 1]
  BY DEF Ends
<1>1. CASE s = 0
  <2>1. PowersOf2[s + 1] = 1 /\ PowersOf2[s + 2 + 1] = 4
    BY <1>1, TwoPowers, SMT
  <2>2. CASE z % 4 = 0
    <3>1. x % 4 = 0
      BY <2>2, <1>0, SMT
    <3>2. Shifted(x, 4) = x \div 4 /\ Shifted(z, 4) = z \div 4 /\ s + Counted(z, 4, 2) = s + 2
      BY <2>2, <3>1, SMT DEF Shifted, Counted
    <3>3. x \div 4 \in Nat /\ z \div 4 \in Nat /\ x = 4 * (x \div 4)
      BY <1>0, <3>1, SMT
    <3>4. (x \div 4) % 4 # 0
      BY <1>0, <3>1, SMT
    <3>5. (x \div 4) % 4 = (z \div 4) % 4
      BY <1>0, <3>1, <2>2, SMT
    <3>6. n = x * 1
      BY <1>0, <2>1
    <3>7. n = (x \div 4) * 4
      BY <3>6, <3>3, SMT
    <3>8. PowersOf2[s + 2 + 1] = 4
      BY <2>1
    <3>9. Ends(n, x \div 4, z \div 4, s + 2, 4)
      BY <3>3, <3>4, <3>5, <3>7, <3>8 DEF Ends
    <3> QED BY <3>2, <3>9, <1>1, SMT
  <2>3. CASE z % 4 # 0
    <3>1. x % 4 # 0
      BY <2>3, <1>0, SMT
    <3>2. Shifted(x, 4) = x /\ Shifted(z, 4) = z /\ s + Counted(z, 4, 2) = s
      BY <2>3, <3>1, SMT DEF Shifted, Counted
    <3> QED BY <1>0, <1>1, <2>1, <2>3, <3>1, <3>2, SMT DEF Ends
  <2> QED BY <2>2, <2>3
<1>2. CASE s = 4
  <2>1. PowersOf2[s + 1] = 16 /\ PowersOf2[s + 2 + 1] = 64
    BY <1>2, TwoPowers, SMT
  <2>2. CASE z % 4 = 0
    <3>1. x % 4 = 0
      BY <2>2, <1>0, SMT
    <3>2. Shifted(x, 4) = x \div 4 /\ Shifted(z, 4) = z \div 4 /\ s + Counted(z, 4, 2) = s + 2
      BY <2>2, <3>1, SMT DEF Shifted, Counted
    <3>3. x \div 4 \in Nat /\ z \div 4 \in Nat /\ x = 4 * (x \div 4)
      BY <1>0, <3>1, SMT
    <3>4. (x \div 4) % 4 # 0
      BY <1>0, <3>1, SMT
    <3>5. (x \div 4) % 4 = (z \div 4) % 4
      BY <1>0, <3>1, <2>2, SMT
    <3>6. n = x * 16
      BY <1>0, <2>1
    <3>7. n = (x \div 4) * 64
      BY <3>6, <3>3, SMT
    <3>8. PowersOf2[s + 2 + 1] = 64
      BY <2>1
    <3>9. Ends(n, x \div 4, z \div 4, s + 2, 4)
      BY <3>3, <3>4, <3>5, <3>7, <3>8 DEF Ends
    <3> QED BY <3>2, <3>9, <1>2, SMT
  <2>3. CASE z % 4 # 0
    <3>1. x % 4 # 0
      BY <2>3, <1>0, SMT
    <3>2. Shifted(x, 4) = x /\ Shifted(z, 4) = z /\ s + Counted(z, 4, 2) = s
      BY <2>3, <3>1, SMT DEF Shifted, Counted
    <3> QED BY <1>0, <1>2, <2>1, <2>3, <3>1, <3>2, SMT DEF Ends
  <2> QED BY <2>2, <2>3
<1>3. CASE s = 8
  <2>1. PowersOf2[s + 1] = 256 /\ PowersOf2[s + 2 + 1] = 1024
    BY <1>3, TwoPowers, SMT
  <2>2. CASE z % 4 = 0
    <3>1. x % 4 = 0
      BY <2>2, <1>0, SMT
    <3>2. Shifted(x, 4) = x \div 4 /\ Shifted(z, 4) = z \div 4 /\ s + Counted(z, 4, 2) = s + 2
      BY <2>2, <3>1, SMT DEF Shifted, Counted
    <3>3. x \div 4 \in Nat /\ z \div 4 \in Nat /\ x = 4 * (x \div 4)
      BY <1>0, <3>1, SMT
    <3>4. (x \div 4) % 4 # 0
      BY <1>0, <3>1, SMT
    <3>5. (x \div 4) % 4 = (z \div 4) % 4
      BY <1>0, <3>1, <2>2, SMT
    <3>6. n = x * 256
      BY <1>0, <2>1
    <3>7. n = (x \div 4) * 1024
      BY <3>6, <3>3, SMT
    <3>8. PowersOf2[s + 2 + 1] = 1024
      BY <2>1
    <3>9. Ends(n, x \div 4, z \div 4, s + 2, 4)
      BY <3>3, <3>4, <3>5, <3>7, <3>8 DEF Ends
    <3> QED BY <3>2, <3>9, <1>3, SMT
  <2>3. CASE z % 4 # 0
    <3>1. x % 4 # 0
      BY <2>3, <1>0, SMT
    <3>2. Shifted(x, 4) = x /\ Shifted(z, 4) = z /\ s + Counted(z, 4, 2) = s
      BY <2>3, <3>1, SMT DEF Shifted, Counted
    <3> QED BY <1>0, <1>3, <2>1, <2>3, <3>1, <3>2, SMT DEF Ends
  <2> QED BY <2>2, <2>3
<1>4. CASE s = 12
  <2>1. PowersOf2[s + 1] = 4096 /\ PowersOf2[s + 2 + 1] = 16384
    BY <1>4, TwoPowers, SMT
  <2>2. CASE z % 4 = 0
    <3>1. x % 4 = 0
      BY <2>2, <1>0, SMT
    <3>2. Shifted(x, 4) = x \div 4 /\ Shifted(z, 4) = z \div 4 /\ s + Counted(z, 4, 2) = s + 2
      BY <2>2, <3>1, SMT DEF Shifted, Counted
    <3>3. x \div 4 \in Nat /\ z \div 4 \in Nat /\ x = 4 * (x \div 4)
      BY <1>0, <3>1, SMT
    <3>4. (x \div 4) % 4 # 0
      BY <1>0, <3>1, SMT
    <3>5. (x \div 4) % 4 = (z \div 4) % 4
      BY <1>0, <3>1, <2>2, SMT
    <3>6. n = x * 4096
      BY <1>0, <2>1
    <3>7. n = (x \div 4) * 16384
      BY <3>6, <3>3, SMT
    <3>8. PowersOf2[s + 2 + 1] = 16384
      BY <2>1
    <3>9. Ends(n, x \div 4, z \div 4, s + 2, 4)
      BY <3>3, <3>4, <3>5, <3>7, <3>8 DEF Ends
    <3> QED BY <3>2, <3>9, <1>4, SMT
  <2>3. CASE z % 4 # 0
    <3>1. x % 4 # 0
      BY <2>3, <1>0, SMT
    <3>2. Shifted(x, 4) = x /\ Shifted(z, 4) = z /\ s + Counted(z, 4, 2) = s
      BY <2>3, <3>1, SMT DEF Shifted, Counted
    <3> QED BY <1>0, <1>4, <2>1, <2>3, <3>1, <3>2, SMT DEF Ends
  <2> QED BY <2>2, <2>3
<1>5. CASE s = 16
  <2>1. PowersOf2[s + 1] = 65536 /\ PowersOf2[s + 2 + 1] = 262144
    BY <1>5, TwoPowers, SMT
  <2>2. CASE z % 4 = 0
    <3>1. x % 4 = 0
      BY <2>2, <1>0, SMT
    <3>2. Shifted(x, 4) = x \div 4 /\ Shifted(z, 4) = z \div 4 /\ s + Counted(z, 4, 2) = s + 2
      BY <2>2, <3>1, SMT DEF Shifted, Counted
    <3>3. x \div 4 \in Nat /\ z \div 4 \in Nat /\ x = 4 * (x \div 4)
      BY <1>0, <3>1, SMT
    <3>4. (x \div 4) % 4 # 0
      BY <1>0, <3>1, SMT
    <3>5. (x \div 4) % 4 = (z \div 4) % 4
      BY <1>0, <3>1, <2>2, SMT
    <3>6. n = x * 65536
      BY <1>0, <2>1
    <3>7. n = (x \div 4) * 262144
      BY <3>6, <3>3, SMT
    <3>8. PowersOf2[s + 2 + 1] = 262144
      BY <2>1
    <3>9. Ends(n, x \div 4, z \div 4, s + 2, 4)
      BY <3>3, <3>4, <3>5, <3>7, <3>8 DEF Ends
    <3> QED BY <3>2, <3>9, <1>5, SMT
  <2>3. CASE z % 4 # 0
    <3>1. x % 4 # 0
      BY <2>3, <1>0, SMT
    <3>2. Shifted(x, 4) = x /\ Shifted(z, 4) = z /\ s + Counted(z, 4, 2) = s
      BY <2>3, <3>1, SMT DEF Shifted, Counted
    <3> QED BY <1>0, <1>5, <2>1, <2>3, <3>1, <3>2, SMT DEF Ends
  <2> QED BY <2>2, <2>3
<1>6. CASE s = 20
  <2>1. PowersOf2[s + 1] = 1048576 /\ PowersOf2[s + 2 + 1] = 4194304
    BY <1>6, TwoPowers, SMT
  <2>2. CASE z % 4 = 0
    <3>1. x % 4 = 0
      BY <2>2, <1>0, SMT
    <3>2. Shifted(x, 4) = x \div 4 /\ Shifted(z, 4) = z \div 4 /\ s + Counted(z, 4, 2) = s + 2
      BY <2>2, <3>1, SMT DEF Shifted, Counted
    <3>3. x \div 4 \in Nat /\ z \div 4 \in Nat /\ x = 4 * (x \div 4)
      BY <1>0, <3>1, SMT
    <3>4. (x \div 4) % 4 # 0
      BY <1>0, <3>1, SMT
    <3>5. (x \div 4) % 4 = (z \div 4) % 4
      BY <1>0, <3>1, <2>2, SMT
    <3>6. n = x * 1048576
      BY <1>0, <2>1
    <3>7. n = (x \div 4) * 4194304
      BY <3>6, <3>3, SMT
    <3>8. PowersOf2[s + 2 + 1] = 4194304
      BY <2>1
    <3>9. Ends(n, x \div 4, z \div 4, s + 2, 4)
      BY <3>3, <3>4, <3>5, <3>7, <3>8 DEF Ends
    <3> QED BY <3>2, <3>9, <1>6, SMT
  <2>3. CASE z % 4 # 0
    <3>1. x % 4 # 0
      BY <2>3, <1>0, SMT
    <3>2. Shifted(x, 4) = x /\ Shifted(z, 4) = z /\ s + Counted(z, 4, 2) = s
      BY <2>3, <3>1, SMT DEF Shifted, Counted
    <3> QED BY <1>0, <1>6, <2>1, <2>3, <3>1, <3>2, SMT DEF Ends
  <2> QED BY <2>2, <2>3
<1>7. CASE s = 24
  <2>1. PowersOf2[s + 1] = 16777216 /\ PowersOf2[s + 2 + 1] = 67108864
    BY <1>7, TwoPowers, SMT
  <2>2. CASE z % 4 = 0
    <3>1. x % 4 = 0
      BY <2>2, <1>0, SMT
    <3>2. Shifted(x, 4) = x \div 4 /\ Shifted(z, 4) = z \div 4 /\ s + Counted(z, 4, 2) = s + 2
      BY <2>2, <3>1, SMT DEF Shifted, Counted
    <3>3. x \div 4 \in Nat /\ z \div 4 \in Nat /\ x = 4 * (x \div 4)
      BY <1>0, <3>1, SMT
    <3>4. (x \div 4) % 4 # 0
      BY <1>0, <3>1, SMT
    <3>5. (x \div 4) % 4 = (z \div 4) % 4
      BY <1>0, <3>1, <2>2, SMT
    <3>6. n = x * 16777216
      BY <1>0, <2>1
    <3>7. n = (x \div 4) * 67108864
      BY <3>6, <3>3, SMT
    <3>8. PowersOf2[s + 2 + 1] = 67108864
      BY <2>1
    <3>9. Ends(n, x \div 4, z \div 4, s + 2, 4)
      BY <3>3, <3>4, <3>5, <3>7, <3>8 DEF Ends
    <3> QED BY <3>2, <3>9, <1>7, SMT
  <2>3. CASE z % 4 # 0
    <3>1. x % 4 # 0
      BY <2>3, <1>0, SMT
    <3>2. Shifted(x, 4) = x /\ Shifted(z, 4) = z /\ s + Counted(z, 4, 2) = s
      BY <2>3, <3>1, SMT DEF Shifted, Counted
    <3> QED BY <1>0, <1>7, <2>1, <2>3, <3>1, <3>2, SMT DEF Ends
  <2> QED BY <2>2, <2>3
<1>8. CASE s = 28
  <2>1. PowersOf2[s + 1] = 268435456 /\ PowersOf2[s + 2 + 1] = 1073741824
    BY <1>8, TwoPowers, SMT
  <2>2. CASE z % 4 = 0
    <3>1. x % 4 = 0
      BY <2>2, <1>0, SMT
    <3>2. Shifted(x, 4) = x \div 4 /\ Shifted(z, 4) = z \div 4 /\ s + Counted(z, 4, 2) = s + 2
      BY <2>2, <3>1, SMT DEF Shifted, Counted
    <3>3. x \div 4 \in Nat /\ z \div 4 \in Nat /\ x = 4 * (x \div 4)
      BY <1>0, <3>1, SMT
    <3>4. (x \div 4) % 4 # 0
      BY <1>0, <3>1, SMT
    <3>5. (x \div 4) % 4 = (z \div 4) % 4
      BY <1>0, <3>1, <2>2, SMT
    <3>6. n = x * 268435456
      BY <1>0, <2>1
    <3>7. n = (x \div 4) * 1073741824
      BY <3>6, <3>3, SMT
    <3>8. PowersOf2[s + 2 + 1] = 1073741824
      BY <2>1
    <3>9. Ends(n, x \div 4, z \div 4, s + 2, 4)
      BY <3>3, <3>4, <3>5, <3>7, <3>8 DEF Ends
    <3> QED BY <3>2, <3>9, <1>8, SMT
  <2>3. CASE z % 4 # 0
    <3>1. x % 4 # 0
      BY <2>3, <1>0, SMT
    <3>2. Shifted(x, 4) = x /\ Shifted(z, 4) = z /\ s + Counted(z, 4, 2) = s
      BY <2>3, <3>1, SMT DEF Shifted, Counted
    <3> QED BY <1>0, <1>8, <2>1, <2>3, <3>1, <3>2, SMT DEF Ends
  <2> QED BY <2>2, <2>3
<1> QED BY <1>1, <1>2, <1>3, <1>4, <1>5, <1>6, <1>7, <1>8, SMT

\* ctz32 finds the last bit that is 1.
LEMMA TrailingZeros ==
    ASSUME NEW n \in Nat, n # 0, n <= IntMax
    PROVE  LowestBit(n, ctz32(n))
<1>0. PowersOf2[1] = 1 /\ PowersOf2[17] = 65536
  BY TwoPowers
<1>1. PICK x, z, s : Ends(n, x, z, s, 65536) /\ s \in {0, 16} /\ ctz32(n) = s + ctz16(z)
  <2>1. CASE n % 65536 = 0
    <3> DEFINE x == n \div 65536  z == x % 65536
    <3>1. x \in Nat /\ z \in Nat /\ x % 65536 # 0 /\ x % 65536 = z % 65536 /\ n = x * 65536
      BY <2>1, SMT DEF IntMax
    <3>2. ctz32(n) = 16 + ctz16(z)
      BY <2>1 DEF ctz32
    <3> HIDE DEF x, z
    <3>3. Ends(n, x, z, 16, 65536)
      BY <3>1, <1>0 DEF Ends
    <3> QED BY <3>3, <3>2
  <2>2. CASE n % 65536 # 0
    <3> DEFINE z == n % 65536
    <3>1. z \in Nat /\ n % 65536 = z % 65536 /\ n = n * 1
      BY <2>2, SMT
    <3>2. ctz32(n) = ctz16(z)
      BY <2>2 DEF ctz32
    <3>3. ctz16(z) = 0 + ctz16(z)
      BY <3>1, SMT DEF ctz16
    <3> HIDE DEF z
    <3>4. Ends(n, n, z, 0, 65536)
      BY <2>2, <3>1, <1>0 DEF Ends
    <3>5. ctz32(n) = 0 + ctz16(z)
      BY <3>2, <3>3
    <3> QED BY <3>4, <3>5
  <2> QED BY <2>1, <2>2
<1> DEFINE x8 == Shifted(x, 256)  z8 == Shifted(z, 256)  s8 == s + Counted(z, 256, 8)
           x4 == Shifted(x8, 16)  z4 == Shifted(z8, 16)  s4 == s8 + Counted(z8, 16, 4)
           x2 == Shifted(x4, 4)   z2 == Shifted(z4, 4)   s2 == s4 + Counted(z4, 4, 2)
<1>2. ctz16(z) = 1 + Counted(z, 256, 8) + Counted(z8, 16, 4) + Counted(z4, 4, 2) - (z2 % 2)
  BY DEF ctz16, Shifted, Counted
<1>3. Ends(n, x8, z8, s8, 256) /\ s8 \in {0, 8, 16, 24}
  BY <1>1, ShiftBy8
<1> HIDE DEF x8, z8, s8
<1>4. Ends(n, x4, z4, s4, 16) /\ s4 \in {0, 4, 8, 12, 16, 20, 24, 28}
  BY <1>3, ShiftBy4
<1> HIDE DEF x4, z4, s4
<1>5. Ends(n, x2, z2, s2, 4) /\ s2 \in {0, 2, 4, 6, 8, 10, 12, 14, 16, 18, 20, 22, 24, 26, 28, 30}
  BY <1>4, ShiftBy2
<1> HIDE DEF x2, z2, s2
<1>6. x2 \in Nat /\ z2 \in Nat /\ x2 % 2 = z2 % 2 /\ x2 % 4 # 0 /\ n = x2 * PowersOf2[s2 + 1]
  BY <1>5, SMT DEF Ends
<1>7. Counted(z, 256, 8) \in Nat /\ Counted(z8, 16, 4) \in Nat /\ Counted(z4, 4, 2) \in Nat
  BY DEF Counted
<1>8. ctz32(n) = s2 + 1 - (x2 % 2)
  BY <1>1, <1>2, <1>5, <1>6, <1>7, SMT DEF s2, s4, s8
<1>9. EndsIn(n, x2, s2)
  BY <1>5, <1>6 DEF EndsIn
<1>10. LowestBit(n, s2 + 1 - (x2 % 2))
  BY <1>9, LastBits
<1> QED BY <1>8, <1>10


-----------------------------------------------------------------------------
(* The invariant of the conversions *)

Num == Magnitude(tried)

InScale ==
    /\ num = Num /\ text = << >> /\ src = 1 /\ value = 0 /\ ds = << >>
    /\ \E k \in 1 .. NumPlaces(base) : power = Powers(base)[k] /\ (k = 1 \/ power <= Num)

\* The digits from the place top down to the one above j are written.
WrittenTo(top, j) ==
    /\ Len(text) = top - j
    /\ \A i \in 1 .. top - j : text[i] = Digit(Num, base, top + 1 - i)

\* top is the place of the first digit.
FirstPlace(top) ==
    /\ top \in 1 .. NumPlaces(base) /\ Upper(Num, base, top) < base
    /\ top = 1 \/ Powers(base)[top] <= Num

InDigits ==
    /\ src = 1 /\ value = 0 /\ ds = << >>
    /\ \E top \in 1 .. NumPlaces(base), j \in 0 .. 10 :
          /\ j <= top /\ FirstPlace(top) /\ WrittenTo(top, j)
          /\ power = IF j = 0 THEN 0 ELSE Powers(base)[j]
          /\ num = IF j = top THEN Num ELSE Lower(Num, base, j + 1)

\* Of the digits of the number all are written.
Written == \E top \in 1 .. NumPlaces(base) : FirstPlace(top) /\ WrittenTo(top, 0)

InRead ==
    /\ Written /\ power = 0 /\ ds = << >>
    /\ src \in 1 .. Len(text) + 1
    /\ value = IF src = 1 THEN 0 ELSE Upper(Num, base, Len(text) + 2 - src)

\* The last k digits are in ds, and more than one only of a number that has more.
LastWritten(k) ==
    /\ Len(ds) = k
    /\ \A i \in 1 .. k : ds[i] = Digit(Num, 10, i)
    /\ k > 0 => Upper(Num, 10, k) > 0

InLastDigits ==
    /\ Written /\ power = 0 /\ value = Num /\ base = 10
    /\ \E k \in 0 .. 10 :
          LastWritten(k) /\ num = IF k = 10 THEN 0 ELSE Upper(Num, 10, k + 1)

\* One sequence is the other from its end.
Mirrors(s, t) == Len(s) = Len(t) /\ \A i \in 1 .. Len(s) : t[i] = s[Len(s) + 1 - i]

InOver ==
    /\ Written /\ power = 0 /\ value = Num
    /\ base = 10 => Mirrors(ds, bwi2a)

\* What is so before each round of each loop
NumInv ==
    /\ tried \in Int /\ IsMagnitude(Num)
    /\ base \in {10, 16} /\ text \in Seq(Int) /\ ds \in Seq(Int)
    /\ loop \in {"scale", "digits", "read", "last digits", "over"}
    /\ loop = "scale" => InScale
    /\ loop = "digits" => InDigits
    /\ loop = "read" => InRead
    /\ loop = "last digits" => InLastDigits
    /\ loop = "over" => InOver

LEMMA NumInitInv == ASSUME NumbersAssumption, NumInit PROVE NumInv
<1>1. tried \in Int /\ IsMagnitude(Num)
  <2>1. tried \in -IntMax .. IntMax
    BY DEF NumbersAssumption, NumInit
  <2>2. IntMax \in Nat
    BY SMT DEF IntMax
  <2> QED BY <2>1, <2>2, SMT DEF IsMagnitude, Num, Magnitude
<1>2. base \in {10, 16} /\ loop = "scale" /\ power = 1 /\ num = Num
  BY DEF NumInit, Num
<1>3. 1 \in 1 .. NumPlaces(base)
  BY <1>2, SMT DEF NumPlaces
<1>4. Powers(base)[1] = 1
  BY <1>2, <1>3, PlaceBounds
<1>5. text = << >> /\ ds = << >> /\ src = 1 /\ value = 0
  BY DEF NumInit
<1>6. InScale
  BY <1>2, <1>3, <1>4, <1>5 DEF InScale
<1>7. text \in Seq(Int) /\ ds \in Seq(Int)
  BY <1>5
<1> QED BY <1>1, <1>2, <1>6, <1>7 DEF NumInv

LEMMA ScaleStep == ASSUME NumInv, Scale PROVE NumInv'
<1>1. /\ loop = "scale" /\ power' = power * base /\ ~ num \div power < base
      /\ UNCHANGED <<tried, base, loop, num, text, src, value, ds>>
      /\ IsMagnitude(Num) /\ base \in {10, 16} /\ InScale
  <2>1. loop = "scale" /\ InScale /\ IsMagnitude(Num) /\ base \in {10, 16} /\ num \div power >= base
    BY DEF Scale, NumInv
  <2>2. num = Num /\ \E k \in 1 .. NumPlaces(base) : power = Powers(base)[k]
    BY <2>1 DEF InScale
  <2>3. PICK k \in 1 .. NumPlaces(base) : power = Powers(base)[k]
    BY <2>2
  <2>4. Upper(Num, base, k) \in Nat /\ num \div power = Upper(Num, base, k)
    BY <2>1, <2>2, <2>3, PlaceValues DEF Upper
  <2>5. ~ num \div power < base
    BY <2>1, <2>4, SMT
  <2> QED BY <2>1, <2>5 DEF Scale
<1>2. PICK k \in 1 .. NumPlaces(base) : power = Powers(base)[k] /\ num = Num
  BY <1>1 DEF InScale
<1>3. ~ Upper(Num, base, k) < base
  BY <1>1, <1>2 DEF Upper
<1>4. k # NumPlaces(base) /\ ~ Num < Powers(base)[k] * base
  BY <1>1, <1>3, PlaceValues
<1>5. k + 1 \in 1 .. NumPlaces(base) /\ k \in 1 .. NumPlaces(base) - 1
  BY <1>1, <1>4, SMT DEF NumPlaces
<1>6. Powers(base)[k + 1] = Powers(base)[k] * base
  BY <1>1, <1>5, PlaceNext DEF Neighbours
<1>7. power' = Powers(base)[k + 1]
  BY <1>1, <1>2, <1>6
<1>8. Powers(base)[k + 1] \in Nat
  BY <1>1, <1>5, PlaceBounds
<1>9. Powers(base)[k + 1] <= Num
  BY <1>1, <1>4, <1>6, <1>8, SMT DEF IsMagnitude
<1>10. Num' = Num /\ base' = base
  BY <1>1 DEF Num
<1>11. InScale'
  BY <1>1, <1>2, <1>5, <1>7, <1>9, <1>10 DEF InScale
<1> QED BY <1>1, <1>10, <1>11 DEF NumInv

LEMMA ScaledStep == ASSUME NumInv, Scaled PROVE NumInv'
<1>1. /\ loop = "scale" /\ loop' = "digits" /\ num \div power < base
      /\ UNCHANGED <<tried, base, num, power, text, src, value, ds>>
      /\ IsMagnitude(Num) /\ base \in {10, 16} /\ InScale
  BY DEF Scaled, NumInv
<1>2. PICK k \in 1 .. NumPlaces(base) : power = Powers(base)[k] /\ num = Num /\ (k = 1 \/ power <= Num)
  BY <1>1 DEF InScale
<1>3. Upper(Num, base, k) < base
  BY <1>1, <1>2 DEF Upper
<1>4. FirstPlace(k)
  BY <1>2, <1>3 DEF FirstPlace
<1>5. k \in 0 .. 10 /\ k <= k /\ k # 0
  BY <1>1, SMT DEF NumPlaces
<1>6. text = << >> /\ src = 1 /\ value = 0 /\ ds = << >>
  BY <1>1 DEF InScale
<1>7. WrittenTo(k, k)
  BY <1>5, <1>6, SMT DEF WrittenTo
<1>8. Num' = Num /\ base' = base /\ text' = text
  BY <1>1 DEF Num
<1>9. FirstPlace(k)' /\ WrittenTo(k, k)'
  BY <1>4, <1>7, <1>8 DEF FirstPlace, WrittenTo
<1>10. power' = (IF k = 0 THEN 0 ELSE Powers(base)[k]) /\ num' = (IF k = k THEN Num ELSE Lower(Num, base, k + 1))
  BY <1>1, <1>2, <1>5
<1>11. InDigits'
  BY <1>1, <1>5, <1>6, <1>8, <1>9, <1>10 DEF InDigits
<1> QED BY <1>1, <1>8, <1>11 DEF NumInv

LEMMA WriteDigitStep == ASSUME NumInv, WriteDigit PROVE NumInv'
<1>1. /\ loop = "digits" /\ power # 0 /\ num' = num % power /\ power' = power \div base
      /\ text' = IF text # << >> \/ num \div power > 0 \/ power \div base = 0
                 THEN Append(text, num \div power) ELSE text
      /\ UNCHANGED <<tried, base, loop, src, value, ds>>
      /\ IsMagnitude(Num) /\ base \in {10, 16} /\ InDigits /\ text \in Seq(Int)
  BY DEF WriteDigit, NumInv
<1>2. PICK top \in 1 .. NumPlaces(base), j \in 0 .. 10 :
          /\ j <= top /\ FirstPlace(top) /\ WrittenTo(top, j)
          /\ power = IF j = 0 THEN 0 ELSE Powers(base)[j]
          /\ num = IF j = top THEN Num ELSE Lower(Num, base, j + 1)
  BY <1>1 DEF InDigits
<1>3. j # 0 /\ power = Powers(base)[j]
  BY <1>1, <1>2
<1>4. j \in 1 .. NumPlaces(base) /\ top \in Nat /\ NumPlaces(base) \in Nat
  BY <1>1, <1>2, <1>3, SMT DEF NumPlaces
<1>5. num \div power = Digit(Num, base, j) /\ num % power = Lower(Num, base, j)
  <2>1. CASE j = top
    <3>1. num = Num
      BY <1>2, <2>1
    <3>2. Upper(Num, base, j) < base
      BY <1>2, <2>1 DEF FirstPlace
    <3>3. Digit(Num, base, j) = Upper(Num, base, j)
      BY <3>2, <1>1, <1>4, PlaceValues
    <3> QED BY <3>1, <3>3, <1>3 DEF Upper, Lower
  <2>2. CASE j # top
    <3>1. j \in 1 .. NumPlaces(base) - 1
      BY <2>2, <1>2, <1>4, SMT
    <3>2. num = Lower(Num, base, j + 1)
      BY <2>2, <1>2
    <3> QED BY <3>1, <3>2, <1>1, <1>3, PlaceNext DEF Neighbours
  <2> QED BY <2>1, <2>2
<1>6. text # << >> \/ num \div power > 0 \/ power \div base = 0
  <2>1. CASE j # top
    <3>1. Len(text) > 0
      BY <2>1, <1>2, <1>4, SMT DEF WrittenTo
    <3> QED BY <3>1, <1>1, SMT
  <2>2. CASE j = top /\ top = 1
    <3>1. power = 1
      BY <2>2, <1>1, <1>3, <1>4, PlaceBounds
    <3> QED BY <3>1, <1>1, SMT
  <2>3. CASE j = top /\ top # 1
    <3>1. Powers(base)[top] <= Num /\ Upper(Num, base, top) < base
      BY <2>3, <1>2 DEF FirstPlace
    <3>2. Upper(Num, base, top) > 0 /\ Digit(Num, base, top) = Upper(Num, base, top)
      BY <3>1, <1>1, <1>2, PlaceValues
    <3> QED BY <3>2, <2>3, <1>5
  <2> QED BY <2>1, <2>2, <2>3
<1>7. text' = Append(text, Digit(Num, base, j))
  BY <1>1, <1>5, <1>6
<1>8. Digit(Num, base, j) \in Int
  BY <1>1, <1>4, PlaceValues
<1>9. text' \in Seq(Int)
  BY <1>1, <1>7, <1>8
<1>10. Num' = Num /\ base' = base
  BY <1>1 DEF Num
<1>11. WrittenTo(top, j - 1)'
  <2>1. Len(text') = top - (j - 1)
    <3>1. Len(text) = top - j
      BY <1>2 DEF WrittenTo
    <3>2. Len(text') = Len(text) + 1
      BY <1>1, <1>7, <1>8, SMT
    <3> QED BY <3>1, <3>2, <1>4, SMT
  <2>2. ASSUME NEW i \in 1 .. top - (j - 1) PROVE text'[i] = Digit(Num, base, top + 1 - i)
    <3>1. CASE i \in 1 .. top - j
      <4>1. text[i] = Digit(Num, base, top + 1 - i) /\ Len(text) = top - j
        BY <3>1, <1>2 DEF WrittenTo
      <4> QED BY <4>1, <3>1, <1>1, <1>7, <1>8, SMT
    <3>2. CASE i \notin 1 .. top - j
      <4>1. i = top - j + 1 /\ top + 1 - i = j
        BY <3>2, <1>4, <1>2, SMT
      <4>2. Len(text) = top - j
        BY <1>2 DEF WrittenTo
      <4>3. text'[i] = Digit(Num, base, j)
        BY <4>1, <4>2, <1>1, <1>7, <1>8, SMT
      <4> QED BY <4>1, <4>3
    <3> QED BY <3>1, <3>2
  <2> QED BY <2>1, <2>2, <1>10 DEF WrittenTo
<1>12. FirstPlace(top)'
  BY <1>2, <1>10 DEF FirstPlace
<1>13. j - 1 \in 0 .. 10 /\ j - 1 <= top /\ j - 1 # top
  BY <1>1, <1>2, <1>3, <1>4, SMT
<1>14. power' = (IF j - 1 = 0 THEN 0 ELSE Powers(base)[j - 1])
  <2>1. CASE j = 1
    <3>1. power = 1
      BY <2>1, <1>1, <1>3, <1>4, PlaceBounds
    <3> QED BY <3>1, <2>1, <1>1, SMT
  <2>2. CASE j # 1
    <3>1. j - 1 \in 1 .. NumPlaces(base) - 1 /\ j - 1 # 0 /\ (j - 1) + 1 = j
      BY <2>2, <1>4, SMT
    <3>2. Powers(base)[(j - 1) + 1] \div base = Powers(base)[j - 1]
      BY <3>1, <1>1, PlaceNext DEF Neighbours
    <3> QED BY <3>1, <3>2, <1>1, <1>3
  <2> QED BY <2>1, <2>2
<1>15. num' = (IF j - 1 = top THEN Num ELSE Lower(Num, base, (j - 1) + 1))
  <2>1. (j - 1) + 1 = j
    BY <1>4, SMT
  <2> QED BY <2>1, <1>1, <1>5, <1>13
<1>16. InDigits'
  <2>1. src' = 1 /\ value' = 0 /\ ds' = << >>
    BY <1>1 DEF InDigits
  <2> QED BY <2>1, <1>2, <1>10, <1>11, <1>12, <1>13, <1>14, <1>15 DEF InDigits
<1> QED BY <1>1, <1>9, <1>10, <1>16 DEF NumInv

LEMMA WrittenRepresents ==
    ASSUME IsMagnitude(Num), base \in {10, 16}, Written
    PROVE  Represents(text, base, Num) /\ Len(text) \in 1 .. NumPlaces(base)
           /\ \A i \in 1 .. Len(text) : text[i] = Digit(Num, base, Len(text) + 1 - i)
           /\ FirstPlace(Len(text))
<1>1. PICK top \in 1 .. NumPlaces(base) : FirstPlace(top) /\ WrittenTo(top, 0)
  BY DEF Written
<1>2. top \in Nat /\ top - 0 = top
  BY SMT DEF NumPlaces
<1>3. Len(text) = top /\ \A i \in 1 .. top : text[i] = Digit(Num, base, top + 1 - i)
  BY <1>1, <1>2 DEF WrittenTo
<1>4. Len(Powers(base)) = NumPlaces(base)
  BY PlaceBounds
<1>5. Upper(Num, base, top) < base
  BY <1>1 DEF FirstPlace
<1>6. Len(text) > 1 => text[1] # 0
  <2> HAVE Len(text) > 1
  <2>1. 1 \in 1 .. top /\ top + 1 - 1 = top /\ top # 1
    BY <1>2, <1>3, SMT
  <2>2. Powers(base)[top] <= Num
    BY <1>1, <2>1 DEF FirstPlace
  <2>3. Upper(Num, base, top) > 0 /\ Digit(Num, base, top) = Upper(Num, base, top)
    BY <2>2, <1>5, PlaceValues
  <2>4. text[1] = Digit(Num, base, top)
    BY <2>1, <1>3
  <2> QED BY <2>3, <2>4, SMT
<1>7. Represents(text, base, Num)
  BY <1>3, <1>4, <1>5, <1>6 DEF Represents, Digit, Upper
<1> QED BY <1>1, <1>3, <1>7

LEMMA WrittenStays ==
    ASSUME Written, UNCHANGED <<tried, base, text>>
    PROVE  Written' /\ Num' = Num /\ bwi2a' = bwi2a
<1>1. Num' = Num /\ bwi2a' = bwi2a
  BY DEF Num, bwi2a, Sign
<1> QED BY <1>1 DEF Written, FirstPlace, WrittenTo

LEMMA ReturnsStep == ASSUME NumInv, bwui2a_returns PROVE NumInv'
<1>1. /\ loop = "digits" /\ loop' = "read" /\ power = 0
      /\ UNCHANGED <<tried, base, num, power, text, src, value, ds>>
      /\ IsMagnitude(Num) /\ base \in {10, 16} /\ InDigits /\ text \in Seq(Int)
  BY DEF bwui2a_returns, NumInv
<1>2. PICK top \in 1 .. NumPlaces(base), j \in 0 .. 10 :
          /\ j <= top /\ FirstPlace(top) /\ WrittenTo(top, j)
          /\ power = IF j = 0 THEN 0 ELSE Powers(base)[j]
  BY <1>1 DEF InDigits
<1>3. j = 0
  <2> SUFFICES ASSUME j # 0 PROVE FALSE
    OBVIOUS
  <2>1. j \in 1 .. NumPlaces(base)
    BY <1>1, <1>2, SMT DEF NumPlaces
  <2>2. Powers(base)[j] \in Nat \ {0}
    BY <2>1, <1>1, PlaceBounds
  <2> QED BY <2>2, <1>1, <1>2
<1>4. Written
  BY <1>2, <1>3 DEF Written
<1>5. Written' /\ Num' = Num
  BY <1>1, <1>4, WrittenStays
<1>6. src' = 1 /\ value' = 0 /\ ds' = << >> /\ power' = 0
  BY <1>1 DEF InDigits
<1>7. Len(text') \in Nat
  BY <1>1
<1>8. src' \in 1 .. Len(text') + 1
  BY <1>6, <1>7, SMT
<1>9. InRead'
  BY <1>5, <1>6, <1>8 DEF InRead
<1> QED BY <1>1, <1>5, <1>9 DEF NumInv

\* While there are digits atLeft, one is read.
LEMMA DigitsAreRead ==
    ASSUME IsMagnitude(Num), base \in {10, 16}, InRead
    PROVE  IsRead <=> src # Len(text) + 1
<1>1. /\ Len(text) \in 1 .. NumPlaces(base) /\ NumPlaces(base) \in Nat
      /\ \A i \in 1 .. Len(text) : text[i] = Digit(Num, base, Len(text) + 1 - i)
  BY WrittenRepresents, SMT DEF InRead, NumPlaces
<1>2. src \in 1 .. Len(text) + 1
  BY DEF InRead
<1>3. CASE src = Len(text) + 1
  BY <1>1, <1>3, SMT DEF IsRead
<1>4. CASE src # Len(text) + 1
  <2>1. src \in 1 .. Len(text) /\ Len(text) + 1 - src \in 1 .. NumPlaces(base) /\ src <= Len(text)
    BY <1>1, <1>2, <1>4, SMT
  <2>2. text[src] = Digit(Num, base, Len(text) + 1 - src)
    BY <2>1, <1>1
  <2>3. Digit(Num, base, Len(text) + 1 - src) \in Nat /\ Digit(Num, base, Len(text) + 1 - src) < base
    BY <2>1, PlaceValues
  <2>4. text[src] <= base
    BY <2>2, <2>3, SMT
  <2> QED BY <2>1, <2>4, <1>4 DEF IsRead
<1> QED BY <1>3, <1>4

LEMMA ReadDigitStep == ASSUME NumInv, ReadDigit PROVE NumInv'
<1>1. /\ loop = "read" /\ IsRead /\ value' = value * base + text[src] /\ src' = src + 1
      /\ UNCHANGED <<tried, base, loop, num, power, text, ds>>
      /\ IsMagnitude(Num) /\ base \in {10, 16} /\ InRead /\ text \in Seq(Int)
  BY DEF ReadDigit, NumInv
<1>2. /\ Len(text) \in 1 .. NumPlaces(base) /\ NumPlaces(base) \in Nat
      /\ \A i \in 1 .. Len(text) : text[i] = Digit(Num, base, Len(text) + 1 - i)
      /\ FirstPlace(Len(text))
  BY <1>1, WrittenRepresents, SMT DEF InRead, NumPlaces
<1>3. src \in 1 .. Len(text)
  BY <1>1, <1>2, DigitsAreRead, SMT DEF InRead
<1> DEFINE k == Len(text) + 1 - src
<1>4. k \in 1 .. NumPlaces(base) /\ k \in Int
  BY <1>2, <1>3, SMT
<1>5. text[src] = Digit(Num, base, k)
  BY <1>2, <1>3
<1>6. value' = Upper(Num, base, k)
  <2>1. CASE src = 1
    <3>1. value = 0 /\ k = Len(text)
      BY <2>1, <1>1, <1>2, SMT DEF InRead
    <3>2. Upper(Num, base, k) < base
      BY <3>1, <1>2 DEF FirstPlace
    <3>3. Digit(Num, base, k) = Upper(Num, base, k) /\ Upper(Num, base, k) \in Nat
      BY <3>2, <1>1, <1>4, PlaceValues
    <3> HIDE DEF k
    <3> QED BY <3>1, <3>3, <1>1, <1>5, SMT
  <2>2. CASE src # 1
    <3>1. k \in 1 .. NumPlaces(base) - 1 /\ Len(text) + 2 - src = k + 1
      BY <2>2, <1>2, <1>3, SMT
    <3>2. value = Upper(Num, base, k + 1)
      BY <3>1, <2>2, <1>1 DEF InRead
    <3> HIDE DEF k
    <3>3. Upper(Num, base, k) = Upper(Num, base, k + 1) * base + Digit(Num, base, k)
      BY <3>1, <1>1, PlaceNext DEF Neighbours
    <3> QED BY <3>2, <3>3, <1>1, <1>5
  <2> QED BY <2>1, <2>2
<1>7. Written' /\ Num' = Num
  BY <1>1, WrittenStays DEF InRead
<1>8. src' \in 1 .. Len(text') + 1 /\ src' # 1 /\ Len(text') + 2 - src' = k
  BY <1>1, <1>2, <1>3, SMT
<1>9. power' = 0 /\ ds' = << >> /\ base' = base
  BY <1>1 DEF InRead
<1> HIDE DEF k
<1>10. InRead'
  BY <1>6, <1>7, <1>8, <1>9 DEF InRead
<1> QED BY <1>1, <1>7, <1>10 DEF NumInv

LEMMA ReadEndsStep == ASSUME NumInv, bwa2i_returns PROVE NumInv'
<1>1. /\ loop = "read" /\ ~ IsRead /\ num' = Num
      /\ loop' = IF base = 10 THEN "last digits" ELSE "over"
      /\ UNCHANGED <<tried, base, power, text, src, value, ds>>
      /\ IsMagnitude(Num) /\ base \in {10, 16} /\ InRead /\ text \in Seq(Int)
  BY DEF bwa2i_returns, NumInv, Num
<1>2. Len(text) \in 1 .. NumPlaces(base) /\ NumPlaces(base) \in Nat
  <2>1. Len(text) \in 1 .. NumPlaces(base)
    BY <1>1, WrittenRepresents DEF InRead
  <2>2. NumPlaces(base) \in Nat
    BY SMT DEF NumPlaces
  <2> QED BY <2>1, <2>2
<1>3. src = Len(text) + 1
  BY <1>1, DigitsAreRead
<1>4. src # 1 /\ Len(text) + 2 - src = 1
  BY <1>2, <1>3, SMT
<1>5. value = Upper(Num, base, 1)
  BY <1>1, <1>4 DEF InRead
<1>6. 1 \in 1 .. NumPlaces(base)
  BY <1>2, SMT
<1>7. Upper(Num, base, 1) = Num
  BY <1>1, <1>6, PlaceValues
<1>8. Written' /\ Num' = Num /\ bwi2a' = bwi2a
  BY <1>1, WrittenStays DEF InRead
<1>9. power' = 0 /\ ds' = << >> /\ value' = Num' /\ base' = base
  BY <1>1, <1>5, <1>7, <1>8 DEF InRead
<1>10. CASE base = 10
  <2>1. LastWritten(0)'
    BY <1>9, SMT DEF LastWritten
  <2>2. num' = (IF 0 = 10 THEN 0 ELSE Upper(Num, 10, 0 + 1)) /\ 0 \in 0 .. 10
    <3>1. 0 + 1 = 1 /\ 0 \in 0 .. 10 /\ 0 # 10
      BY SMT
    <3>2. Upper(Num, 10, 1) = Num
      BY <1>7, <1>10
    <3> QED BY <3>1, <3>2, <1>1
  <2>3. InLastDigits'
    BY <2>1, <2>2, <1>8, <1>9, <1>10 DEF InLastDigits
  <2> QED BY <2>3, <1>1, <1>8, <1>10 DEF NumInv
<1>11. CASE base # 10
  <2>1. InOver'
    BY <1>8, <1>9, <1>11 DEF InOver
  <2> QED BY <2>1, <1>1, <1>8, <1>11 DEF NumInv
<1> QED BY <1>10, <1>11

\* What Append and \o come to, for sequences of numbers
LEMMA AppendFacts ==
    ASSUME NEW s \in Seq(Int), NEW e \in Int, NEW k \in Nat, Len(s) = k
    PROVE  /\ Append(s, e) \in Seq(Int) /\ Len(Append(s, e)) = k + 1
           /\ \A i \in 1 .. k : Append(s, e)[i] = s[i]
           /\ Append(s, e)[k + 1] = e
BY SMT

LEMMA ConcatFacts ==
    ASSUME NEW s \in Seq(Int), NEW t \in Seq(Int)
    PROVE  /\ s \o t \in Seq(Int) /\ Len(s \o t) = Len(s) + Len(t)
           /\ \A i \in 1 .. Len(s) : (s \o t)[i] = s[i]
           /\ \A i \in 1 .. Len(t) : (s \o t)[Len(s) + i] = t[i]
BY SMT

LEMMA LastDigitStep == ASSUME NumInv, LastDigit PROVE NumInv'
<1>1. /\ loop = "last digits" /\ num > 0 /\ ds' = Append(ds, num % 10) /\ num' = num \div 10
      /\ UNCHANGED <<tried, base, loop, power, text, src, value>>
      /\ IsMagnitude(Num) /\ base = 10 /\ InLastDigits /\ ds \in Seq(Int)
  BY DEF LastDigit, NumInv, InLastDigits
<1>2. PICK k \in 0 .. 10 : LastWritten(k) /\ num = IF k = 10 THEN 0 ELSE Upper(Num, 10, k + 1)
  BY <1>1 DEF InLastDigits
<1>3. k # 10 /\ num = Upper(Num, 10, k + 1)
  <2>1. num > 0
    BY <1>1
  <2>2. num # 0
    BY <2>1, SMT
  <2> QED BY <2>2, <1>2
<1>4. k + 1 \in 1 .. NumPlaces(10) /\ NumPlaces(10) = 10 /\ k + 1 \in 0 .. 10 /\ k + 1 > 0
  BY <1>2, <1>3, SMT DEF NumPlaces
<1>5. Digit(Num, 10, k + 1) \in Int /\ num % 10 = Digit(Num, 10, k + 1)
  <2>1. Digit(Num, 10, k + 1) \in Nat
    BY <1>1, <1>4, PlaceValues
  <2> QED BY <2>1, <1>3 DEF Digit
<1>6. /\ ds' = Append(ds, Digit(Num, 10, k + 1)) /\ ds' \in Seq(Int)
      /\ Len(ds') = k + 1 /\ ds'[k + 1] = Digit(Num, 10, k + 1)
      /\ \A i \in 1 .. k : ds'[i] = ds[i]
  <2>0. k \in Nat
    BY SMT
  <2>1. ds \in Seq(Int) /\ Len(ds) = k
    BY <1>1, <1>2 DEF LastWritten
  <2>2. ds' = Append(ds, Digit(Num, 10, k + 1))
    BY <1>1, <1>5
  <2> QED BY <2>0, <2>1, <2>2, <1>5, AppendFacts
<1>7. Num' = Num /\ bwi2a' = bwi2a /\ Written'
  BY <1>1, WrittenStays DEF InLastDigits
<1>8. LastWritten(k + 1)'
  <2>2. Len(ds') = k + 1
    BY <1>6
  <2>3. ASSUME NEW i \in 1 .. k + 1 PROVE ds'[i] = Digit(Num, 10, i)
    <3>1. CASE i \in 1 .. k
      <4>1. ds[i] = Digit(Num, 10, i)
        BY <3>1, <1>2 DEF LastWritten
      <4> QED BY <4>1, <3>1, <1>6
    <3>2. CASE i \notin 1 .. k
      <4>1. i = k + 1
        BY <3>2, <1>2, SMT
      <4> QED BY <4>1, <1>6
    <3> QED BY <3>1, <3>2
  <2>4. Upper(Num, 10, k + 1) > 0
    BY <1>1, <1>3
  <2> QED BY <2>2, <2>3, <2>4, <1>7 DEF LastWritten
<1>9. num' = IF k + 1 = 10 THEN 0 ELSE Upper(Num, 10, (k + 1) + 1)
  <2>1. CASE k + 1 = 10
    <3>1. Upper(Num, 10, 10) < 10 /\ Upper(Num, 10, 10) \in Nat
      BY <2>1, <1>1, <1>4, PlaceValues
    <3>2. num = Upper(Num, 10, 10) /\ num' = num \div 10
      BY <2>1, <1>1, <1>3
    <3>3. Upper(Num, 10, 10) \div 10 = 0
      BY <3>1, SMT
    <3> QED BY <3>2, <3>3, <2>1
  <2>2. CASE k + 1 # 10
    <3>1. k + 1 \in 1 .. NumPlaces(10) - 1
      BY <2>2, <1>4, SMT
    <3>2. Upper(Num, 10, k + 1) \div 10 = Upper(Num, 10, (k + 1) + 1)
      BY <3>1, <1>1, PlaceNext DEF Neighbours
    <3> QED BY <3>2, <2>2, <1>1, <1>3
  <2> QED BY <2>1, <2>2
<1>10. power' = 0 /\ value' = Num /\ base' = 10
  BY <1>1 DEF InLastDigits
<1>11. InLastDigits'
  BY <1>4, <1>7, <1>8, <1>9, <1>10 DEF InLastDigits
<1> QED BY <1>1, <1>6, <1>7, <1>11 DEF NumInv

\* The two ways of finding the digits find as many.
LEMMA SameLength ==
    ASSUME IsMagnitude(Num), base = 10, Written, Num # 0,
           NEW k \in 0 .. 10, LastWritten(k), k # 10 => Upper(Num, 10, k + 1) = 0
    PROVE  k = Len(text)
<1>0. base \in {10, 16} /\ NumPlaces(10) = 10 /\ Num \in Nat /\ Num > 0
  BY SMT DEF NumPlaces, IsMagnitude
<1> DEFINE l == Len(text)
<1>1. l \in 1 .. 10 /\ FirstPlace(l)
  <2>1. l \in 1 .. NumPlaces(base) /\ FirstPlace(l)
    BY <1>0, WrittenRepresents
  <2> QED BY <2>1, <1>0
<1> HIDE DEF l
<1>2. Upper(Num, 10, l) < 10 /\ (l = 1 \/ Powers(10)[l] <= Num)
  BY <1>1 DEF FirstPlace
<1>3. Num < Powers(10)[l] * 10
  BY <1>0, <1>1, <1>2, PlaceValues
<1>4. k # 0
  <2> SUFFICES ASSUME k = 0 PROVE FALSE
    OBVIOUS
  <2>1. Upper(Num, 10, 1) = 0
    BY SMT
  <2>2. 1 \in 1 .. NumPlaces(10)
    BY <1>0, SMT
  <2>3. Upper(Num, 10, 1) = Num
    BY <1>0, <2>2, PlaceValues
  <2> QED BY <2>1, <2>3
<1>5. k \in 1 .. NumPlaces(10)
  BY <1>0, <1>4, SMT
<1>6. Powers(10)[k] <= Num
  <2>1. Upper(Num, 10, k) > 0
    BY <1>4, <1>5, SMT DEF LastWritten
  <2> QED BY <2>1, <1>0, <1>5, PlaceValues
<1>7. Powers(10)[k] \in Nat /\ Powers(10)[l] \in Nat
  BY <1>0, <1>1, <1>5, PlaceBounds
<1>8. ~ l < k
  <2> SUFFICES ASSUME l < k PROVE FALSE
    OBVIOUS
  <2>1. l \in 1 .. k - 1
    BY <1>1, <1>5, SMT
  <2>2. Powers(10)[l] * 10 <= Powers(10)[k]
    BY <2>1, <1>0, <1>5, PlaceBounds
  <2> QED BY <2>2, <1>0, <1>3, <1>6, <1>7, SMT
<1>9. ~ k < l
  <2> SUFFICES ASSUME k < l PROVE FALSE
    OBVIOUS
  <2>1. k \in 1 .. l - 1 /\ k + 1 \in 1 .. NumPlaces(10) /\ k # 10 /\ k \in 1 .. NumPlaces(10) - 1 /\ l # 1
    BY <1>0, <1>1, <1>5, SMT
  <2>2. Powers(10)[k] * 10 <= Powers(10)[l] /\ Powers(10)[l] <= Num
    BY <2>1, <1>0, <1>1, <1>2, PlaceBounds
  <2>3. ~ Upper(Num, 10, k + 1) > 0
    BY <2>1, SMT
  <2>4. ~ Powers(10)[k + 1] <= Num
    BY <2>3, <2>1, <1>0, PlaceValues
  <2>5. Powers(10)[k + 1] = Powers(10)[k] * 10
    BY <2>1, <1>0, PlaceNext DEF Neighbours
  <2> QED BY <2>2, <2>4, <2>5, <1>0, <1>7, SMT
<1>10. k = l
  BY <1>1, <1>5, <1>8, <1>9, SMT
<1> QED BY <1>10 DEF l

LEMMA LastDigitsDoneStep == ASSUME NumInv, LastDigitsDone PROVE NumInv'
<1>1. /\ loop = "last digits" /\ num = 0 /\ loop' = "over"
      /\ ds' = IF tried = 0 THEN <<0>> ELSE ds \o Sign
      /\ UNCHANGED <<tried, base, num, power, text, src, value>>
      /\ IsMagnitude(Num) /\ base = 10 /\ InLastDigits /\ ds \in Seq(Int)
      /\ tried \in Int /\ text \in Seq(Int)
  BY DEF LastDigitsDone, NumInv, InLastDigits
<1>2. PICK k \in 0 .. 10 : LastWritten(k) /\ num = IF k = 10 THEN 0 ELSE Upper(Num, 10, k + 1)
  BY <1>1 DEF InLastDigits
<1>3. Written /\ power = 0 /\ value = Num
  BY <1>1 DEF InLastDigits
<1>4. /\ Len(text) \in 1 .. 10
      /\ \A i \in 1 .. Len(text) : text[i] = Digit(Num, 10, Len(text) + 1 - i)
      /\ Represents(text, 10, Num)
  <2>1. NumPlaces(10) = 10
    BY SMT DEF NumPlaces
  <2>2. /\ Len(text) \in 1 .. NumPlaces(base)
        /\ \A i \in 1 .. Len(text) : text[i] = Digit(Num, base, Len(text) + 1 - i)
        /\ Represents(text, base, Num)
    BY <1>1, <1>3, WrittenRepresents
  <2>3. base = 10
    BY <1>1
  <2> QED BY <2>1, <2>2, <2>3
<1>5. CASE tried = 0
  <2>1. Num = 0
    BY <1>5, SMT DEF Num, Magnitude
  <2>2. bwi2a = text
    <3>1. Sign = << >>
      BY <1>5, SMT DEF Sign
    <3>2. << >> \o text = text
      <4>1. text \in Seq(Int)
        BY <1>1
      <4> QED BY <4>1, ConcatEmptySeq
    <3> QED BY <3>1, <3>2 DEF bwi2a
  <2>3. Len(text) = 1 /\ text[1] = 0
    <3>1. \A i \in 1 .. Len(text) : text[i] = 0
      <4> SUFFICES ASSUME NEW i \in 1 .. Len(text) PROVE text[i] = 0
        OBVIOUS
      <4>0. Len(text) \in 1 .. 10
        BY <1>4
      <4>1. Len(text) + 1 - i \in 1 .. 10 /\ 10 \in {10, 16} /\ NumPlaces(10) = 10
        <5> DEFINE l == Len(text)
        <5>0. l \in 1 .. 10 /\ i \in 1 .. l
          BY <4>0
        <5> HIDE DEF l
        <5>3. l + 1 - i \in 1 .. 10
          BY <5>0, SMT
        <5>1. Len(text) + 1 - i \in 1 .. 10
          BY <5>3 DEF l
        <5>2. NumPlaces(10) = 10
          BY SMT DEF NumPlaces
        <5> QED BY <5>1, <5>2
      <4>2. Digit(0, 10, Len(text) + 1 - i) = 0
        <5>1. IsMagnitude(0)
          BY <1>1, <2>1
        <5> DEFINE q == Len(text) + 1 - i
        <5> HIDE DEF q
        <5>2. q \in 1 .. NumPlaces(10)
          BY <4>1 DEF q
        <5>3. Upper(0, 10, q) \in Nat /\ Upper(0, 10, q) <= 0
          BY <5>1, <5>2, <4>1, PlaceValues
        <5>4. Digit(0, 10, q) = 0
          BY <5>3, SMT DEF Digit
        <5> QED BY <5>4 DEF q
      <4> QED BY <4>2, <1>4, <2>1
    <3>0. Len(text) \in 1 .. 10
      BY <1>4
    <3>2. 1 \in 1 .. Len(text)
      BY <3>0, SMT
    <3>3. ~ Len(text) > 1
      BY <3>1, <3>2, <1>4 DEF Represents
    <3>4. Len(text) = 1
      <4> DEFINE l == Len(text)
      <4>1. l \in 1 .. 10 /\ ~ l > 1
        BY <3>0, <3>3
      <4> HIDE DEF l
      <4>2. l = 1
        BY <4>1, SMT
      <4> QED BY <4>2 DEF l
    <3> QED BY <3>1, <3>2, <3>4
  <2>4. Mirrors(<<0>>, text)
    BY <2>3, SMT DEF Mirrors
  <2>5. ds' = <<0>> /\ bwi2a' = text
    BY <1>1, <1>3, <1>5, <2>2, WrittenStays
  <2>6. Mirrors(ds', bwi2a') /\ ds' \in Seq(Int)
    BY <2>4, <2>5
  <2> QED BY <2>6, <1>1, <1>3, WrittenStays DEF NumInv, InOver
<1>6. CASE tried # 0
  <2>1. Num # 0 /\ Sign \in Seq(Int) /\ Len(Sign) \in {0, 1}
    <3>1. Num # 0
      <4>1. tried \in Int
        BY <1>1
      <4> QED BY <4>1, <1>6, SMT DEF Num, Magnitude
    <3>2. Sign \in Seq(Int) /\ Len(Sign) \in {0, 1}
      BY SMT DEF Sign, Minus
    <3> QED BY <3>1, <3>2
  <2>2. k = Len(text)
    <3>1. k # 10 => Upper(Num, 10, k + 1) = 0
      BY <1>1, <1>2
    <3> QED BY <3>1, <2>1, <1>1, <1>2, <1>3, SameLength
  <2>3. Len(ds) = k /\ \A i \in 1 .. k : ds[i] = Digit(Num, 10, i)
    BY <1>2 DEF LastWritten
  <2>4. Mirrors(ds \o Sign, Sign \o text)
    <3> DEFINE m == Len(Sign)
    <3>0. ds \in Seq(Int) /\ text \in Seq(Int) /\ m \in {0, 1} /\ k \in Nat /\ Len(ds) = k /\ Len(text) = k
      <4>1. k \in Nat
        BY SMT
      <4> QED BY <4>1, <1>1, <2>1, <2>2, <2>3
    <3>1. /\ Len(ds \o Sign) = k + m
          /\ \A i \in 1 .. k : (ds \o Sign)[i] = ds[i]
          /\ \A i \in 1 .. m : (ds \o Sign)[k + i] = Sign[i]
      <4>1. /\ Len(ds \o Sign) = Len(ds) + Len(Sign)
            /\ \A i \in 1 .. Len(ds) : (ds \o Sign)[i] = ds[i]
            /\ \A i \in 1 .. Len(Sign) : (ds \o Sign)[Len(ds) + i] = Sign[i]
        BY <3>0, <2>1, ConcatFacts
      <4> QED BY <4>1, <3>0
    <3>2. /\ Len(Sign \o text) = m + k
          /\ \A i \in 1 .. m : (Sign \o text)[i] = Sign[i]
          /\ \A i \in 1 .. k : (Sign \o text)[m + i] = text[i]
      <4>1. /\ Len(Sign \o text) = Len(Sign) + Len(text)
            /\ \A i \in 1 .. Len(Sign) : (Sign \o text)[i] = Sign[i]
            /\ \A i \in 1 .. Len(text) : (Sign \o text)[Len(Sign) + i] = text[i]
        BY <3>0, <2>1, ConcatFacts
      <4> QED BY <4>1, <3>0
    <3> HIDE DEF m
    <3>3. k + m = m + k /\ k + m \in Nat
      BY <3>0, SMT
    <3>4. ASSUME NEW i \in 1 .. k + m
          PROVE  (Sign \o text)[i] = (ds \o Sign)[k + m + 1 - i]
      <4>1. CASE i <= m
        <5>1. i = 1 /\ 1 \in 1 .. m /\ k + m + 1 - i = k + 1
          BY <4>1, <3>0, SMT
        <5>2. (Sign \o text)[1] = Sign[1] /\ (ds \o Sign)[k + 1] = Sign[1]
          BY <5>1, <3>1, <3>2
        <5> QED BY <5>1, <5>2
      <4>2. CASE ~ i <= m
        <5> DEFINE j == i - m
        <5>1. j \in 1 .. k /\ i = m + j /\ k + m + 1 - i = k + 1 - j /\ k + 1 - j \in 1 .. k
          BY <4>2, <3>0, SMT
        <5> HIDE DEF j
        <5>2. (Sign \o text)[m + j] = text[j]
          BY <5>1, <3>2
        <5>3. (ds \o Sign)[k + 1 - j] = ds[k + 1 - j]
          BY <5>1, <3>1
        <5>4. text[j] = Digit(Num, 10, k + 1 - j) /\ ds[k + 1 - j] = Digit(Num, 10, k + 1 - j)
          BY <5>1, <1>4, <2>2, <2>3
        <5> QED BY <5>1, <5>2, <5>3, <5>4
      <4> QED BY <4>1, <4>2
    <3> QED BY <3>1, <3>2, <3>3, <3>4 DEF Mirrors
  <2>5. ds' = ds \o Sign /\ bwi2a' = Sign \o text
    BY <1>1, <1>3, <1>6, WrittenStays DEF bwi2a
  <2>6. Mirrors(ds', bwi2a')
    BY <2>4, <2>5
  <2>7. ds' \in Seq(Int)
    <3>1. ds \in Seq(Int)
      BY <1>1
    <3>2. ds \o Sign \in Seq(Int)
      BY <3>1, <2>1, ConcatFacts
    <3> QED BY <3>2, <2>5
  <2> QED BY <2>6, <2>7, <1>1, <1>3, WrittenStays DEF NumInv, InOver
<1> QED BY <1>5, <1>6

LEMMA NumInvStep == ASSUME NumInv, [NumNext]_numVars PROVE NumInv'
<1>1. CASE UNCHANGED numVars
  <2>1. UNCHANGED <<tried, base, loop, num, power, text, src, value, ds>>
    BY <1>1 DEF numVars
  <2>2. Num' = Num /\ bwi2a' = bwi2a
    BY <2>1 DEF Num, bwi2a, Sign
  <2>3. \A top, j : FirstPlace(top)' = FirstPlace(top) /\ WrittenTo(top, j)' = WrittenTo(top, j)
    BY <2>1, <2>2 DEF FirstPlace, WrittenTo
  <2>4. Written' = Written /\ \A k : LastWritten(k)' = LastWritten(k)
    BY <2>1, <2>2, <2>3 DEF Written, LastWritten
  <2>5. InScale' = InScale /\ InDigits' = InDigits
    BY <2>1, <2>2, <2>3 DEF InScale, InDigits
  <2>6. InRead' = InRead /\ InLastDigits' = InLastDigits /\ InOver' = InOver
    BY <2>1, <2>2, <2>4 DEF InRead, InLastDigits, InOver
  <2> QED BY <2>1, <2>2, <2>5, <2>6 DEF NumInv
<1> QED BY <1>1, ScaleStep, ScaledStep, WriteDigitStep, ReturnsStep, ReadDigitStep, ReadEndsStep,
           LastDigitStep, LastDigitsDoneStep DEF NumNext

-----------------------------------------------------------------------------
(* What the invariant says of the numbers that are read back *)

\* A text from its end is the text that ends in what was its beginning.
LEMMA MirroredIs ==
    ASSUME NEW s \in Seq(Int), NEW t \in Seq(Int), Mirrors(s, t)
    PROVE  [i \in 1 .. Len(s) |-> s[Len(s) + 1 - i]] = t
<1> DEFINE m == [i \in 1 .. Len(s) |-> s[Len(s) + 1 - i]]
<1>1. Len(s) = Len(t) /\ \A i \in 1 .. Len(s) : t[i] = s[Len(s) + 1 - i]
  BY DEF Mirrors
<1>2. DOMAIN t = 1 .. Len(s) /\ t = [i \in DOMAIN t |-> t[i]]
  BY <1>1, SMT
<1> QED BY <1>1, <1>2

\* No number has more digits than its places, nor more characters than one more.
LEMMA TextFits ==
    ASSUME IsMagnitude(Num), base \in {10, 16}, Written, text \in Seq(Int)
    PROVE  /\ bwi2a \in Seq(Int) /\ Len(bwi2a) <= 11
<1>1. Len(text) \in 1 .. NumPlaces(base)
  BY WrittenRepresents
<1>2. Sign \in Seq(Int) /\ Len(Sign) \in {0, 1}
  BY SMT DEF Sign, Minus
<1>3. bwi2a \in Seq(Int) /\ Len(bwi2a) = Len(Sign) + Len(text)
  BY <1>2, ConcatFacts DEF bwi2a
<1>4. NumPlaces(base) <= 10 /\ NumPlaces(base) \in Nat
  BY SMT DEF NumPlaces
<1> DEFINE l == Len(text)  m == Len(Sign)
<1>5. l \in 1 .. NumPlaces(base) /\ m \in {0, 1} /\ Len(bwi2a) = m + l
  BY <1>1, <1>2, <1>3
<1> HIDE DEF l, m
<1>6. m + l <= 11
  BY <1>4, <1>5, SMT
<1> QED BY <1>3, <1>5, <1>6

LEMMA PaddingFacts ==
    ASSUME NEW w \in Nat, NEW s \in Seq(Int)
    PROVE  /\ Padding(w, s) \in Seq(Int)
           /\ Len(Padding(w, s)) = IF w > Len(s) THEN w - Len(s) ELSE 0
           /\ \A i \in 1 .. Len(Padding(w, s)) : Padding(w, s)[i] = Blank
           /\ Padding(w, s) = [i \in 1 .. w - Len(s) |-> Blank]
<1> DEFINE p == [i \in 1 .. w - Len(s) |-> Blank]
<1>1. Len(s) \in Nat /\ Blank \in Int
  BY SMT DEF Blank
<1>2. 1 .. w - (IF w < Len(s) THEN w ELSE Len(s)) = 1 .. w - Len(s)
  <2>1. CASE w < Len(s)
    <3>1. w - w < 1 /\ w - Len(s) < 1
      BY <2>1, <1>1, SMT
    <3> QED BY <3>1, <2>1, <1>1, SMT
  <2>2. CASE ~ w < Len(s)
    BY <2>2
  <2> QED BY <2>1, <2>2
<1>3. Padding(w, s) = p
  BY <1>2 DEF Padding
<1>4. CASE w > Len(s)
  <2>1. w - Len(s) \in Nat
    BY <1>4, <1>1, SMT
  <2>2. p \in Seq(Int) /\ Len(p) = w - Len(s)
    BY <2>1, <1>1, SMT
  <2> QED BY <2>2, <1>3, <1>4
<1>5. CASE ~ w > Len(s)
  <2>1. 1 .. w - Len(s) = 1 .. 0
    BY <1>5, <1>1, SMT
  <2>2. p = [i \in 1 .. 0 |-> Blank]
    BY <2>1
  <2>3. [i \in 1 .. 0 |-> Blank] \in Seq(Int) /\ Len([i \in 1 .. 0 |-> Blank]) = 0
    BY <1>1, SMT
  <2>4. p \in Seq(Int) /\ Len(p) = 0
    BY <2>2, <2>3
  <2>5. \A i \in 1 .. Len(p) : p[i] = Blank
    <3>1. 1 .. 0 = {}
      BY SMT
    <3> QED BY <2>4, <3>1
  <2> HIDE DEF p
  <2> QED BY <2>4, <2>5, <1>3, <1>5 DEF p
<1> QED BY <1>4, <1>5

\* A field that is a text with blanks on one side of it is aligned.
LEMMA FieldAligned ==
    ASSUME NEW w \in Nat, NEW s \in Seq(Int), NEW atLeft \in BOOLEAN
    PROVE  Aligned(rbuf_align(w, atLeft, s), w, atLeft, s)
<1> DEFINE p == Padding(w, s)  m == Len(p)
<1>0. /\ p \in Seq(Int) /\ m = IF w > Len(s) THEN w - Len(s) ELSE 0
      /\ \A i \in 1 .. m : p[i] = Blank
  BY PaddingFacts
<1>1. CASE atLeft
  <2>1. rbuf_align(w, atLeft, s) = s \o p
    BY <1>1 DEF rbuf_align
  <2>2. /\ Len(s \o p) = Len(s) + m
        /\ \A i \in 1 .. Len(s) : (s \o p)[i] = s[i]
        /\ \A i \in 1 .. m : (s \o p)[Len(s) + i] = p[i]
    BY <1>0, ConcatFacts
  <2> HIDE DEF p, m
  <2>3. Len(s) \in Nat /\ m \in Nat
    BY <1>0, SMT
  <2>4. Len(s) + m = (IF w > Len(s) THEN w ELSE Len(s)) /\ Len(s) + m - Len(s) = m
    BY <1>0, <2>3, SMT
  <2> QED BY <2>1, <2>2, <2>4, <1>0, <1>1 DEF Aligned
<1>2. CASE ~ atLeft
  <2>1. rbuf_align(w, atLeft, s) = p \o s
    BY <1>2 DEF rbuf_align
  <2>2. /\ Len(p \o s) = m + Len(s)
        /\ \A i \in 1 .. m : (p \o s)[i] = p[i]
        /\ \A i \in 1 .. Len(s) : (p \o s)[m + i] = s[i]
    BY <1>0, ConcatFacts
  <2> HIDE DEF p, m
  <2>3. Len(s) \in Nat /\ m \in Nat
    BY <1>0, SMT
  <2>4. m + Len(s) = (IF w > Len(s) THEN w ELSE Len(s)) /\ m + Len(s) - Len(s) = m
    BY <1>0, <2>3, SMT
  <2>5. \A i \in 1 .. Len(s) : (p \o s)[Len(p \o s) - Len(s) + i] = s[i]
    BY <2>2, <2>4
  <2>6. \A i \in 1 .. Len(p \o s) - Len(s) : (p \o s)[i] = Blank
    BY <2>2, <2>4, <1>0
  <2>7. Len(p \o s) = (IF w > Len(s) THEN w ELSE Len(s))
    BY <2>2, <2>4
  <2> QED BY <2>1, <2>5, <2>6, <2>7, <1>2 DEF Aligned
<1> QED BY <1>1, <1>2

\* Both ways of writing a decimal put the same into a field.
LEMMA SameField ==
    ASSUME NEW w \in Nat, Mirrors(ds, bwi2a), ds \in Seq(Int), bwi2a \in Seq(Int)
    PROVE  rbuf_decw(w) = bwputw(w, bwi2a)
<1>1. [i \in 1 .. Len(ds) |-> ds[Len(ds) + 1 - i]] = bwi2a
  BY MirroredIs
<1>2. Padding(w, bwi2a) = [i \in 1 .. w - Len(bwi2a) |-> Blank]
  BY PaddingFacts
<1>3. Len(ds) = Len(bwi2a)
  BY DEF Mirrors
<1> QED BY <1>1, <1>2, <1>3 DEF rbuf_decw, bwputw

\* No power that bwui2a divides by is above the number, but the one that always divides.
LEMMA PowerFits == ASSUME NumInv PROVE power <= 1 \/ power <= Num
<1>0. IsMagnitude(Num) /\ Num \in Nat /\ base \in {10, 16}
      /\ loop \in {"scale", "digits", "read", "last digits", "over"}
  BY DEF NumInv, IsMagnitude
<1>1. CASE loop = "scale"
  <2>1. InScale
    BY <1>1 DEF NumInv
  <2>2. PICK k \in 1 .. NumPlaces(base) : power = Powers(base)[k] /\ (k = 1 \/ power <= Num)
    BY <2>1 DEF InScale
  <2>3. k = 1 => power = 1
    BY <2>2, <1>0, PlaceBounds
  <2> QED BY <2>2, <2>3, SMT
<1>2. CASE loop = "digits"
  <2>1. InDigits
    BY <1>2 DEF NumInv
  <2>2. PICK top \in 1 .. NumPlaces(base), j \in 0 .. 10 :
            j <= top /\ FirstPlace(top) /\ power = IF j = 0 THEN 0 ELSE Powers(base)[j]
    BY <2>1 DEF InDigits
  <2>3. CASE j = 0
    BY <2>2, <2>3, SMT
  <2>4. CASE j # 0 /\ j = top
    <3>1. power = Powers(base)[top] /\ (top = 1 \/ Powers(base)[top] <= Num)
      BY <2>2, <2>4 DEF FirstPlace
    <3>2. top = 1 => power = 1
      BY <3>1, <1>0, PlaceBounds
    <3> QED BY <3>1, <3>2, SMT
  <2>5. CASE j # 0 /\ j # top
    <3>0. NumPlaces(base) \in Nat /\ j <= top
      <4>1. NumPlaces(base) \in Nat
        BY SMT DEF NumPlaces
      <4> QED BY <4>1, <2>2
    <3>1. j \in 1 .. top - 1 /\ top # 1 /\ j \in 1 .. NumPlaces(base)
      BY <3>0, <2>5, SMT
    <3>2. Powers(base)[j] * base <= Powers(base)[top] /\ Powers(base)[top] \in Nat /\ Powers(base)[j] \in Nat
      BY <3>1, <1>0, PlaceBounds
    <3>3. Powers(base)[top] <= Num /\ power = Powers(base)[j]
      BY <3>1, <2>2, <2>5 DEF FirstPlace
    <3>4. Num \in Nat /\ base \in {10, 16}
      BY <1>0
    <3>5. power \in Nat /\ power * base <= Num
      BY <3>2, <3>3, <3>4, SMT
    <3>6. CASE base = 10
      BY <3>4, <3>5, <3>6, SMT
    <3>7. CASE base = 16
      BY <3>4, <3>5, <3>7, SMT
    <3> QED BY <3>4, <3>6, <3>7
  <2> QED BY <2>3, <2>4, <2>5
<1>3. CASE loop \in {"read", "last digits", "over"}
  <2>1. power = 0
    BY <1>3 DEF NumInv, InRead, InLastDigits, InOver
  <2> QED BY <2>1, SMT
<1> QED BY <1>0, <1>1, <1>2, <1>3

\* What bwa2i has read is a part of the number.
LEMMA ValueFits == ASSUME NumInv PROVE value <= Num
<1>0. IsMagnitude(Num) /\ Num \in Nat /\ base \in {10, 16}
      /\ loop \in {"scale", "digits", "read", "last digits", "over"}
  BY DEF NumInv, IsMagnitude
<1>1. CASE loop \in {"scale", "digits"}
  <2>1. value = 0
    BY <1>1 DEF NumInv, InScale, InDigits
  <2>2. Num \in Nat
    BY <1>0
  <2> QED BY <2>1, <2>2, SMT
<1>2. CASE loop \in {"last digits", "over"}
  <2>1. value = Num
    BY <1>2 DEF NumInv, InLastDigits, InOver
  <2>2. Num \in Nat
    BY <1>0
  <2> QED BY <2>1, <2>2, SMT
<1>3. CASE loop = "read"
  <2>1. InRead
    BY <1>3 DEF NumInv
  <2>2. /\ Written /\ src \in 1 .. Len(text) + 1
        /\ value = IF src = 1 THEN 0 ELSE Upper(Num, base, Len(text) + 2 - src)
    BY <2>1 DEF InRead
  <2>3. CASE src = 1
    <3>1. value = 0 /\ Num \in Nat
      BY <2>2, <2>3, <1>0
    <3> QED BY <3>1, SMT
  <2>4. CASE src # 1
    <3> DEFINE k == Len(text) + 2 - src
    <3>1. Len(text) \in 1 .. NumPlaces(base) /\ NumPlaces(base) \in Nat
      <4>1. Len(text) \in 1 .. NumPlaces(base)
        BY <2>2, <1>0, WrittenRepresents
      <4>2. NumPlaces(base) \in Nat
        BY SMT DEF NumPlaces
      <4> QED BY <4>1, <4>2
    <3>2. k \in 1 .. NumPlaces(base)
      BY <3>1, <2>2, <2>4, SMT
    <3>3. value = Upper(Num, base, k)
      BY <2>2, <2>4
    <3> HIDE DEF k
    <3>4. Upper(Num, base, k) <= Num
      BY <3>2, <1>0, PlaceValues
    <3> QED BY <3>3, <3>4
  <2> QED BY <2>3, <2>4
<1> QED BY <1>0, <1>1, <1>2, <1>3

\* NumbersReadBack, of every int but the least one: a number is its digits in
\* both bases, it reads back as itself without an overflow, both ways of
\* writing a decimal agree in a field of any width, and its trailing zeros
\* are counted (bwui2a, bwa2i, bwputw, rbuf_align, rbuf_decw, ctz32).
THEOREM AllNumbersReadBack ==
    ASSUME NumbersAssumption
    PROVE  NumSpec => []NumbersReadBack
<1>1. NumInit => NumInv
  BY NumInitInv
<1>2. NumInv /\ [NumNext]_numVars => NumInv'
  BY NumInvStep
<1>3. NumInv => NumbersReadBack
  <2> SUFFICES ASSUME NumInv PROVE NumbersReadBack
    OBVIOUS
  <2>0. IsMagnitude(Num) /\ base \in {10, 16} /\ text \in Seq(Int) /\ ds \in Seq(Int)
    BY DEF NumInv
  <2>1. (power <= 1 \/ power <= Num) /\ value <= Num
    BY PowerFits, ValueFits
  <2>2. loop \in {"read", "last digits", "over"} => Written
    BY DEF NumInv, InRead, InLastDigits, InOver
  <2>3. loop \in {"read", "last digits", "over"} => Represents(text, base, Num)
    BY <2>0, <2>2, WrittenRepresents
  <2>4. loop \in {"last digits", "over"} => value = Num
    BY DEF NumInv, InLastDigits, InOver
  <2>5. ASSUME loop = "over", base = 10
        PROVE  /\ rbuf_decw(0) = bwi2a /\ Len(bwi2a) <= 11
               /\ \A w \in WidthsTried :
                     /\ rbuf_decw(w) = bwputw(w, bwi2a)
                     /\ \A atLeft \in BOOLEAN : Aligned(rbuf_align(w, atLeft, bwi2a), w, atLeft, bwi2a)
    <3>1. Mirrors(ds, bwi2a)
      BY <2>5 DEF NumInv, InOver
    <3>2. bwi2a \in Seq(Int) /\ Len(bwi2a) <= 11
      BY <2>0, <2>2, <2>5, TextFits
    <3>3. \A w \in Nat : rbuf_decw(w) = bwputw(w, bwi2a)
      BY <3>1, <3>2, <2>0, SameField
    <3>4. \A w \in Nat, atLeft \in BOOLEAN : Aligned(rbuf_align(w, atLeft, bwi2a), w, atLeft, bwi2a)
      BY <3>2, FieldAligned
    <3>5. rbuf_decw(0) = bwi2a
      <4>1. Padding(0, bwi2a) = << >>
        <5>1. Len(bwi2a) \in Nat
          BY <3>2
        <5>2. ~ 0 > Len(bwi2a)
          BY <5>1, SMT
        <5>3. Padding(0, bwi2a) \in Seq(Int) /\ Len(Padding(0, bwi2a)) = 0
          BY <5>2, <3>2, PaddingFacts
        <5> QED BY <5>3, EmptySeq
      <4>2. bwputw(0, bwi2a) = bwi2a
        BY <4>1, <3>2, ConcatEmptySeq DEF bwputw
      <4> QED BY <4>2, <3>3
    <3>6. WidthsTried \subseteq Nat
      BY DEF NumbersAssumption
    <3> QED BY <3>2, <3>3, <3>4, <3>5, <3>6
  <2>6. Num # 0 => LowestBit(Num, ctz32(Num))
    BY <2>0, TrailingZeros DEF IsMagnitude
  <2> QED BY <2>1, <2>3, <2>4, <2>5, <2>6 DEF NumbersReadBack, LowestBit, Num
<1> QED BY <1>1, <1>2, <1>3, PTL DEF NumSpec
=============================================================================
