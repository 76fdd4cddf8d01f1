----------------------------- MODULE BoardProofs ----------------------------
(* The GPIO driver sets pins as asked although tasks interleave between the *)
(* accesses of its calls, the blink server keeps time, the functions of the *)
(* UART driver do what they are for in whatever mode they are called, and   *)
(* the scripts that set the clocks up wait for nothing that cannot come.    *)
EXTENDS Gpio, BlinkServer, Uart, ClockTree, SequenceTheorems, TLAPS

-----------------------------------------------------------------------------
(* The blink server *)

\* k full minutes have begun, and minute_counter half seconds since: of the
\* second that a double blink takes, the two that it stands for.
InMinute(k) ==
    /\ flips = -1 => /\ minute_counter \in 0 .. 119
                     /\ flipped_at = 60000 * k + 500 * minute_counter
                     /\ wakeup_time = flipped_at + 500
                     /\ pin_state = IF minute_counter % 2 = 0 THEN "high" ELSE "low"
                     /\ k = 0 => dbl_wu_time = 0
                     /\ k > 0 => dbl_wu_time = 60000 * k + 1000 /\ minute_counter >= 2
    /\ flips # -1 => /\ minute_counter = 120 /\ k > 0
                     /\ wakeup_time = 60000 * k
                     /\ flipped_at = 60000 * k + 250 * flips
                     /\ dbl_wu_time = flipped_at + 250
                     /\ pin_state = IF flips % 2 = 0 THEN "high" ELSE "low"

BlinkInv ==
    /\ flips \in -1 .. 3 /\ wakeup_time \in Nat /\ dbl_wu_time \in Nat /\ flipped_at \in Nat
    /\ \E k \in Nat : InMinute(k)

LEMMA BlinkStep == ASSUME BlinkInv, BlinkNext PROVE BlinkInv'
<1>1. PICK k \in Nat : InMinute(k)
  BY DEF BlinkInv
<1>2. flips \in -1 .. 3 /\ wakeup_time \in Nat /\ dbl_wu_time \in Nat /\ flipped_at \in Nat
  BY DEF BlinkInv
<1>3. CASE TimeGoesOn
  <2>1. UNCHANGED <<wakeup_time, dbl_wu_time, pin_state, minute_counter, flips, flipped_at>>
    BY <1>3 DEF TimeGoesOn
  <2>2. InMinute(k)'
    BY <1>1, <2>1 DEF InMinute
  <2> QED BY <1>2, <2>1, <2>2 DEF BlinkInv
<1>4. CASE HalfSecond
  <2>1. InMinute(k)'
    BY <1>1, <1>2, <1>4 DEF HalfSecond, Flip, Due, InMinute
  <2>2. flips' \in -1 .. 3 /\ wakeup_time' \in Nat /\ dbl_wu_time' \in Nat /\ flipped_at' \in Nat
    BY <1>2, <1>4 DEF HalfSecond, Flip, Due
  <2> QED BY <2>1, <2>2 DEF BlinkInv
<1>5. CASE Minute
  <2>1. InMinute(k + 1)'
    BY <1>1, <1>2, <1>5 DEF Minute, Flip, Due, InMinute
  <2>2. flips' \in -1 .. 3 /\ wakeup_time' \in Nat /\ dbl_wu_time' \in Nat /\ flipped_at' \in Nat
    BY <1>2, <1>5 DEF Minute, Flip, Due
  <2> QED BY <2>1, <2>2 DEF BlinkInv
<1>6. CASE QuarterSecond
  <2>1. InMinute(k)'
    BY <1>1, <1>2, <1>6 DEF QuarterSecond, Flip, Due, InMinute
  <2>2. flips' \in -1 .. 3 /\ wakeup_time' \in Nat /\ dbl_wu_time' \in Nat /\ flipped_at' \in Nat
    BY <1>2, <1>6 DEF QuarterSecond, Flip, Due
  <2> QED BY <2>1, <2>2 DEF BlinkInv
<1>7. CASE LastFlip
  <2>1. InMinute(k)'
    BY <1>1, <1>2, <1>7 DEF LastFlip, Flip, Due, InMinute
  <2>2. flips' \in -1 .. 3 /\ wakeup_time' \in Nat /\ dbl_wu_time' \in Nat /\ flipped_at' \in Nat
    BY <1>2, <1>7 DEF LastFlip, Flip, Due
  <2> QED BY <2>1, <2>2 DEF BlinkInv
<1> QED BY <1>3, <1>4, <1>5, <1>6, <1>7 DEF BlinkNext

\* In every state the server is some half second, or some flip of the double
\* blink, into some minute.
THEOREM BlinkCorrect == BlinkSpec => []BlinkInv
<1>1. BlinkInit => BlinkInv
  <2> SUFFICES ASSUME BlinkInit PROVE BlinkInv
    OBVIOUS
  <2>1. InMinute(0)
    BY DEF BlinkInit, InMinute
  <2> QED BY <2>1 DEF BlinkInit, BlinkInv
<1>2. BlinkInv /\ [BlinkNext]_blinkVars => BlinkInv'
  <2>1. BlinkInv /\ UNCHANGED blinkVars => BlinkInv'
    <3> SUFFICES ASSUME BlinkInv, UNCHANGED blinkVars PROVE BlinkInv'
      OBVIOUS
    <3>1. PICK k \in Nat : InMinute(k)
      BY DEF BlinkInv
    <3>2. InMinute(k)'
      BY <3>1 DEF blinkVars, InMinute
    <3> QED BY <3>2 DEF blinkVars, BlinkInv
  <2> QED BY <2>1, BlinkStep
<1> QED BY <1>1, <1>2, PTL DEF BlinkSpec

\* The double blink begins at each full minute, its asserts hold and the LED keeps
\* in step with the clock, for ever and however late the task runs.
THEOREM LedInTime == BlinkSpec => []BlinksInTime
<1>1. BlinkInv => BlinksInTime
  <2> SUFFICES ASSUME BlinkInv PROVE BlinksInTime
    OBVIOUS
  <2>1. PICK k \in Nat : InMinute(k)
    BY DEF BlinkInv
  <2>2. flips \in -1 .. 3
    BY DEF BlinkInv
  <2>3. CASE flips = -1
    <3>1. PICK n \in 0 .. 119 : n = minute_counter
      BY <2>1, <2>3 DEF InMinute
    <3>2. flipped_at = 500 * (120 * k + n) /\ flipped_at = 60000 * k + 500 * n
      BY <2>1, <2>3, <3>1 DEF InMinute
    <3>3. flipped_at \div 500 = 120 * k + n /\ flipped_at % 60000 = 500 * n
      BY <3>2
    <3>4. (120 * k + n) % 2 = n % 2
      OBVIOUS
    <3>5. pin_state = "high" <=> (flipped_at \div 500) % 2 = 0
      BY <2>1, <2>3, <3>1, <3>3, <3>4 DEF InMinute
    <3>6. BlinkAssertsHold
      BY <2>1, <2>3 DEF BlinkAssertsHold, InMinute
    <3>7. ~ (flipped_at > 0 /\ flipped_at % 60000 = 0)
      BY <2>1, <2>3, <3>1, <3>2, <3>3 DEF InMinute
    <3> QED BY <2>3, <3>5, <3>6, <3>7 DEF BlinksInTime
  <2>4. CASE flips # -1
    <3>1. flipped_at = 60000 * k + 250 * flips /\ k > 0
      BY <2>1, <2>4 DEF InMinute
    <3>2. flipped_at > 0 /\ flipped_at % 60000 = 250 * flips
      BY <2>2, <2>4, <3>1
    <3>3. BlinkAssertsHold
      BY <2>1, <2>2, <2>4 DEF BlinkAssertsHold, InMinute
    <3> QED BY <2>2, <2>4, <3>2, <3>3 DEF BlinksInTime
  <2> QED BY <2>3, <2>4
<1> QED BY <1>1, BlinkCorrect, PTL

-----------------------------------------------------------------------------
(* The GPIO driver *)

Regs == PinRegs \cup BitRegs
StrobeRegs == {"DATAOUT"} \cup {INTEN[l] : l \in Lines} \cup {STATUS[l] : l \in Lines}
Anything == Pins \cup (0 .. 4)

Accesses == [reg : Regs, op : {"set", "clear", "put"}, bits : SUBSET Anything, atomic : BOOLEAN]

\* An access changes the bit of p in r
Touches(a, r, p) == a.reg = r /\ (a.op = "put" \/ p \in a.bits)

\* and leaves it as 1.
Leaves(a, p) == a.op = "set" \/ (a.op = "put" /\ p \in a.bits)

\* The last access of s that changes it
LastTouch(s, i, r, p) ==
    /\ i \in 1 .. Len(s) /\ Touches(s[i], r, p)
    /\ \A j \in i + 1 .. Len(s) : ~ Touches(s[j], r, p)

Untouched(s, r, p) == \A i \in 1 .. Len(s) : ~ Touches(s[i], r, p)

\* An access that task t may have to make
AccessOf(a, t) ==
    /\ Exposed(a) <=> a.reg \notin StrobeRegs
    /\ a.op = "put" => a.reg \in {"CTRL", "OE"}
    /\ a.op # "put" /\ a.reg \in PinRegs => \A p \in Pins : p \in a.bits => Owner[p] = t

\* The bit that want asks for
Wanted(w, r, p) ==
    \/ r = "OE" /\ w[p].dir = "input"
    \/ r = "DATAOUT" /\ w[p].high
    \/ r = "DEBOUNCE" /\ w[p].debounce
    \/ r = "LEVEL0" /\ w[p].type.low
    \/ r = "LEVEL1" /\ w[p].type.high
    \/ r = "RISING" /\ w[p].type.rising
    \/ r = "FALLING" /\ w[p].type.falling
    \/ \E l \in Lines : \/ r = INTEN[l] /\ w[p].enabled[l]
                        \/ r = STATUS[l] /\ w[p].status[l]
                        \/ r = WAKEN[l] /\ w[p].waken[l]

Bool == BOOLEAN
TypeShape == [low : Bool, high : Bool, rising : Bool, falling : Bool]
WantShape == [dir : {"input", "output"}, high : Bool, debounce : Bool,
              enabled : [Lines -> Bool], waken : [Lines -> Bool],
              status : [Lines -> Bool], type : TypeShape]

GpioTypes ==
    /\ gpio \in [Regs -> SUBSET Anything]
    /\ context \in [ctrl : SUBSET Anything, dir : SUBSET Anything]
    /\ DOMAIN loaded = GpioTasks
    /\ todo \in [GpioTasks -> Seq(Accesses)]
    /\ \A t \in GpioTasks : /\ Len(todo[t]) \in 0 .. 2
                            /\ \A i \in 1 .. Len(todo[t]) : AccessOf(todo[t][i], t)
    /\ want \in [Pins -> WantShape]

OneConfigures == \A t, u \in GpioTasks : Configures(todo[t]) /\ Configures(todo[u]) => t = u

LoadedCurrent ==
    \A t \in GpioTasks : loaded[t] # << >> =>
        todo[t] # << >> /\ ~ Head(todo[t]).atomic /\ loaded[t] = <<gpio[Head(todo[t]).reg]>>

Asked ==
    \A p \in Pins, r \in PinRegs :
        /\ \A t \in GpioTasks, i \in 1 .. 2 : LastTouch(todo[t], i, r, p) => (Wanted(want, r, p) <=> Leaves(todo[t][i], p))
        /\ (\A t \in GpioTasks : Untouched(todo[t], r, p)) => (Wanted(want, r, p) <=> p \in gpio[r])

GpioInv == GpioTypes /\ OneConfigures /\ LoadedCurrent /\ Asked

-----------------------------------------------------------------------------

Plain == {"OE", "DATAOUT", "LEVEL0", "LEVEL1", "RISING", "FALLING", "DEBOUNCE"}

\* The registers have different names.
LEMMA RegNames ==
    /\ \A l \in Lines : /\ INTEN[l] \notin Plain /\ STATUS[l] \notin Plain /\ WAKEN[l] \notin Plain
                        /\ INTEN[l] \in PinRegs /\ STATUS[l] \in PinRegs /\ WAKEN[l] \in PinRegs
    /\ \A l, k \in Lines : /\ INTEN[l] # STATUS[k] /\ INTEN[l] # WAKEN[k] /\ STATUS[l] # WAKEN[k]
                           /\ (INTEN[l] = INTEN[k] \/ STATUS[l] = STATUS[k] \/ WAKEN[l] = WAKEN[k]) => l = k
    /\ Plain \subseteq PinRegs
<1>1. /\ INTEN[1] = "IRQSTATUS_SET_0" /\ INTEN[2] = "IRQSTATUS_SET_1"
      /\ STATUS[1] = "IRQSTATUS_RAW_0" /\ STATUS[2] = "IRQSTATUS_RAW_1"
      /\ WAKEN[1] = "IRQWAKEN_0" /\ WAKEN[2] = "IRQWAKEN_1"
  BY DEF INTEN, STATUS, WAKEN
<1>2. /\ \A l \in Lines : INTEN[l] \in PinRegs /\ STATUS[l] \in PinRegs /\ WAKEN[l] \in PinRegs
      /\ Plain \subseteq PinRegs
  BY DEF PinRegs, Plain
<1> QED BY <1>1, <1>2 DEF Lines, Plain

LEMMA WantedAt ==
    ASSUME NEW w, NEW p
    PROVE  /\ Wanted(w, "OE", p) <=> w[p].dir = "input"
           /\ Wanted(w, "DATAOUT", p) <=> w[p].high
           /\ Wanted(w, "DEBOUNCE", p) <=> w[p].debounce
           /\ Wanted(w, "LEVEL0", p) <=> w[p].type.low
           /\ Wanted(w, "LEVEL1", p) <=> w[p].type.high
           /\ Wanted(w, "RISING", p) <=> w[p].type.rising
           /\ Wanted(w, "FALLING", p) <=> w[p].type.falling
           /\ \A l \in Lines : /\ Wanted(w, INTEN[l], p) <=> w[p].enabled[l]
                               /\ Wanted(w, STATUS[l], p) <=> w[p].status[l]
                               /\ Wanted(w, WAKEN[l], p) <=> w[p].waken[l]
<1>1. \A l \in Lines : \A r \in Plain : INTEN[l] # r /\ STATUS[l] # r /\ WAKEN[l] # r
  BY RegNames
<1>2. \A r \in Plain : Wanted(w, r, p) <=> 
        \/ r = "OE" /\ w[p].dir = "input"
        \/ r = "DATAOUT" /\ w[p].high
        \/ r = "DEBOUNCE" /\ w[p].debounce
        \/ r = "LEVEL0" /\ w[p].type.low
        \/ r = "LEVEL1" /\ w[p].type.high
        \/ r = "RISING" /\ w[p].type.rising
        \/ r = "FALLING" /\ w[p].type.falling
  BY <1>1, Zenon DEF Wanted
<1>3. "OE" \in Plain /\ "DATAOUT" \in Plain /\ "DEBOUNCE" \in Plain /\ "LEVEL0" \in Plain
      /\ "LEVEL1" \in Plain /\ "RISING" \in Plain /\ "FALLING" \in Plain
  BY DEF Plain
<1>4. /\ Wanted(w, "OE", p) <=> w[p].dir = "input"
      /\ Wanted(w, "DATAOUT", p) <=> w[p].high
      /\ Wanted(w, "DEBOUNCE", p) <=> w[p].debounce
      /\ Wanted(w, "LEVEL0", p) <=> w[p].type.low
      /\ Wanted(w, "LEVEL1", p) <=> w[p].type.high
      /\ Wanted(w, "RISING", p) <=> w[p].type.rising
      /\ Wanted(w, "FALLING", p) <=> w[p].type.falling
  BY <1>2, <1>3, Zenon
<1>5. ASSUME NEW l \in Lines
      PROVE  /\ Wanted(w, INTEN[l], p) <=> w[p].enabled[l]
             /\ Wanted(w, STATUS[l], p) <=> w[p].status[l]
             /\ Wanted(w, WAKEN[l], p) <=> w[p].waken[l]
  <2>1. \A r \in Plain : INTEN[l] # r /\ STATUS[l] # r /\ WAKEN[l] # r
    BY <1>1
  <2>2. \A k \in Lines : /\ INTEN[l] # STATUS[k] /\ INTEN[l] # WAKEN[k] /\ STATUS[l] # WAKEN[k]
                         /\ INTEN[k] # STATUS[l] /\ INTEN[k] # WAKEN[l] /\ STATUS[k] # WAKEN[l]
                         /\ (INTEN[l] = INTEN[k] \/ STATUS[l] = STATUS[k] \/ WAKEN[l] = WAKEN[k]) => l = k
    BY RegNames
  <2>3. Wanted(w, INTEN[l], p) <=> w[p].enabled[l]
    BY <1>3, <2>1, <2>2, Zenon DEF Wanted
  <2>4. Wanted(w, STATUS[l], p) <=> w[p].status[l]
    BY <1>3, <2>1, <2>2, Zenon DEF Wanted
  <2>5. Wanted(w, WAKEN[l], p) <=> w[p].waken[l]
    BY <1>3, <2>1, <2>2, Zenon DEF Wanted
  <2> QED BY <2>3, <2>4, <2>5
<1> QED BY <1>4, <1>5, Zenon

\* m asks for what want does, but that the bits of p in the registers R are v.
Asks(m, p, R, v) ==
    /\ m \in [Pins -> WantShape]
    /\ \A q \in Pins, r \in PinRegs :
          Wanted(m, r, q) <=> IF q = p /\ r \in R THEN v ELSE Wanted(want, r, q)

LEMMA MeansDirMode ==
    ASSUME want \in [Pins -> WantShape], NEW p \in Pins, NEW x \in {"input", "output"}
    PROVE  Asks(Means(want, p, "DirMode", x, 0), p, {"OE"}, x = "input")
<1> DEFINE m == Means(want, p, "DirMode", x, 0)
<1>1. m = [want EXCEPT ![p].dir = x]
  BY DEF Means
<1>2. m \in [Pins -> WantShape]
  BY <1>1 DEF WantShape
<1>3. ASSUME NEW q \in Pins
      PROVE  /\ m[q].dir = (IF q = p THEN x ELSE want[q].dir)
             /\ m[q].high = want[q].high /\ m[q].debounce = want[q].debounce /\ m[q].enabled = want[q].enabled
             /\ m[q].waken = want[q].waken /\ m[q].status = want[q].status /\ m[q].type = want[q].type
  BY <1>1 DEF WantShape
<1>4. ASSUME NEW q \in Pins, NEW r \in PinRegs
      PROVE  Wanted(m, r, q) <=> IF q = p /\ r \in {"OE"} THEN x = "input" ELSE Wanted(want, r, q)
  <2> HIDE DEF m
  <2>1. CASE q = p /\ r = "OE"
    <3>1. Wanted(m, "OE", q) <=> m[q].dir = "input"
      BY WantedAt, Zenon
    <3> QED BY <1>3, <2>1, <3>1, Zenon
  <2>2. CASE q = p /\ r # "OE"
    BY <1>3, <2>2, Zenon DEF Wanted
  <2>3. CASE q # p
    BY <1>3, <2>3, Zenon DEF Wanted
  <2> QED BY <2>1, <2>2, <2>3
<1> HIDE DEF m
<1>5. Asks(m, p, {"OE"}, x = "input")
  BY <1>2, <1>4, Zenon DEF Asks
<1> QED BY <1>5 DEF m

LEMMA MeansWrite ==
    ASSUME want \in [Pins -> WantShape], NEW p \in Pins, NEW x \in Bool
    PROVE  Asks(Means(want, p, "Write", x, 0), p, {"DATAOUT"}, x)
<1> DEFINE m == Means(want, p, "Write", x, 0)
<1>1. m = [want EXCEPT ![p].high = x]
  BY DEF Means
<1>2. m \in [Pins -> WantShape]
  BY <1>1 DEF WantShape
<1>3. ASSUME NEW q \in Pins
      PROVE  /\ m[q].high = (IF q = p THEN x ELSE want[q].high)
             /\ m[q].dir = want[q].dir /\ m[q].debounce = want[q].debounce /\ m[q].enabled = want[q].enabled
             /\ m[q].waken = want[q].waken /\ m[q].status = want[q].status /\ m[q].type = want[q].type
  BY <1>1 DEF WantShape
<1>4. ASSUME NEW q \in Pins, NEW r \in PinRegs
      PROVE  Wanted(m, r, q) <=> IF q = p /\ r \in {"DATAOUT"} THEN x ELSE Wanted(want, r, q)
  <2> HIDE DEF m
  <2>1. CASE q = p /\ r = "DATAOUT"
    <3>1. Wanted(m, "DATAOUT", q) <=> m[q].high
      BY WantedAt, Zenon
    <3> QED BY <1>3, <2>1, <3>1, Zenon
  <2>2. CASE q = p /\ r # "DATAOUT"
    BY <1>3, <2>2, Zenon DEF Wanted
  <2>3. CASE q # p
    BY <1>3, <2>3, Zenon DEF Wanted
  <2> QED BY <2>1, <2>2, <2>3
<1> HIDE DEF m
<1>5. Asks(m, p, {"DATAOUT"}, x)
  BY <1>2, <1>4, Zenon DEF Asks
<1> QED BY <1>5 DEF m

LEMMA MeansDebounce ==
    ASSUME want \in [Pins -> WantShape], NEW p \in Pins, NEW x \in Bool
    PROVE  Asks(Means(want, p, "Debounce", x, 0), p, {"DEBOUNCE"}, x)
<1> DEFINE m == Means(want, p, "Debounce", x, 0)
<1>1. m = [want EXCEPT ![p].debounce = x]
  BY DEF Means
<1>2. m \in [Pins -> WantShape]
  BY <1>1 DEF WantShape
<1>3. ASSUME NEW q \in Pins
      PROVE  /\ m[q].debounce = (IF q = p THEN x ELSE want[q].debounce)
             /\ m[q].dir = want[q].dir /\ m[q].high = want[q].high /\ m[q].enabled = want[q].enabled
             /\ m[q].waken = want[q].waken /\ m[q].status = want[q].status /\ m[q].type = want[q].type
  BY <1>1 DEF WantShape
<1>4. ASSUME NEW q \in Pins, NEW r \in PinRegs
      PROVE  Wanted(m, r, q) <=> IF q = p /\ r \in {"DEBOUNCE"} THEN x ELSE Wanted(want, r, q)
  <2> HIDE DEF m
  <2>1. CASE q = p /\ r = "DEBOUNCE"
    <3>1. Wanted(m, "DEBOUNCE", q) <=> m[q].debounce
      BY WantedAt, Zenon
    <3> QED BY <1>3, <2>1, <3>1, Zenon
  <2>2. CASE q = p /\ r # "DEBOUNCE"
    BY <1>3, <2>2, Zenon DEF Wanted
  <2>3. CASE q # p
    BY <1>3, <2>3, Zenon DEF Wanted
  <2> QED BY <2>1, <2>2, <2>3
<1> HIDE DEF m
<1>5. Asks(m, p, {"DEBOUNCE"}, x)
  BY <1>2, <1>4, Zenon DEF Asks
<1> QED BY <1>5 DEF m

LEMMA MeansIntEnable ==
    ASSUME want \in [Pins -> WantShape], NEW p \in Pins, NEW l \in Lines, NEW y \in Bool
    PROVE  Asks(Means(want, p, "IntEnable", l, y), p, {INTEN[l]}, y)
<1> DEFINE m == Means(want, p, "IntEnable", l, y)
<1>1. m = [want EXCEPT ![p].enabled[l] = y]
  BY DEF Means
<1>2. m \in [Pins -> WantShape]
  <2> DEFINE e == [want[p].enabled EXCEPT ![l] = y]
  <2>1. e \in [Lines -> Bool]
    BY DEF WantShape
  <2> DEFINE w == [want[p] EXCEPT !.enabled = e]
  <2>2. m = [want EXCEPT ![p] = w]
    BY <1>1
  <2> HIDE DEF e, m
  <2>3. w \in WantShape
    <3>1. want[p] \in WantShape
      OBVIOUS
    <3> QED BY <2>1, <3>1 DEF WantShape
  <2> HIDE DEF w
  <2> QED BY <2>2, <2>3
<1>3. ASSUME NEW q \in Pins
      PROVE  /\ \A k \in Lines : m[q].enabled[k] = (IF q = p /\ k = l THEN y ELSE want[q].enabled[k])
             /\ m[q].dir = want[q].dir /\ m[q].high = want[q].high /\ m[q].debounce = want[q].debounce
             /\ m[q].waken = want[q].waken /\ m[q].status = want[q].status /\ m[q].type = want[q].type
  <2>0. m[q] = IF q = p THEN [want[p] EXCEPT !.enabled = [@ EXCEPT ![l] = y]] ELSE want[q]
    BY <1>1
  <2>t. want[q] \in WantShape /\ want[p] \in WantShape
    OBVIOUS
  <2> HIDE DEF m
  <2>1. m[q].enabled = (IF q = p THEN [want[p].enabled EXCEPT ![l] = y] ELSE want[q].enabled)
    BY <2>0, <2>t DEF WantShape
  <2>2. /\ m[q].dir = want[q].dir /\ m[q].high = want[q].high /\ m[q].debounce = want[q].debounce
        /\ m[q].waken = want[q].waken /\ m[q].status = want[q].status /\ m[q].type = want[q].type
    BY <2>0, <2>t DEF WantShape
  <2>3. want[p].enabled \in [Lines -> Bool]
    BY DEF WantShape
  <2> QED BY <2>1, <2>2, <2>3
<1>4. ASSUME NEW q \in Pins, NEW r \in PinRegs
      PROVE  Wanted(m, r, q) <=> IF q = p /\ r \in {INTEN[l]} THEN y ELSE Wanted(want, r, q)
  <2> HIDE DEF m
  <2>1. CASE q = p /\ r = INTEN[l]
    <3>1. Wanted(m, INTEN[l], q) <=> m[q].enabled[l]
      BY WantedAt, Zenon
    <3> QED BY <1>3, <2>1, <3>1, Zenon
  <2>2. CASE q = p /\ r # INTEN[l]
    <3>1. \A k \in Lines : r = INTEN[k] => m[q].enabled[k] = want[q].enabled[k]
      BY <1>3, <2>2, Zenon
    <3>2. /\ m[q].dir = want[q].dir /\ m[q].high = want[q].high /\ m[q].debounce = want[q].debounce
          /\ m[q].waken = want[q].waken /\ m[q].status = want[q].status /\ m[q].type = want[q].type
      BY <1>3, Zenon
    <3> QED BY <2>2, <3>1, <3>2, Zenon DEF Wanted
  <2>3. CASE q # p
    BY <1>3, <2>3, Zenon DEF Wanted
  <2> QED BY <2>1, <2>2, <2>3
<1> HIDE DEF m
<1>5. Asks(m, p, {INTEN[l]}, y)
  BY <1>2, <1>4, Zenon DEF Asks
<1> QED BY <1>5, Zenon DEF m

LEMMA MeansWakeUp ==
    ASSUME want \in [Pins -> WantShape], NEW p \in Pins, NEW l \in Lines, NEW y \in Bool
    PROVE  Asks(Means(want, p, "WakeUp", l, y), p, {WAKEN[l]}, y)
<1> DEFINE m == Means(want, p, "WakeUp", l, y)
<1>1. m = [want EXCEPT ![p].waken[l] = y]
  BY DEF Means
<1>2. m \in [Pins -> WantShape]
  <2> DEFINE e == [want[p].waken EXCEPT ![l] = y]
  <2>1. e \in [Lines -> Bool]
    BY DEF WantShape
  <2> DEFINE w == [want[p] EXCEPT !.waken = e]
  <2>2. m = [want EXCEPT ![p] = w]
    BY <1>1
  <2> HIDE DEF e, m
  <2>3. w \in WantShape
    <3>1. want[p] \in WantShape
      OBVIOUS
    <3> QED BY <2>1, <3>1 DEF WantShape
  <2> HIDE DEF w
  <2> QED BY <2>2, <2>3
<1>3. ASSUME NEW q \in Pins
      PROVE  /\ \A k \in Lines : m[q].waken[k] = (IF q = p /\ k = l THEN y ELSE want[q].waken[k])
             /\ m[q].dir = want[q].dir /\ m[q].high = want[q].high /\ m[q].debounce = want[q].debounce
             /\ m[q].enabled = want[q].enabled /\ m[q].status = want[q].status /\ m[q].type = want[q].type
  <2>0. m[q] = IF q = p THEN [want[p] EXCEPT !.waken = [@ EXCEPT ![l] = y]] ELSE want[q]
    BY <1>1
  <2>t. want[q] \in WantShape /\ want[p] \in WantShape
    OBVIOUS
  <2> HIDE DEF m
  <2>1. m[q].waken = (IF q = p THEN [want[p].waken EXCEPT ![l] = y] ELSE want[q].waken)
    BY <2>0, <2>t DEF WantShape
  <2>2. /\ m[q].dir = want[q].dir /\ m[q].high = want[q].high /\ m[q].debounce = want[q].debounce
        /\ m[q].enabled = want[q].enabled /\ m[q].status = want[q].status /\ m[q].type = want[q].type
    BY <2>0, <2>t DEF WantShape
  <2>3. want[p].waken \in [Lines -> Bool]
    BY DEF WantShape
  <2> QED BY <2>1, <2>2, <2>3
<1>4. ASSUME NEW q \in Pins, NEW r \in PinRegs
      PROVE  Wanted(m, r, q) <=> IF q = p /\ r \in {WAKEN[l]} THEN y ELSE Wanted(want, r, q)
  <2> HIDE DEF m
  <2>1. CASE q = p /\ r = WAKEN[l]
    <3>1. Wanted(m, WAKEN[l], q) <=> m[q].waken[l]
      BY WantedAt, Zenon
    <3> QED BY <1>3, <2>1, <3>1, Zenon
  <2>2. CASE q = p /\ r # WAKEN[l]
    <3>1. \A k \in Lines : r = WAKEN[k] => m[q].waken[k] = want[q].waken[k]
      BY <1>3, <2>2, Zenon
    <3>2. /\ m[q].dir = want[q].dir /\ m[q].high = want[q].high /\ m[q].debounce = want[q].debounce
          /\ m[q].enabled = want[q].enabled /\ m[q].status = want[q].status /\ m[q].type = want[q].type
      BY <1>3, Zenon
    <3> QED BY <2>2, <3>1, <3>2, Zenon DEF Wanted
  <2>3. CASE q # p
    BY <1>3, <2>3, Zenon DEF Wanted
  <2> QED BY <2>1, <2>2, <2>3
<1> HIDE DEF m
<1>5. Asks(m, p, {WAKEN[l]}, y)
  BY <1>2, <1>4, Zenon DEF Asks
<1> QED BY <1>5, Zenon DEF m

LEMMA MeansStatus ==
    ASSUME want \in [Pins -> WantShape], NEW p \in Pins, NEW l \in Lines, NEW y \in Bool
    PROVE  Asks(Means(want, p, "Status", l, y), p, {STATUS[l]}, y)
<1> DEFINE m == Means(want, p, "Status", l, y)
<1>1. m = [want EXCEPT ![p].status[l] = y]
  BY DEF Means
<1>2. m \in [Pins -> WantShape]
  <2> DEFINE e == [want[p].status EXCEPT ![l] = y]
  <2>1. e \in [Lines -> Bool]
    BY DEF WantShape
  <2> DEFINE w == [want[p] EXCEPT !.status = e]
  <2>2. m = [want EXCEPT ![p] = w]
    BY <1>1
  <2> HIDE DEF e, m
  <2>3. w \in WantShape
    <3>1. want[p] \in WantShape
      OBVIOUS
    <3> QED BY <2>1, <3>1 DEF WantShape
  <2> HIDE DEF w
  <2> QED BY <2>2, <2>3
<1>3. ASSUME NEW q \in Pins
      PROVE  /\ \A k \in Lines : m[q].status[k] = (IF q = p /\ k = l THEN y ELSE want[q].status[k])
             /\ m[q].dir = want[q].dir /\ m[q].high = want[q].high /\ m[q].debounce = want[q].debounce
             /\ m[q].enabled = want[q].enabled /\ m[q].waken = want[q].waken /\ m[q].type = want[q].type
  <2>0. m[q] = IF q = p THEN [want[p] EXCEPT !.status = [@ EXCEPT ![l] = y]] ELSE want[q]
    BY <1>1
  <2>t. want[q] \in WantShape /\ want[p] \in WantShape
    OBVIOUS
  <2> HIDE DEF m
  <2>1. m[q].status = (IF q = p THEN [want[p].status EXCEPT ![l] = y] ELSE want[q].status)
    BY <2>0, <2>t DEF WantShape
  <2>2. /\ m[q].dir = want[q].dir /\ m[q].high = want[q].high /\ m[q].debounce = want[q].debounce
        /\ m[q].enabled = want[q].enabled /\ m[q].waken = want[q].waken /\ m[q].type = want[q].type
    BY <2>0, <2>t DEF WantShape
  <2>3. want[p].status \in [Lines -> Bool]
    BY DEF WantShape
  <2> QED BY <2>1, <2>2, <2>3
<1>4. ASSUME NEW q \in Pins, NEW r \in PinRegs
      PROVE  Wanted(m, r, q) <=> IF q = p /\ r \in {STATUS[l]} THEN y ELSE Wanted(want, r, q)
  <2> HIDE DEF m
  <2>1. CASE q = p /\ r = STATUS[l]
    <3>1. Wanted(m, STATUS[l], q) <=> m[q].status[l]
      BY WantedAt, Zenon
    <3> QED BY <1>3, <2>1, <3>1, Zenon
  <2>2. CASE q = p /\ r # STATUS[l]
    <3>1. \A k \in Lines : r = STATUS[k] => m[q].status[k] = want[q].status[k]
      BY <1>3, <2>2, Zenon
    <3>2. /\ m[q].dir = want[q].dir /\ m[q].high = want[q].high /\ m[q].debounce = want[q].debounce
          /\ m[q].enabled = want[q].enabled /\ m[q].waken = want[q].waken /\ m[q].type = want[q].type
      BY <1>3, Zenon
    <3> QED BY <2>2, <3>1, <3>2, Zenon DEF Wanted
  <2>3. CASE q # p
    BY <1>3, <2>3, Zenon DEF Wanted
  <2> QED BY <2>1, <2>2, <2>3
<1> HIDE DEF m
<1>5. Asks(m, p, {STATUS[l]}, y)
  BY <1>2, <1>4, Zenon DEF Asks
<1> QED BY <1>5, Zenon DEF m

\* GPIOIntTypeSet asks for the bits of a type, in one or two registers.
TypeRegs(x) ==
    CASE x \in {"NO_LEVEL", "BOTH_LEVEL"} -> {"LEVEL0", "LEVEL1"}
      [] x = "LEVEL_LOW" -> {"LEVEL0"}
      [] x = "LEVEL_HIGH" -> {"LEVEL1"}
      [] x \in {"NO_EDGE", "BOTH_EDGE"} -> {"RISING", "FALLING"}
      [] x = "RISE_EDGE" -> {"RISING"}
      [] x = "FALL_EDGE" -> {"FALLING"}

IntTypes == {"NO_LEVEL", "LEVEL_LOW", "LEVEL_HIGH", "BOTH_LEVEL",
             "NO_EDGE", "RISE_EDGE", "FALL_EDGE", "BOTH_EDGE"}

LEMMA MeansIntType ==
    ASSUME want \in [Pins -> WantShape], NEW p \in Pins, NEW x \in IntTypes
    PROVE  Asks(Means(want, p, "IntType", x, 0), p, TypeRegs(x), x \notin {"NO_LEVEL", "NO_EDGE"})
<1> DEFINE m == Means(want, p, "IntType", x, 0)
           y == want[p].type
           lo == x \in {"LEVEL_LOW", "BOTH_LEVEL"} \/ (y.low /\ x # "NO_LEVEL")
           hi == x \in {"LEVEL_HIGH", "BOTH_LEVEL"} \/ (y.high /\ x # "NO_LEVEL")
           ri == x \in {"RISE_EDGE", "BOTH_EDGE"} \/ (y.rising /\ x # "NO_EDGE")
           fa == x \in {"FALL_EDGE", "BOTH_EDGE"} \/ (y.falling /\ x # "NO_EDGE")
           e == [low |-> lo, high |-> hi, rising |-> ri, falling |-> fa]
<1>1. m = [want EXCEPT ![p].type = e]
  BY Zenon DEF Means
<1>2. lo \in Bool /\ hi \in Bool /\ ri \in Bool /\ fa \in Bool
  BY Zenon DEF Bool
<1>3. e \in TypeShape /\ e.low = lo /\ e.high = hi /\ e.rising = ri /\ e.falling = fa
  <2> HIDE DEF lo, hi, ri, fa
  <2> QED BY <1>2 DEF TypeShape
<1>4. m \in [Pins -> WantShape] /\ (\A q \in Pins :
             /\ m[q].type = (IF q = p THEN e ELSE want[q].type)
             /\ m[q].dir = want[q].dir /\ m[q].high = want[q].high /\ m[q].debounce = want[q].debounce
             /\ m[q].enabled = want[q].enabled /\ m[q].waken = want[q].waken /\ m[q].status = want[q].status)
  <2> HIDE DEF e, m
  <2>1. m \in [Pins -> WantShape]
    <3> DEFINE w == [want[p] EXCEPT !.type = e]
    <3>1. m = [want EXCEPT ![p] = w]
      BY <1>1
    <3>2. want[p] \in WantShape
      OBVIOUS
    <3>3. w \in WantShape
      BY <1>3, <3>2 DEF WantShape
    <3> HIDE DEF w
    <3> QED BY <3>1, <3>3
  <2>2. ASSUME NEW q \in Pins
        PROVE /\ m[q].type = (IF q = p THEN e ELSE want[q].type)
              /\ m[q].dir = want[q].dir /\ m[q].high = want[q].high /\ m[q].debounce = want[q].debounce
              /\ m[q].enabled = want[q].enabled /\ m[q].waken = want[q].waken /\ m[q].status = want[q].status
    BY <1>1 DEF WantShape
  <2> QED BY <2>1, <2>2
<1>5. ASSUME NEW q \in Pins, NEW r \in PinRegs
      PROVE  Wanted(m, r, q) <=> IF q = p /\ r \in TypeRegs(x)
                                 THEN x \notin {"NO_LEVEL", "NO_EDGE"} ELSE Wanted(want, r, q)
  <2> HIDE DEF m, e
  <2>1. CASE q # p
    BY <1>4, <2>1, Zenon DEF Wanted
  <2>2. CASE q = p /\ r \notin {"LEVEL0", "LEVEL1", "RISING", "FALLING"}
    <3>1. r \notin TypeRegs(x)
      BY <2>2 DEF TypeRegs, IntTypes
    <3>2. Wanted(m, r, q) <=> Wanted(want, r, q)
      BY <1>4, <2>2, Zenon DEF Wanted
    <3> QED BY <3>1, <3>2, Zenon
  <2>3. CASE q = p /\ r \in {"LEVEL0", "LEVEL1", "RISING", "FALLING"}
    <3>1. /\ (Wanted(m, "LEVEL0", p) <=> lo) /\ (Wanted(m, "LEVEL1", p) <=> hi)
          /\ (Wanted(m, "RISING", p) <=> ri) /\ (Wanted(m, "FALLING", p) <=> fa)
      <4>1. m[p].type.low = lo /\ m[p].type.high = hi /\ m[p].type.rising = ri /\ m[p].type.falling = fa
        BY <1>3, <1>4, Zenon
      <4>2. /\ (Wanted(m, "LEVEL0", p) <=> m[p].type.low) /\ (Wanted(m, "LEVEL1", p) <=> m[p].type.high)
            /\ (Wanted(m, "RISING", p) <=> m[p].type.rising) /\ (Wanted(m, "FALLING", p) <=> m[p].type.falling)
        BY WantedAt, Zenon
      <4> HIDE DEF lo, hi, ri, fa
      <4> QED BY <4>1, <4>2, Zenon
    <3>2. /\ (Wanted(want, "LEVEL0", p) <=> y.low) /\ (Wanted(want, "LEVEL1", p) <=> y.high)
          /\ (Wanted(want, "RISING", p) <=> y.rising) /\ (Wanted(want, "FALLING", p) <=> y.falling)
      BY WantedAt, Zenon
    <3> DEFINE a == y.low
               b == y.high
               c == y.rising
               d == y.falling
               W(z) == Wanted(m, z, p)
               V(z) == Wanted(want, z, p)
    <3>3. /\ W("LEVEL0") <=> (x \in {"LEVEL_LOW", "BOTH_LEVEL"} \/ (V("LEVEL0") /\ x # "NO_LEVEL"))
          /\ W("LEVEL1") <=> (x \in {"LEVEL_HIGH", "BOTH_LEVEL"} \/ (V("LEVEL1") /\ x # "NO_LEVEL"))
          /\ W("RISING") <=> (x \in {"RISE_EDGE", "BOTH_EDGE"} \/ (V("RISING") /\ x # "NO_EDGE"))
          /\ W("FALLING") <=> (x \in {"FALL_EDGE", "BOTH_EDGE"} \/ (V("FALLING") /\ x # "NO_EDGE"))
      BY <3>1, <3>2, Zenon
    <3> HIDE DEF W, V
    <3>4. W(r) <=> IF r \in TypeRegs(x) THEN x \notin {"NO_LEVEL", "NO_EDGE"} ELSE V(r)
      BY <2>3, <3>3 DEF TypeRegs, IntTypes
    <3> QED BY <2>3, <3>4, Zenon DEF W, V
  <2> QED BY <2>1, <2>2, <2>3
<1> HIDE DEF m
<1>6. Asks(m, p, TypeRegs(x), x \notin {"NO_LEVEL", "NO_EDGE"})
  BY <1>4, <1>5, Zenon DEF Asks
<1> QED BY <1>6, Zenon DEF m

-----------------------------------------------------------------------------
\* What a call comes to: accesses that its task may make, and what they leave
\* in the registers is what it asks for.
CallOk(t, s, w) ==
    /\ s \in Seq(Accesses) /\ Len(s) \in 1 .. 2
    /\ \A i \in 1 .. Len(s) : AccessOf(s[i], t)
    /\ w \in [Pins -> WantShape]
    /\ \A p \in Pins, r \in PinRegs :
          /\ \A i \in 1 .. 2 : LastTouch(s, i, r, p) => (Wanted(w, r, p) <=> Leaves(s[i], p))
          /\ Untouched(s, r, p) => (Wanted(w, r, p) <=> Wanted(want, r, p))

LEMMA OneAccess ==
    ASSUME NEW t, NEW a \in Accesses, AccessOf(a, t), NEW w \in [Pins -> WantShape],
           \A p \in Pins, r \in PinRegs :
              /\ Touches(a, r, p) => (Wanted(w, r, p) <=> Leaves(a, p))
              /\ ~ Touches(a, r, p) => (Wanted(w, r, p) <=> Wanted(want, r, p))
    PROVE  CallOk(t, <<a>>, w)
<1> DEFINE s == <<a>>
<1>1. s \in Seq(Accesses) /\ Len(s) = 1 /\ s[1] = a
  OBVIOUS
<1> HIDE DEF s
<1>2. ASSUME NEW p \in Pins, NEW r \in PinRegs
      PROVE  /\ \A i \in 1 .. 2 : LastTouch(s, i, r, p) => (Wanted(w, r, p) <=> Leaves(s[i], p))
             /\ Untouched(s, r, p) => (Wanted(w, r, p) <=> Wanted(want, r, p))
  <2>1. \A i \in 1 .. 2 : LastTouch(s, i, r, p) => i = 1 /\ Touches(a, r, p)
    BY <1>1 DEF LastTouch
  <2>2. Untouched(s, r, p) => ~ Touches(a, r, p)
    BY <1>1 DEF Untouched
  <2> QED BY <1>1, <2>1, <2>2, Zenon
<1>3. \A i \in 1 .. Len(s) : AccessOf(s[i], t)
  BY <1>1
<1>4. CallOk(t, s, w)
  <2>1. Len(s) \in 1 .. 2
    BY <1>1
  <2> QED BY <1>1, <1>2, <1>3, <2>1, Zenon DEF CallOk
<1> QED BY <1>4 DEF s

LEMMA TwoAccesses ==
    ASSUME NEW t, NEW a \in Accesses, AccessOf(a, t), NEW b \in Accesses, AccessOf(b, t),
           NEW w \in [Pins -> WantShape],
           \A p \in Pins, r \in PinRegs :
              /\ Touches(b, r, p) => (Wanted(w, r, p) <=> Leaves(b, p))
              /\ Touches(a, r, p) /\ ~ Touches(b, r, p) => (Wanted(w, r, p) <=> Leaves(a, p))
              /\ ~ Touches(a, r, p) /\ ~ Touches(b, r, p) => (Wanted(w, r, p) <=> Wanted(want, r, p))
    PROVE  CallOk(t, <<a, b>>, w)
<1> DEFINE s == <<a, b>>
<1>1. s \in Seq(Accesses) /\ Len(s) = 2 /\ s[1] = a /\ s[2] = b
  OBVIOUS
<1> HIDE DEF s
<1>2. ASSUME NEW p \in Pins, NEW r \in PinRegs
      PROVE  /\ \A i \in 1 .. 2 : LastTouch(s, i, r, p) => (Wanted(w, r, p) <=> Leaves(s[i], p))
             /\ Untouched(s, r, p) => (Wanted(w, r, p) <=> Wanted(want, r, p))
  <2>1. \A i \in 1 .. 2 : LastTouch(s, i, r, p) =>
           \/ i = 2 /\ Touches(b, r, p)
           \/ i = 1 /\ Touches(a, r, p) /\ ~ Touches(b, r, p)
    BY <1>1 DEF LastTouch
  <2>2. Untouched(s, r, p) => ~ Touches(a, r, p) /\ ~ Touches(b, r, p)
    BY <1>1 DEF Untouched
  <2> QED BY <1>1, <2>1, <2>2, Zenon
<1>3. \A i \in 1 .. Len(s) : AccessOf(s[i], t)
  BY <1>1
<1>4. CallOk(t, s, w)
  <2>1. Len(s) \in 1 .. 2
    BY <1>1
  <2> QED BY <1>1, <1>2, <1>3, <2>1, Zenon DEF CallOk
<1> QED BY <1>4 DEF s

\* What the accesses are
LEMMA AccessFacts ==
    ASSUME NEW r \in Regs, NEW b \in SUBSET Anything
    PROVE  /\ Or(r, b) \in Accesses /\ AndNot(r, b) \in Accesses /\ Put(r, b) \in Accesses
           /\ Set(r, b) \in Accesses /\ Clear(r, b) \in Accesses
           /\ Or(r, b).reg = r /\ AndNot(r, b).reg = r /\ Put(r, b).reg = r
           /\ Set(r, b).reg = r /\ Clear(r, b).reg = r
           /\ Or(r, b).bits = b /\ AndNot(r, b).bits = b /\ Put(r, b).bits = b
           /\ Set(r, b).bits = b /\ Clear(r, b).bits = b
           /\ Or(r, b).op = "set" /\ AndNot(r, b).op = "clear" /\ Put(r, b).op = "put"
           /\ Set(r, b).op = "set" /\ Clear(r, b).op = "clear"
           /\ Exposed(Or(r, b)) /\ Exposed(AndNot(r, b)) /\ Exposed(Put(r, b))
           /\ ~ Exposed(Set(r, b)) /\ ~ Exposed(Clear(r, b))
<1>1. /\ Or(r, b) \in Accesses /\ AndNot(r, b) \in Accesses /\ Put(r, b) \in Accesses
      /\ Set(r, b) \in Accesses /\ Clear(r, b) \in Accesses
  BY DEF Or, AndNot, Put, Set, Clear, Accesses
<1>2. /\ Or(r, b).reg = r /\ AndNot(r, b).reg = r /\ Put(r, b).reg = r
      /\ Set(r, b).reg = r /\ Clear(r, b).reg = r
      /\ Or(r, b).bits = b /\ AndNot(r, b).bits = b /\ Put(r, b).bits = b
      /\ Set(r, b).bits = b /\ Clear(r, b).bits = b
      /\ Or(r, b).op = "set" /\ AndNot(r, b).op = "clear" /\ Put(r, b).op = "put"
      /\ Set(r, b).op = "set" /\ Clear(r, b).op = "clear"
  BY DEF Or, AndNot, Put, Set, Clear
<1>3. /\ Or(r, b).atomic = FALSE /\ AndNot(r, b).atomic = FALSE
      /\ Set(r, b).atomic = TRUE /\ Clear(r, b).atomic = TRUE
  BY Zenon DEF Or, AndNot, Set, Clear
<1>4. /\ Exposed(Or(r, b)) /\ Exposed(AndNot(r, b)) /\ Exposed(Put(r, b))
      /\ ~ Exposed(Set(r, b)) /\ ~ Exposed(Clear(r, b))
  BY <1>2, <1>3, Zenon DEF Exposed
<1> QED BY <1>1, <1>2, <1>4, Zenon

\* A pin's owner sets or clears its bit in one register after the other.
LEMMA PinAccess ==
    ASSUME GpioAssumption, NEW p \in Pins, NEW r \in PinRegs, NEW a,
           \/ r \in StrobeRegs /\ (a = Set(r, {p}) \/ a = Clear(r, {p}))
           \/ r \notin StrobeRegs /\ (a = Or(r, {p}) \/ a = AndNot(r, {p}))
    PROVE  /\ a \in Accesses /\ AccessOf(a, Owner[p])
           /\ \A x \in PinRegs, q \in Pins : Touches(a, x, q) <=> x = r /\ q = p
           /\ \A q \in Pins : Leaves(a, q) <=> a.op = "set"
<1>1. r \in Regs /\ {p} \in SUBSET Anything
  BY DEF Regs, Anything
<1>2. /\ a \in Accesses /\ a.reg = r /\ a.bits = {p} /\ a.op \in {"set", "clear"}
      /\ Exposed(a) <=> r \notin StrobeRegs
  BY <1>1, AccessFacts
<1>3. AccessOf(a, Owner[p])
  BY <1>2 DEF AccessOf
<1>4. /\ \A x \in PinRegs, q \in Pins : Touches(a, x, q) <=> x = r /\ q = p
      /\ \A q \in Pins : Leaves(a, q) <=> a.op = "set"
  BY <1>2 DEF Touches, Leaves
<1> QED BY <1>2, <1>3, <1>4

LEMMA PinCall ==
    ASSUME GpioAssumption, NEW p \in Pins, NEW r \in PinRegs, NEW v \in BOOLEAN, NEW m,
           Asks(m, p, {r}, v), NEW a,
           \/ r \in StrobeRegs /\ a = SetIf(v, r, {p})
           \/ r \notin StrobeRegs /\ a = OrIf(v, r, {p})
    PROVE  CallOk(Owner[p], <<a>>, m)
<1>1. \/ r \in StrobeRegs /\ (a = Set(r, {p}) \/ a = Clear(r, {p}))
      \/ r \notin StrobeRegs /\ (a = Or(r, {p}) \/ a = AndNot(r, {p}))
  BY Zenon DEF SetIf, OrIf
<1>2. /\ a \in Accesses /\ AccessOf(a, Owner[p])
      /\ \A x \in PinRegs, q \in Pins : Touches(a, x, q) <=> x = r /\ q = p
      /\ \A q \in Pins : Leaves(a, q) <=> a.op = "set"
  BY <1>1, PinAccess
<1>3. a.op = "set" <=> v
  <2>1. r \in Regs /\ {p} \in SUBSET Anything
    BY DEF Regs, Anything
  <2>2. CASE v
    BY <2>1, <2>2, AccessFacts DEF SetIf, OrIf
  <2>3. CASE ~ v
    <3>1. a = Clear(r, {p}) \/ a = AndNot(r, {p})
      BY <2>3, Zenon DEF SetIf, OrIf
    <3>2. a.op = "clear"
      BY <2>1, <3>1, AccessFacts
    <3> QED BY <2>3, <3>2
  <2> QED BY <2>2, <2>3
<1>4. m \in [Pins -> WantShape] /\ \A q \in Pins, x \in PinRegs :
          Wanted(m, x, q) <=> IF q = p /\ x \in {r} THEN v ELSE Wanted(want, x, q)
  BY Zenon DEF Asks
<1>5. ASSUME NEW q \in Pins, NEW x \in PinRegs
      PROVE  /\ Touches(a, x, q) => (Wanted(m, x, q) <=> Leaves(a, q))
             /\ ~ Touches(a, x, q) => (Wanted(m, x, q) <=> Wanted(want, x, q))
  BY <1>2, <1>3, <1>4, Zenon
<1> QED BY <1>2, <1>4, <1>5, OneAccess

LEMMA TwoPinCall ==
    ASSUME GpioAssumption, NEW p \in Pins, NEW r \in PinRegs \ StrobeRegs,
           NEW z \in PinRegs \ StrobeRegs, r # z, NEW v \in BOOLEAN, NEW m,
           Asks(m, p, {r, z}, v)
    PROVE  CallOk(Owner[p], <<OrIf(v, r, {p}), OrIf(v, z, {p})>>, m)
<1> DEFINE a == OrIf(v, r, {p})
           b == OrIf(v, z, {p})
<1>1. (a = Or(r, {p}) \/ a = AndNot(r, {p})) /\ (b = Or(z, {p}) \/ b = AndNot(z, {p}))
  BY Zenon DEF OrIf
<1>2. /\ a \in Accesses /\ AccessOf(a, Owner[p])
      /\ \A x \in PinRegs, q \in Pins : Touches(a, x, q) <=> x = r /\ q = p
      /\ \A q \in Pins : Leaves(a, q) <=> a.op = "set"
  <2> HIDE DEF a, b
  <2> QED BY <1>1, PinAccess
<1>3. /\ b \in Accesses /\ AccessOf(b, Owner[p])
      /\ \A x \in PinRegs, q \in Pins : Touches(b, x, q) <=> x = z /\ q = p
      /\ \A q \in Pins : Leaves(b, q) <=> b.op = "set"
  <2> HIDE DEF a, b
  <2> QED BY <1>1, PinAccess
<1>4. (a.op = "set" <=> v) /\ (b.op = "set" <=> v)
  <2>1. r \in Regs /\ z \in Regs /\ {p} \in SUBSET Anything
    BY DEF Regs, Anything
  <2>2. CASE v
    <3>1. a = Or(r, {p}) /\ b = Or(z, {p})
      BY <2>2, Zenon DEF OrIf
    <3>2. a.op = "set" /\ b.op = "set"
      BY <2>1, <3>1, AccessFacts
    <3> QED BY <2>2, <3>2, Zenon
  <2>3. CASE ~ v
    <3>1. a = AndNot(r, {p}) /\ b = AndNot(z, {p})
      BY <2>3, Zenon DEF OrIf
    <3>2. a.op = "clear" /\ b.op = "clear"
      BY <2>1, <3>1, AccessFacts
    <3> QED BY <2>3, <3>2, Zenon
  <2> QED BY <2>2, <2>3
<1>5. m \in [Pins -> WantShape] /\ \A q \in Pins, x \in PinRegs :
          Wanted(m, x, q) <=> IF q = p /\ x \in {r, z} THEN v ELSE Wanted(want, x, q)
  BY Zenon DEF Asks
<1> HIDE DEF a, b
<1>6. ASSUME NEW q \in Pins, NEW x \in PinRegs
      PROVE  /\ Touches(b, x, q) => (Wanted(m, x, q) <=> Leaves(b, q))
             /\ Touches(a, x, q) /\ ~ Touches(b, x, q) => (Wanted(m, x, q) <=> Leaves(a, q))
             /\ ~ Touches(a, x, q) /\ ~ Touches(b, x, q) => (Wanted(m, x, q) <=> Wanted(want, x, q))
  BY <1>2, <1>3, <1>4, <1>5, Zenon
<1>7. CallOk(Owner[p], <<a, b>>, m)
  BY <1>2, <1>3, <1>5, <1>6, TwoAccesses
<1> QED BY <1>7 DEF a, b

\* GPIO_SETDATAOUT, then GPIO_CLEARDATAOUT
LEMMA WriteManyCall ==
    ASSUME GpioAssumption, NEW p \in Pins, NEW v \in BOOLEAN, NEW m, Asks(m, p, {"DATAOUT"}, v)
    PROVE  CallOk(Owner[p], IF v THEN GPIOMultiplePinsWrite({p}, {}) ELSE GPIOMultiplePinsWrite({}, {p}), m)
<1>1. "DATAOUT" \in PinRegs /\ "DATAOUT" \in StrobeRegs /\ "DATAOUT" \in Regs
  BY DEF PinRegs, StrobeRegs, Regs
<1>2. m \in [Pins -> WantShape] /\ \A q \in Pins, x \in PinRegs :
          Wanted(m, x, q) <=> IF q = p /\ x \in {"DATAOUT"} THEN v ELSE Wanted(want, x, q)
  BY Zenon DEF Asks
<1>3. {p} \in SUBSET Anything /\ {} \in SUBSET Anything
  BY DEF Anything
<1>4. ASSUME NEW b \in SUBSET Anything, b \subseteq {p}
      PROVE  /\ Set("DATAOUT", b) \in Accesses /\ Clear("DATAOUT", b) \in Accesses
             /\ AccessOf(Set("DATAOUT", b), Owner[p]) /\ AccessOf(Clear("DATAOUT", b), Owner[p])
             /\ \A q, x : /\ Touches(Set("DATAOUT", b), x, q) <=> x = "DATAOUT" /\ q \in b
                          /\ Touches(Clear("DATAOUT", b), x, q) <=> x = "DATAOUT" /\ q \in b
                          /\ Leaves(Set("DATAOUT", b), q) /\ ~ Leaves(Clear("DATAOUT", b), q)
  <2> DEFINE s == Set("DATAOUT", b)
             c == Clear("DATAOUT", b)
  <2>1. /\ s \in Accesses /\ s.reg = "DATAOUT" /\ s.op = "set" /\ s.bits = b /\ ~ Exposed(s)
        /\ c \in Accesses /\ c.reg = "DATAOUT" /\ c.op = "clear" /\ c.bits = b /\ ~ Exposed(c)
    BY <1>1, <1>4, AccessFacts
  <2> HIDE DEF s, c
  <2>2. AccessOf(s, Owner[p]) /\ AccessOf(c, Owner[p])
    BY <1>1, <1>4, <2>1 DEF AccessOf
  <2>3. \A q, x : /\ Touches(s, x, q) <=> x = "DATAOUT" /\ q \in b
                  /\ Touches(c, x, q) <=> x = "DATAOUT" /\ q \in b
                  /\ Leaves(s, q) /\ ~ Leaves(c, q)
    BY <2>1 DEF Touches, Leaves
  <2>4. s \in Accesses /\ c \in Accesses
    BY <2>1
  <2> USE DEF s, c
  <2> QED BY <2>2, <2>3, <2>4, Zenon
<1>5. CASE v
  <2> DEFINE a == Set("DATAOUT", {p})
             b == Clear("DATAOUT", {})
  <2>1. /\ a \in Accesses /\ b \in Accesses /\ AccessOf(a, Owner[p]) /\ AccessOf(b, Owner[p])
        /\ \A q, x : /\ Touches(a, x, q) <=> x = "DATAOUT" /\ q = p
                     /\ ~ Touches(b, x, q) /\ Leaves(a, q)
    BY <1>3, <1>4
  <2> HIDE DEF a, b
  <2>2. ASSUME NEW q \in Pins, NEW x \in PinRegs
        PROVE  /\ Touches(b, x, q) => (Wanted(m, x, q) <=> Leaves(b, q))
               /\ Touches(a, x, q) /\ ~ Touches(b, x, q) => (Wanted(m, x, q) <=> Leaves(a, q))
               /\ ~ Touches(a, x, q) /\ ~ Touches(b, x, q) => (Wanted(m, x, q) <=> Wanted(want, x, q))
    BY <1>2, <1>5, <2>1, Zenon
  <2>3. CallOk(Owner[p], <<a, b>>, m)
    BY <1>2, <2>1, <2>2, TwoAccesses
  <2> QED BY <1>5, <2>3 DEF a, b, GPIOMultiplePinsWrite
<1>6. CASE ~ v
  <2> DEFINE a == Set("DATAOUT", {})
             b == Clear("DATAOUT", {p})
  <2>1. /\ a \in Accesses /\ b \in Accesses /\ AccessOf(a, Owner[p]) /\ AccessOf(b, Owner[p])
        /\ \A q, x : /\ Touches(b, x, q) <=> x = "DATAOUT" /\ q = p
                     /\ ~ Touches(a, x, q) /\ ~ Leaves(b, q)
    BY <1>3, <1>4
  <2> HIDE DEF a, b
  <2>2. ASSUME NEW q \in Pins, NEW x \in PinRegs
        PROVE  /\ Touches(b, x, q) => (Wanted(m, x, q) <=> Leaves(b, q))
               /\ Touches(a, x, q) /\ ~ Touches(b, x, q) => (Wanted(m, x, q) <=> Leaves(a, q))
               /\ ~ Touches(a, x, q) /\ ~ Touches(b, x, q) => (Wanted(m, x, q) <=> Wanted(want, x, q))
    BY <1>2, <1>6, <2>1, Zenon
  <2>3. CallOk(Owner[p], <<a, b>>, m)
    BY <1>2, <2>1, <2>2, TwoAccesses
  <2> QED BY <1>6, <2>3 DEF a, b, GPIOMultiplePinsWrite
<1> QED BY <1>5, <1>6

\* The bit is cleared, then set if it is to be.
LEMMA DebounceCall ==
    ASSUME GpioAssumption, NEW p \in Pins, NEW v \in BOOLEAN, NEW m, Asks(m, p, {"DEBOUNCE"}, v)
    PROVE  CallOk(Owner[p], GPIODebounceFuncControl(p, v), m)
<1>1. "DEBOUNCE" \in PinRegs /\ "DEBOUNCE" \notin StrobeRegs /\ "DEBOUNCE" \in Regs
  <2>1. \A l \in Lines : INTEN[l] # "DEBOUNCE" /\ STATUS[l] # "DEBOUNCE"
    BY RegNames DEF Plain
  <2> QED BY <2>1 DEF PinRegs, StrobeRegs, Regs
<1>2. m \in [Pins -> WantShape] /\ \A q \in Pins, x \in PinRegs :
          Wanted(m, x, q) <=> IF q = p /\ x \in {"DEBOUNCE"} THEN v ELSE Wanted(want, x, q)
  BY Zenon DEF Asks
<1> DEFINE c == IF v THEN {p} ELSE {}
           a == AndNot("DEBOUNCE", {p})
           b == Or("DEBOUNCE", c)
<1>3. {p} \in SUBSET Anything /\ c \in SUBSET Anything /\ c \subseteq {p}
  BY DEF Anything
<1>4. /\ a \in Accesses /\ a.reg = "DEBOUNCE" /\ a.op = "clear" /\ a.bits = {p} /\ Exposed(a)
      /\ b \in Accesses /\ b.reg = "DEBOUNCE" /\ b.op = "set" /\ b.bits = c /\ Exposed(b)
  <2> HIDE DEF c
  <2> QED BY <1>1, <1>3, AccessFacts
<1> HIDE DEF a, b
<1>5. AccessOf(a, Owner[p]) /\ AccessOf(b, Owner[p])
  <2> HIDE DEF c
  <2> QED BY <1>1, <1>3, <1>4 DEF AccessOf
<1>6. \A q, x : /\ Touches(a, x, q) <=> x = "DEBOUNCE" /\ q = p
                /\ Touches(b, x, q) <=> x = "DEBOUNCE" /\ q = p /\ v
                /\ Leaves(b, q) /\ ~ Leaves(a, q)
  BY <1>4 DEF Touches, Leaves
<1>7. ASSUME NEW q \in Pins, NEW x \in PinRegs
      PROVE  /\ Touches(b, x, q) => (Wanted(m, x, q) <=> Leaves(b, q))
             /\ Touches(a, x, q) /\ ~ Touches(b, x, q) => (Wanted(m, x, q) <=> Leaves(a, q))
             /\ ~ Touches(a, x, q) /\ ~ Touches(b, x, q) => (Wanted(m, x, q) <=> Wanted(want, x, q))
  BY <1>2, <1>6, Zenon
<1>8. CallOk(Owner[p], <<a, b>>, m)
  BY <1>2, <1>4, <1>5, <1>7, TwoAccesses
<1> QED BY <1>8, Zenon DEF a, b, c, GPIODebounceFuncControl

\* No call about the instance touches a pin, but gpioContextRestore.
LEMMA BitAccess ==
    ASSUME NEW t, NEW r \in BitRegs, NEW b \in SUBSET Anything, NEW a,
           a \in {Or(r, b), AndNot(r, b)} \/ (r = "CTRL" /\ a = Put(r, b))
    PROVE  /\ a \in Accesses /\ AccessOf(a, t)
           /\ \A x \in PinRegs : \A q : ~ Touches(a, x, q)
<1>1. r \in Regs /\ r \notin PinRegs /\ r \notin StrobeRegs
  <2>1. "CTRL" \notin PinRegs /\ "SYSCONFIG" \notin PinRegs
    BY DEF PinRegs, INTEN, STATUS, WAKEN, Lines
  <2>2. StrobeRegs \subseteq PinRegs
    BY RegNames DEF StrobeRegs, Plain
  <2> QED BY <2>1, <2>2 DEF Regs, BitRegs
<1>2. /\ a \in Accesses /\ a.reg = r /\ Exposed(a) /\ a.op \in {"set", "clear", "put"}
      /\ a.op = "put" => r = "CTRL"
  BY <1>1, AccessFacts
<1>3. AccessOf(a, t)
  BY <1>1, <1>2 DEF AccessOf
<1>4. \A x \in PinRegs : \A q : ~ Touches(a, x, q)
  BY <1>1, <1>2 DEF Touches
<1> QED BY <1>2, <1>3, <1>4

InstanceAccesses ==
    {GPIOModuleEnable, GPIOModuleDisable, GPIOWakeupGlobalEnable, GPIOWakeupGlobalDisable,
     GPIOAutoIdleModeControl({0}), GPIOIdleModeConfigure({3}), GPIOGatingRatioConfigure({2})}

LEMMA InstanceOk ==
    ASSUME want \in [Pins -> WantShape], NEW t, NEW s \in InstanceAccesses
    PROVE  CallOk(t, s, want)
<1>1. "CTRL" \in BitRegs /\ "SYSCONFIG" \in BitRegs
  BY DEF BitRegs
<1>2. /\ {0} \in SUBSET Anything /\ {2} \in SUBSET Anything /\ {1, 2} \in SUBSET Anything
      /\ {3, 4} \in SUBSET Anything /\ {0} \cap {0} \in SUBSET Anything
      /\ {3} \cap {3, 4} \in SUBSET Anything /\ {2} \cap {1, 2} \in SUBSET Anything
  BY DEF Anything
<1>3. ASSUME NEW r \in BitRegs, NEW b \in SUBSET Anything, NEW a, a \in {Or(r, b), AndNot(r, b)}
      PROVE  CallOk(t, <<a>>, want)
  <2>1. /\ a \in Accesses /\ AccessOf(a, t) /\ \A x \in PinRegs : \A q : ~ Touches(a, x, q)
    BY <1>3, BitAccess
  <2> QED BY <2>1, OneAccess
<1>4. ASSUME NEW r \in BitRegs, NEW f \in SUBSET Anything, NEW b, b \cap f \in SUBSET Anything
      PROVE  CallOk(t, Programmed(r, f, b), want)
  <2> DEFINE a == AndNot(r, f)
             c == Or(r, b \cap f)
  <2>1. /\ a \in Accesses /\ AccessOf(a, t) /\ \A x \in PinRegs : \A q : ~ Touches(a, x, q)
    BY BitAccess
  <2>2. /\ c \in Accesses /\ AccessOf(c, t) /\ \A x \in PinRegs : \A q : ~ Touches(c, x, q)
    BY <1>4, BitAccess
  <2> HIDE DEF a, c
  <2>3. CallOk(t, <<a, c>>, want)
    BY <2>1, <2>2, TwoAccesses
  <2> QED BY <2>3 DEF a, c, Programmed
<1>5. CASE s \in {GPIOModuleEnable, GPIOModuleDisable, GPIOWakeupGlobalEnable, GPIOWakeupGlobalDisable}
  BY <1>1, <1>2, <1>3, <1>5 DEF GPIOModuleEnable, GPIOModuleDisable, GPIOWakeupGlobalEnable, GPIOWakeupGlobalDisable
<1>6. CASE s \in {GPIOAutoIdleModeControl({0}), GPIOIdleModeConfigure({3}), GPIOGatingRatioConfigure({2})}
  <2>1. CASE s = GPIOAutoIdleModeControl({0})
    BY <1>1, <1>2, <1>4, <2>1, Zenon DEF GPIOAutoIdleModeControl
  <2>2. CASE s = GPIOIdleModeConfigure({3})
    BY <1>1, <1>2, <1>4, <2>2, Zenon DEF GPIOIdleModeConfigure
  <2>3. CASE s = GPIOGatingRatioConfigure({2})
    BY <1>1, <1>2, <1>4, <2>3, Zenon DEF GPIOGatingRatioConfigure
  <2> QED BY <1>6, <2>1, <2>2, <2>3
<1> QED BY <1>5, <1>6 DEF InstanceAccesses

LEMMA RestoreOk ==
    ASSUME want \in [Pins -> WantShape], NEW t,
           context \in [ctrl : SUBSET Anything, dir : SUBSET Anything]
    PROVE  CallOk(t, gpioContextRestore,
                  [p \in Pins |-> [want[p] EXCEPT !.dir = IF p \in context.dir THEN "input" ELSE "output"]])
<1> DEFINE m == [p \in Pins |-> [want[p] EXCEPT !.dir = IF p \in context.dir THEN "input" ELSE "output"]]
           a == Put("CTRL", context.ctrl)
           b == Put("OE", context.dir)
<1>1. m \in [Pins -> WantShape]
  BY DEF WantShape
<1>2. ASSUME NEW q \in Pins
      PROVE  /\ m[q].dir = IF q \in context.dir THEN "input" ELSE "output"
             /\ m[q].high = want[q].high /\ m[q].debounce = want[q].debounce
             /\ m[q].enabled = want[q].enabled /\ m[q].waken = want[q].waken
             /\ m[q].status = want[q].status /\ m[q].type = want[q].type
  BY DEF WantShape
<1>3. ASSUME NEW q \in Pins, NEW r \in PinRegs
      PROVE  Wanted(m, r, q) <=> IF r = "OE" THEN q \in context.dir ELSE Wanted(want, r, q)
  <2> HIDE DEF m
  <2>1. CASE r = "OE"
    <3>1. Wanted(m, "OE", q) <=> m[q].dir = "input"
      BY WantedAt, Zenon
    <3>2. m[q].dir = "input" <=> q \in context.dir
      BY <1>2
    <3> QED BY <2>1, <3>1, <3>2, Zenon
  <2>2. CASE r # "OE"
    BY <1>2, <2>2, Zenon DEF Wanted
  <2> QED BY <2>1, <2>2
<1>4. /\ a \in Accesses /\ AccessOf(a, t) /\ \A x \in PinRegs : \A q : ~ Touches(a, x, q)
  <2>1. "CTRL" \in BitRegs /\ context.ctrl \in SUBSET Anything
    BY DEF BitRegs
  <2> QED BY <2>1, BitAccess
<1>5. /\ b \in Accesses /\ AccessOf(b, t)
      /\ \A x, q : (Touches(b, x, q) <=> x = "OE") /\ (Leaves(b, q) <=> q \in context.dir)
  <2>1. "OE" \in Regs /\ context.dir \in SUBSET Anything
    BY DEF Regs, PinRegs
  <2>2. b \in Accesses /\ b.reg = "OE" /\ b.op = "put" /\ b.bits = context.dir /\ Exposed(b)
    BY <2>1, AccessFacts
  <2>3. "OE" \notin StrobeRegs
    BY RegNames DEF StrobeRegs, Plain
  <2> HIDE DEF b
  <2>4. AccessOf(b, t)
    BY <2>2, <2>3 DEF AccessOf
  <2>5. \A x, q : (Touches(b, x, q) <=> x = "OE") /\ (Leaves(b, q) <=> q \in context.dir)
    BY <2>2 DEF Touches, Leaves
  <2> QED BY <2>2, <2>4, <2>5
<1> HIDE DEF a, b, m
<1>6. ASSUME NEW q \in Pins, NEW x \in PinRegs
      PROVE  /\ Touches(b, x, q) => (Wanted(m, x, q) <=> Leaves(b, q))
             /\ Touches(a, x, q) /\ ~ Touches(b, x, q) => (Wanted(m, x, q) <=> Leaves(a, q))
             /\ ~ Touches(a, x, q) /\ ~ Touches(b, x, q) => (Wanted(m, x, q) <=> Wanted(want, x, q))
  BY <1>3, <1>4, <1>5, Zenon
<1>7. CallOk(t, <<a, b>>, m)
  BY <1>1, <1>4, <1>5, <1>6, TwoAccesses
<1> QED BY <1>7 DEF a, b, m, gpioContextRestore

\* Every call of OutputCall, InterruptPinCall and InstanceCall is of this kind.
LEMMA OutputCallOk ==
    ASSUME GpioAssumption, want \in [Pins -> WantShape], NEW p \in Pins, OutputCall(Owner[p], p)
    PROVE  \E s, w : CallOk(Owner[p], s, w) /\ Call(Owner[p], s, w)
<1>1. "OE" \in PinRegs /\ "OE" \notin StrobeRegs /\ "DATAOUT" \in PinRegs /\ "DATAOUT" \in StrobeRegs
  BY RegNames DEF StrobeRegs, Plain
<1>2. ASSUME NEW dir \in {"input", "output"},
             Call(Owner[p], GPIODirModeSet(p, dir), Means(want, p, "DirMode", dir, 0))
      PROVE  \E s, w : CallOk(Owner[p], s, w) /\ Call(Owner[p], s, w)
  <2> DEFINE v == dir = "input"
             m == Means(want, p, "DirMode", dir, 0)
  <2>1. Asks(m, p, {"OE"}, v)
    BY MeansDirMode
  <2>2. v \in BOOLEAN /\ GPIODirModeSet(p, dir) = <<OrIf(v, "OE", {p})>>
    BY DEF GPIODirModeSet
  <2> HIDE DEF v, m
  <2>3. CallOk(Owner[p], <<OrIf(v, "OE", {p})>>, m)
    BY <1>1, <2>1, <2>2, PinCall
  <2>4. CallOk(Owner[p], GPIODirModeSet(p, dir), m) /\ Call(Owner[p], GPIODirModeSet(p, dir), m)
    BY <1>2, <2>2, <2>3, Zenon DEF m
  <2> QED BY <2>4
<1>3. ASSUME NEW high \in BOOLEAN,
             Call(Owner[p], GPIOPinWrite(p, high), Means(want, p, "Write", high, 0))
      PROVE  \E s, w : CallOk(Owner[p], s, w) /\ Call(Owner[p], s, w)
  <2>1. Asks(Means(want, p, "Write", high, 0), p, {"DATAOUT"}, high)
    BY MeansWrite, Zenon DEF Bool
  <2>2. CallOk(Owner[p], <<SetIf(high, "DATAOUT", {p})>>, Means(want, p, "Write", high, 0))
    BY <1>1, <2>1, PinCall
  <2> QED BY <1>3, <2>2, Zenon DEF GPIOPinWrite
<1>4. ASSUME NEW v \in BOOLEAN, NEW s, s = IF v THEN GPIOMultiplePinsWrite({p}, {}) ELSE GPIOMultiplePinsWrite({}, {p}),
             Call(Owner[p], s, Means(want, p, "Write", v, 0))
      PROVE  \E x, w : CallOk(Owner[p], x, w) /\ Call(Owner[p], x, w)
  <2>1. Asks(Means(want, p, "Write", v, 0), p, {"DATAOUT"}, v)
    BY MeansWrite, Zenon DEF Bool
  <2>2. CallOk(Owner[p], s, Means(want, p, "Write", v, 0))
    BY <1>4, <2>1, WriteManyCall
  <2> QED BY <1>4, <2>2, Zenon
<1>5. ASSUME NEW on \in BOOLEAN,
             Call(Owner[p], GPIODebounceFuncControl(p, on), Means(want, p, "Debounce", on, 0))
      PROVE  \E s, w : CallOk(Owner[p], s, w) /\ Call(Owner[p], s, w)
  <2>1. Asks(Means(want, p, "Debounce", on, 0), p, {"DEBOUNCE"}, on)
    BY MeansDebounce, Zenon DEF Bool
  <2>2. CallOk(Owner[p], GPIODebounceFuncControl(p, on), Means(want, p, "Debounce", on, 0))
    BY <2>1, DebounceCall
  <2> QED BY <1>5, <2>2, Zenon
<1>6. CASE Call(Owner[p], GPIOMultiplePinsWrite({p}, {}), Means(want, p, "Write", TRUE, 0))
  BY <1>4, <1>6, Zenon
<1>7. CASE Call(Owner[p], GPIOMultiplePinsWrite({}, {p}), Means(want, p, "Write", FALSE, 0))
  BY <1>4, <1>7, Zenon
<1> QED BY <1>2, <1>3, <1>5, <1>6, <1>7, Zenon DEF OutputCall

LEMMA TypeCallOk ==
    ASSUME GpioAssumption, want \in [Pins -> WantShape], NEW p \in Pins, NEW type \in IntTypes
    PROVE  CallOk(Owner[p], GPIOIntTypeSet(p, type), Means(want, p, "IntType", type, 0))
<1>1. \A r \in {"LEVEL0", "LEVEL1", "RISING", "FALLING"} : r \in PinRegs \ StrobeRegs
  BY RegNames DEF StrobeRegs, Plain
<1> DEFINE v == type \notin {"NO_LEVEL", "NO_EDGE"}
           m == Means(want, p, "IntType", type, 0)
<1>2. Asks(m, p, TypeRegs(type), v) /\ v \in BOOLEAN
  BY MeansIntType
<1>3. \/ \E r \in PinRegs \ StrobeRegs : TypeRegs(type) = {r} /\ GPIOIntTypeSet(p, type) = <<OrIf(v, r, {p})>>
      \/ \E r, z \in PinRegs \ StrobeRegs : r # z /\ TypeRegs(type) = {r, z}
            /\ GPIOIntTypeSet(p, type) = <<OrIf(v, r, {p}), OrIf(v, z, {p})>>
  <2>1. /\ type \notin {"NO_LEVEL", "NO_EDGE"} => \A r \in {"LEVEL0", "LEVEL1", "RISING", "FALLING"} : OrIf(v, r, {p}) = Or(r, {p})
        /\ type \in {"NO_LEVEL", "NO_EDGE"} => \A r \in {"LEVEL0", "LEVEL1", "RISING", "FALLING"} : OrIf(v, r, {p}) = AndNot(r, {p})
    BY Zenon DEF OrIf
  <2> HIDE DEF v
  <2>2. CASE type = "LEVEL_LOW"
    <3>1. TypeRegs(type) = {"LEVEL0"} /\ GPIOIntTypeSet(p, type) = <<OrIf(v, "LEVEL0", {p})>>
      BY <2>1, <2>2 DEF TypeRegs, GPIOIntTypeSet
    <3> QED BY <1>1, <3>1
  <2>3. CASE type = "LEVEL_HIGH"
    <3>1. TypeRegs(type) = {"LEVEL1"} /\ GPIOIntTypeSet(p, type) = <<OrIf(v, "LEVEL1", {p})>>
      BY <2>1, <2>3 DEF TypeRegs, GPIOIntTypeSet
    <3> QED BY <1>1, <3>1
  <2>4. CASE type = "RISE_EDGE"
    <3>1. TypeRegs(type) = {"RISING"} /\ GPIOIntTypeSet(p, type) = <<OrIf(v, "RISING", {p})>>
      BY <2>1, <2>4 DEF TypeRegs, GPIOIntTypeSet
    <3> QED BY <1>1, <3>1
  <2>5. CASE type = "FALL_EDGE"
    <3>1. TypeRegs(type) = {"FALLING"} /\ GPIOIntTypeSet(p, type) = <<OrIf(v, "FALLING", {p})>>
      BY <2>1, <2>5 DEF TypeRegs, GPIOIntTypeSet
    <3> QED BY <1>1, <3>1
  <2>6. CASE type \in {"NO_LEVEL", "BOTH_LEVEL"}
    <3>1. /\ TypeRegs(type) = {"LEVEL0", "LEVEL1"}
          /\ GPIOIntTypeSet(p, type) = <<OrIf(v, "LEVEL0", {p}), OrIf(v, "LEVEL1", {p})>>
      BY <2>1, <2>6 DEF TypeRegs, GPIOIntTypeSet
    <3> QED BY <1>1, <3>1
  <2>7. CASE type \in {"NO_EDGE", "BOTH_EDGE"}
    <3>1. /\ TypeRegs(type) = {"RISING", "FALLING"}
          /\ GPIOIntTypeSet(p, type) = <<OrIf(v, "RISING", {p}), OrIf(v, "FALLING", {p})>>
      BY <2>1, <2>7 DEF TypeRegs, GPIOIntTypeSet
    <3> QED BY <1>1, <3>1
  <2> QED BY <2>2, <2>3, <2>4, <2>5, <2>6, <2>7 DEF IntTypes
<1> HIDE DEF v, m
<1>4. ASSUME NEW r \in PinRegs \ StrobeRegs, TypeRegs(type) = {r}, GPIOIntTypeSet(p, type) = <<OrIf(v, r, {p})>>
      PROVE  CallOk(Owner[p], GPIOIntTypeSet(p, type), m)
  <2>1. CallOk(Owner[p], <<OrIf(v, r, {p})>>, m)
    BY <1>2, <1>4, PinCall
  <2> QED BY <1>4, <2>1
<1>5. ASSUME NEW r \in PinRegs \ StrobeRegs, NEW z \in PinRegs \ StrobeRegs, r # z, TypeRegs(type) = {r, z},
             GPIOIntTypeSet(p, type) = <<OrIf(v, r, {p}), OrIf(v, z, {p})>>
      PROVE  CallOk(Owner[p], GPIOIntTypeSet(p, type), m)
  <2>1. CallOk(Owner[p], <<OrIf(v, r, {p}), OrIf(v, z, {p})>>, m)
    BY <1>2, <1>5, TwoPinCall
  <2> QED BY <1>5, <2>1
<1>6. CallOk(Owner[p], GPIOIntTypeSet(p, type), m)
  BY <1>3, <1>4, <1>5, Zenon
<1> QED BY <1>6 DEF m

LEMMA InterruptCallOk ==
    ASSUME GpioAssumption, want \in [Pins -> WantShape], NEW p \in Pins, InterruptPinCall(Owner[p], p)
    PROVE  \E s, w : CallOk(Owner[p], s, w) /\ Call(Owner[p], s, w)
<1>1. ASSUME NEW type \in IntTypes,
             Call(Owner[p], GPIOIntTypeSet(p, type), Means(want, p, "IntType", type, 0))
      PROVE  \E s, w : CallOk(Owner[p], s, w) /\ Call(Owner[p], s, w)
  BY <1>1, TypeCallOk, Zenon
<1>2. ASSUME NEW l \in Lines, NEW y \in BOOLEAN
      PROVE  /\ CallOk(Owner[p], <<SetIf(y, INTEN[l], {p})>>, Means(want, p, "IntEnable", l, y))
             /\ CallOk(Owner[p], <<SetIf(y, STATUS[l], {p})>>, Means(want, p, "Status", l, y))
             /\ CallOk(Owner[p], <<OrIf(y, WAKEN[l], {p})>>, Means(want, p, "WakeUp", l, y))
  <2>1. INTEN[l] \in StrobeRegs /\ STATUS[l] \in StrobeRegs /\ WAKEN[l] \notin StrobeRegs
    BY RegNames DEF StrobeRegs, Plain
  <2>2. INTEN[l] \in PinRegs /\ STATUS[l] \in PinRegs /\ WAKEN[l] \in PinRegs
    BY RegNames
  <2>3. /\ Asks(Means(want, p, "IntEnable", l, y), p, {INTEN[l]}, y)
        /\ Asks(Means(want, p, "Status", l, y), p, {STATUS[l]}, y)
        /\ Asks(Means(want, p, "WakeUp", l, y), p, {WAKEN[l]}, y)
    BY MeansIntEnable, MeansStatus, MeansWakeUp, Zenon DEF Bool
  <2>4. CallOk(Owner[p], <<SetIf(y, INTEN[l], {p})>>, Means(want, p, "IntEnable", l, y))
    BY <2>1, <2>2, <2>3, PinCall
  <2>5. CallOk(Owner[p], <<SetIf(y, STATUS[l], {p})>>, Means(want, p, "Status", l, y))
    BY <2>1, <2>2, <2>3, PinCall
  <2>6. CallOk(Owner[p], <<OrIf(y, WAKEN[l], {p})>>, Means(want, p, "WakeUp", l, y))
    BY <2>1, <2>2, <2>3, PinCall
  <2> QED BY <2>4, <2>5, <2>6
<1>3. ASSUME NEW l \in Lines
      PROVE  /\ CallOk(Owner[p], GPIOPinIntEnable(l, p), Means(want, p, "IntEnable", l, TRUE))
             /\ CallOk(Owner[p], GPIOPinIntDisable(l, p), Means(want, p, "IntEnable", l, FALSE))
             /\ CallOk(Owner[p], GPIOPinIntClear(l, p), Means(want, p, "Status", l, FALSE))
             /\ CallOk(Owner[p], GPIOTriggerPinInt(l, p), Means(want, p, "Status", l, TRUE))
             /\ CallOk(Owner[p], GPIOPinIntWakeUpEnable(l, p), Means(want, p, "WakeUp", l, TRUE))
             /\ CallOk(Owner[p], GPIOPinIntWakeUpDisable(l, p), Means(want, p, "WakeUp", l, FALSE))
  <2>1. /\ GPIOPinIntEnable(l, p) = <<SetIf(TRUE, INTEN[l], {p})>>
        /\ GPIOPinIntDisable(l, p) = <<SetIf(FALSE, INTEN[l], {p})>>
        /\ GPIOPinIntClear(l, p) = <<SetIf(FALSE, STATUS[l], {p})>>
        /\ GPIOTriggerPinInt(l, p) = <<SetIf(TRUE, STATUS[l], {p})>>
        /\ GPIOPinIntWakeUpEnable(l, p) = <<OrIf(TRUE, WAKEN[l], {p})>>
        /\ GPIOPinIntWakeUpDisable(l, p) = <<OrIf(FALSE, WAKEN[l], {p})>>
    BY Zenon DEF SetIf, OrIf, GPIOPinIntEnable, GPIOPinIntDisable, GPIOPinIntClear, GPIOTriggerPinInt,
           GPIOPinIntWakeUpEnable, GPIOPinIntWakeUpDisable
  <2> QED BY <1>2, <2>1, Zenon
<1> QED BY <1>1, <1>3, Zenon DEF InterruptPinCall, IntTypes

LEMMA InstanceCallOk ==
    ASSUME GpioTypes, NEW t, InstanceCall(t)
    PROVE  \E s, w : CallOk(t, s, w) /\ Call(t, s, w)
<1>1. want \in [Pins -> WantShape] /\ context \in [ctrl : SUBSET Anything, dir : SUBSET Anything]
  BY DEF GpioTypes
<1>2. CASE \E s \in InstanceAccesses : Call(t, s, want)
  BY <1>1, <1>2, InstanceOk, Zenon
<1>3. CASE Call(t, gpioContextRestore,
            [p \in Pins |-> [want[p] EXCEPT !.dir =
                                IF p \in context.dir THEN "input" ELSE "output"]])
  BY <1>1, <1>3, RestoreOk, Zenon
<1> QED BY <1>2, <1>3, Zenon DEF InstanceCall, InstanceAccesses

-----------------------------------------------------------------------------
\* Two tasks' accesses to one bit are both loads and stores, or writes of all bits.
LEMMA OneToucher ==
    ASSUME NEW t, NEW u, t # u, NEW a, NEW b, AccessOf(a, t), AccessOf(b, u),
           NEW r \in PinRegs, NEW p \in Pins, Touches(a, r, p), Touches(b, r, p)
    PROVE  Exposed(a) /\ Exposed(b)
<1>1. a.reg = r /\ b.reg = r /\ (Exposed(a) <=> r \notin StrobeRegs) /\ (Exposed(b) <=> r \notin StrobeRegs)
  BY DEF AccessOf, Touches
<1>2. CASE a.op = "put" \/ b.op = "put"
  <2>1. r \in {"CTRL", "OE"}
    BY <1>1, <1>2 DEF AccessOf
  <2>2. "CTRL" \notin StrobeRegs /\ "OE" \notin StrobeRegs
    BY DEF StrobeRegs, INTEN, STATUS, Lines
  <2> QED BY <1>1, <2>1, <2>2
<1>3. CASE a.op # "put" /\ b.op # "put"
  <2>1. p \in a.bits /\ p \in b.bits
    BY <1>3 DEF Touches
  <2>2. Owner[p] = t /\ Owner[p] = u
    BY <1>1, <1>3, <2>1, Zenon DEF AccessOf
  <2> QED BY <2>2
<1> QED BY <1>2, <1>3

LEMMA CallStep ==
    ASSUME GpioInv, NEW t \in GpioTasks, NEW s, NEW w, CallOk(t, s, w), Call(t, s, w)
    PROVE  GpioInv'
<1>1. /\ todo \in [GpioTasks -> Seq(Accesses)] /\ todo[t] = << >>
      /\ todo' = [todo EXCEPT ![t] = s] /\ want' = w
      /\ gpio' = gpio /\ loaded' = loaded /\ context' = context
      /\ Configures(s) => \A u \in GpioTasks : ~ Configures(todo[u])
  BY DEF GpioInv, GpioTypes, Call, Idle
<1>2. todo'[t] = s /\ \A u \in GpioTasks : u # t => todo'[u] = todo[u]
  BY <1>1
<1>3. GpioTypes'
  <2>1. todo' \in [GpioTasks -> Seq(Accesses)] /\ want' \in [Pins -> WantShape]
    BY <1>1 DEF CallOk
  <2>2. ASSUME NEW u \in GpioTasks
        PROVE  Len(todo'[u]) \in 0 .. 2 /\ \A i \in 1 .. Len(todo'[u]) : AccessOf(todo'[u][i], u)
    <3>1. CASE u = t
      <4>1. Len(s) \in 0 .. 2 /\ \A i \in 1 .. Len(s) : AccessOf(s[i], t)
        BY DEF CallOk
      <4> QED BY <1>2, <3>1, <4>1
    <3>2. CASE u # t
      BY <1>2, <3>2 DEF GpioInv, GpioTypes
    <3> QED BY <3>1, <3>2
  <2>3. gpio' \in [Regs -> SUBSET Anything] /\ context' \in [ctrl : SUBSET Anything, dir : SUBSET Anything]
        /\ DOMAIN loaded' = GpioTasks
    BY <1>1 DEF GpioInv, GpioTypes
  <2> QED BY <2>1, <2>2, <2>3 DEF GpioTypes
<1>4. OneConfigures'
  <2>1. ASSUME NEW u \in GpioTasks, NEW v \in GpioTasks, Configures(todo'[u]), Configures(todo'[v]), u # v
        PROVE  FALSE
    <3>1. ~ Configures(s) => ~ Configures(todo'[t])
      BY <1>2
    <3>2. CASE u = t
      BY <1>1, <1>2, <2>1, <3>1, <3>2, Zenon
    <3>3. CASE v = t
      BY <1>1, <1>2, <2>1, <3>1, <3>3, Zenon
    <3>4. CASE u # t /\ v # t
      BY <1>2, <2>1, <3>4, Zenon DEF GpioInv, OneConfigures
    <3> QED BY <3>2, <3>3, <3>4
  <2> QED BY <2>1, Zenon DEF OneConfigures
<1>5. LoadedCurrent'
  <2>1. loaded[t] = << >>
    BY <1>1 DEF GpioInv, LoadedCurrent
  <2>2. ASSUME NEW u \in GpioTasks, loaded'[u] # << >>
        PROVE  todo'[u] # << >> /\ ~ Head(todo'[u]).atomic /\ loaded'[u] = <<gpio'[Head(todo'[u]).reg]>>
    <3>1. u # t /\ loaded[u] # << >>
      BY <1>1, <2>1, <2>2
    <3>2. todo[u] # << >> /\ ~ Head(todo[u]).atomic /\ loaded[u] = <<gpio[Head(todo[u]).reg]>>
      BY <3>1, Zenon DEF GpioInv, LoadedCurrent
    <3>3. todo'[u] = todo[u]
      BY <1>2, <3>1
    <3> QED BY <1>1, <3>2, <3>3, Zenon
  <2> QED BY <2>2, Zenon DEF LoadedCurrent
<1>6. Asked'
  <2> SUFFICES ASSUME NEW p \in Pins, NEW r \in PinRegs
               PROVE  /\ \A u \in GpioTasks, i \in 1 .. 2 :
                            LastTouch(todo'[u], i, r, p) => (Wanted(w, r, p) <=> Leaves(todo'[u][i], p))
                      /\ (\A u \in GpioTasks : Untouched(todo'[u], r, p)) => (Wanted(w, r, p) <=> p \in gpio'[r])
    BY <1>1, Zenon DEF Asked
  <2>1. /\ \A i \in 1 .. 2 : LastTouch(s, i, r, p) => (Wanted(w, r, p) <=> Leaves(s[i], p))
        /\ Untouched(s, r, p) => (Wanted(w, r, p) <=> Wanted(want, r, p))
    BY Zenon DEF CallOk
  <2>2. /\ \A u \in GpioTasks, i \in 1 .. 2 : LastTouch(todo[u], i, r, p) => (Wanted(want, r, p) <=> Leaves(todo[u][i], p))
        /\ (\A u \in GpioTasks : Untouched(todo[u], r, p)) => (Wanted(want, r, p) <=> p \in gpio[r])
    BY Zenon DEF GpioInv, Asked
  <2>3. ASSUME NEW u \in GpioTasks, NEW i \in 1 .. 2, LastTouch(todo'[u], i, r, p)
        PROVE  Wanted(w, r, p) <=> Leaves(todo'[u][i], p)
    <3>1. CASE u = t
      BY <1>2, <2>1, <2>3, <3>1, Zenon
    <3>2. CASE u # t
      <4>1. todo'[u] = todo[u] /\ LastTouch(todo[u], i, r, p)
        BY <1>2, <2>3, <3>2, Zenon
      <4>2. i \in 1 .. Len(todo[u]) /\ Touches(todo[u][i], r, p) /\ AccessOf(todo[u][i], u)
        BY <4>1 DEF LastTouch, GpioInv, GpioTypes
      <4>3. ASSUME NEW j \in 1 .. Len(s), Touches(s[j], r, p)
            PROVE  FALSE
        <5>1. AccessOf(s[j], t)
          BY DEF CallOk
        <5>2. Exposed(s[j]) /\ Exposed(todo[u][i])
          BY <3>2, <4>2, <4>3, <5>1, OneToucher
        <5>3. Configures(s) /\ Configures(todo[u])
          BY <4>2, <5>2, Zenon DEF Configures
        <5> QED BY <1>1, <5>3, Zenon
      <4>4. Untouched(s, r, p)
        BY <4>3, Zenon DEF Untouched
      <4> QED BY <2>1, <2>2, <4>1, <4>4, Zenon
    <3> QED BY <3>1, <3>2
  <2>4. ASSUME \A u \in GpioTasks : Untouched(todo'[u], r, p)
        PROVE  Wanted(w, r, p) <=> p \in gpio'[r]
    <3>1. Untouched(s, r, p)
      BY <1>2, <2>4, Zenon
    <3>2. Untouched(todo[t], r, p)
      <4>1. Len(todo[t]) = 0
        BY <1>1
      <4> QED BY <4>1 DEF Untouched
    <3>3. \A u \in GpioTasks : Untouched(todo[u], r, p)
      BY <1>2, <2>4, <3>2, Zenon
    <3> QED BY <1>1, <2>1, <2>2, <3>1, <3>3, Zenon
  <2> QED BY <2>3, <2>4, Zenon
<1> QED BY <1>3, <1>4, <1>5, <1>6, Zenon DEF GpioInv

LEMMA LoadStep == ASSUME GpioInv, NEW t \in GpioTasks, Load(t) PROVE GpioInv'
<1>1. /\ todo[t] # << >> /\ ~ Head(todo[t]).atomic
      /\ loaded' = [loaded EXCEPT ![t] = <<gpio[Head(todo[t]).reg]>>]
      /\ UNCHANGED <<gpio, todo, context, want>>
  BY Zenon DEF Load, Idle
<1>2. GpioTypes' /\ OneConfigures' /\ Asked'
  <2>1. DOMAIN loaded' = GpioTasks
    BY <1>1 DEF GpioInv, GpioTypes
  <2>2. GpioTypes'
    BY <1>1, <2>1, Zenon DEF GpioInv, GpioTypes
  <2> QED BY <1>1, <2>2, Zenon DEF GpioInv, OneConfigures, Asked
<1>3. ASSUME NEW u \in GpioTasks, loaded'[u] # << >>
      PROVE  todo'[u] # << >> /\ ~ Head(todo'[u]).atomic /\ loaded'[u] = <<gpio'[Head(todo'[u]).reg]>>
  <2>1. DOMAIN loaded = GpioTasks
    BY DEF GpioInv, GpioTypes
  <2>2. CASE u = t
    <3>1. loaded'[t] = <<gpio[Head(todo[t]).reg]>>
      BY <1>1, <2>1
    <3> QED BY <1>1, <2>2, <3>1, Zenon
  <2>3. CASE u # t
    <3>1. loaded'[u] = loaded[u]
      BY <1>1, <2>1, <2>3
    <3> QED BY <1>1, <1>3, <3>1, Zenon DEF GpioInv, LoadedCurrent
  <2> QED BY <2>2, <2>3
<1> QED BY <1>2, <1>3, Zenon DEF GpioInv, LoadedCurrent

\* A store writes what a write in one step would, so both are one case.
LEMMA WriteStep ==
    ASSUME GpioInv, NEW t \in GpioTasks, todo[t] # << >>,
           Writes(t, Head(todo[t]), gpio[Head(todo[t]).reg])
    PROVE  GpioInv'
<1> DEFINE s == todo[t]
           a == Head(s)
<1>1. s \in Seq(Accesses) /\ s # << >> /\ Len(s) \in 1 .. 2 /\ \A i \in 1 .. Len(s) : AccessOf(s[i], t)
  BY DEF GpioInv, GpioTypes
<1>2. a = s[1] /\ a \in Accesses /\ AccessOf(a, t)
  BY <1>1
<1>3. /\ Tail(s) \in Seq(Accesses) /\ Len(Tail(s)) = Len(s) - 1
      /\ \A i \in 1 .. Len(s) - 1 : Tail(s)[i] = s[i + 1]
  BY <1>1
<1>4. /\ gpio' = [gpio EXCEPT ![a.reg] = Result(a, gpio[a.reg])]
      /\ loaded' = [loaded EXCEPT ![t] = << >>]
      /\ todo' = [todo EXCEPT ![t] = Tail(s)]
      /\ context' = context /\ want' = want
  BY DEF Writes
<1>5. /\ gpio \in [Regs -> SUBSET Anything] /\ DOMAIN loaded = GpioTasks
      /\ todo \in [GpioTasks -> Seq(Accesses)] /\ a.reg \in Regs
  BY <1>2 DEF GpioInv, GpioTypes, Accesses
<1>6. /\ todo'[t] = Tail(s) /\ \A u \in GpioTasks : u # t => todo'[u] = todo[u]
      /\ loaded'[t] = << >> /\ \A u \in GpioTasks : u # t => loaded'[u] = loaded[u]
  BY <1>4, <1>5
<1>7. Result(a, gpio[a.reg]) \in SUBSET Anything
  BY <1>2, <1>5 DEF Result, Accesses
<1> HIDE DEF s, a
<1>8. GpioTypes'
  <2>1. gpio' \in [Regs -> SUBSET Anything] /\ DOMAIN loaded' = GpioTasks /\ todo' \in [GpioTasks -> Seq(Accesses)]
    BY <1>3, <1>4, <1>5, <1>7
  <2>2. ASSUME NEW u \in GpioTasks
        PROVE  Len(todo'[u]) \in 0 .. 2 /\ \A i \in 1 .. Len(todo'[u]) : AccessOf(todo'[u][i], u)
    <3>1. CASE u = t
      <4>1. Len(Tail(s)) \in 0 .. 2 /\ \A i \in 1 .. Len(Tail(s)) : AccessOf(Tail(s)[i], t)
        BY <1>1, <1>3
      <4> QED BY <1>6, <3>1, <4>1
    <3>2. CASE u # t
      BY <1>6, <3>2 DEF GpioInv, GpioTypes
    <3> QED BY <3>1, <3>2
  <2> QED BY <1>4, <2>1, <2>2 DEF GpioTypes, GpioInv
<1>9. \A u \in GpioTasks : Configures(todo'[u]) => Configures(todo[u])
  <2>1. ASSUME NEW j \in 1 .. Len(Tail(s)), Exposed(Tail(s)[j])
        PROVE  Configures(s)
    <3>1. j + 1 \in 1 .. Len(s) /\ Tail(s)[j] = s[j + 1]
      BY <1>1, <1>3
    <3> QED BY <2>1, <3>1, Zenon DEF Configures
  <2>2. Configures(Tail(s)) => Configures(s)
    BY <2>1, Zenon DEF Configures
  <2> QED BY <1>6, <2>2, Zenon DEF s
<1>10. OneConfigures'
  BY <1>9, Zenon DEF GpioInv, OneConfigures
<1>11. LoadedCurrent'
  <2> SUFFICES ASSUME NEW u \in GpioTasks, loaded'[u] # << >>
               PROVE  todo'[u] # << >> /\ ~ Head(todo'[u]).atomic /\ loaded'[u] = <<gpio'[Head(todo'[u]).reg]>>
    BY Zenon DEF LoadedCurrent
  <2>1. u # t /\ loaded'[u] = loaded[u] /\ todo'[u] = todo[u]
    BY <1>6
  <2>2. todo[u] # << >> /\ ~ Head(todo[u]).atomic /\ loaded[u] = <<gpio[Head(todo[u]).reg]>>
    BY <2>1, Zenon DEF GpioInv, LoadedCurrent
  <2> DEFINE b == Head(todo[u])
  <2>3. b = todo[u][1] /\ 1 \in 1 .. Len(todo[u]) /\ AccessOf(b, u)
    BY <2>2 DEF GpioInv, GpioTypes
  <2>4. Exposed(b)
    BY <2>2, Zenon DEF Exposed
  <2>5. Configures(todo[u])
    BY <2>3, <2>4, Zenon DEF Configures
  <2>6. ~ Exposed(a)
    <3>1. 1 \in 1 .. Len(s)
      BY <1>1
    <3>2. Exposed(a) => Configures(s)
      BY <1>2, <3>1, Zenon DEF Configures
    <3> QED BY <2>1, <2>5, <3>2, Zenon DEF GpioInv, OneConfigures, s
  <2>7. a.reg # b.reg
    BY <1>2, <2>3, <2>4, <2>6, Zenon DEF AccessOf
  <2>8. gpio'[b.reg] = gpio[b.reg]
    BY <1>4, <1>5, <2>7
  <2> QED BY <2>1, <2>2, <2>8, Zenon
<1>12. Asked'
  <2> SUFFICES ASSUME NEW p \in Pins, NEW r \in PinRegs
               PROVE  /\ \A u \in GpioTasks, i \in 1 .. 2 :
                            LastTouch(todo'[u], i, r, p) => (Wanted(want, r, p) <=> Leaves(todo'[u][i], p))
                      /\ (\A u \in GpioTasks : Untouched(todo'[u], r, p)) => (Wanted(want, r, p) <=> p \in gpio'[r])
    BY <1>4, Zenon DEF Asked
  <2>1. /\ \A u \in GpioTasks, i \in 1 .. 2 : LastTouch(todo[u], i, r, p) => (Wanted(want, r, p) <=> Leaves(todo[u][i], p))
        /\ (\A u \in GpioTasks : Untouched(todo[u], r, p)) => (Wanted(want, r, p) <=> p \in gpio[r])
    BY Zenon DEF GpioInv, Asked
  <2>2. ASSUME NEW u \in GpioTasks, NEW i \in 1 .. 2, LastTouch(todo'[u], i, r, p)
        PROVE  Wanted(want, r, p) <=> Leaves(todo'[u][i], p)
    <3>1. CASE u # t
      BY <1>6, <2>1, <2>2, <3>1, Zenon
    <3>2. CASE u = t
      <4>1. /\ i \in 1 .. Len(Tail(s)) /\ Touches(Tail(s)[i], r, p)
            /\ \A j \in i + 1 .. Len(Tail(s)) : ~ Touches(Tail(s)[j], r, p)
        BY <1>6, <2>2, <3>2, Zenon DEF LastTouch
      <4>2. i + 1 \in 1 .. 2 /\ i + 1 \in 1 .. Len(s) /\ Tail(s)[i] = s[i + 1]
        BY <1>1, <1>3, <4>1
      <4>3. ASSUME NEW j \in i + 1 + 1 .. Len(s)
            PROVE  ~ Touches(s[j], r, p)
        <5>1. j - 1 \in i + 1 .. Len(Tail(s)) /\ Tail(s)[j - 1] = s[j]
          <6>1. j - 1 \in i + 1 .. Len(s) - 1 /\ j - 1 \in 1 .. Len(s) - 1 /\ (j - 1) + 1 = j
            BY <1>1, <4>2, <4>3
          <6> QED BY <1>3, <6>1
        <5> QED BY <4>1, <5>1, Zenon
      <4>4. LastTouch(s, i + 1, r, p)
        BY <4>1, <4>2, <4>3, Zenon DEF LastTouch
      <4> QED BY <1>6, <2>1, <3>2, <4>2, <4>4, Zenon DEF s
    <3> QED BY <3>1, <3>2
  <2>3. ASSUME \A u \in GpioTasks : Untouched(todo'[u], r, p)
        PROVE  Wanted(want, r, p) <=> p \in gpio'[r]
    <3>1. ASSUME NEW j \in 2 .. Len(s) PROVE ~ Touches(s[j], r, p)
      <4>1. j - 1 \in 1 .. Len(Tail(s)) /\ Tail(s)[j - 1] = s[j]
        <5>1. j - 1 \in 1 .. Len(s) - 1 /\ (j - 1) + 1 = j
          BY <1>1, <3>1
        <5> QED BY <1>3, <5>1
      <4> QED BY <1>6, <2>3, <4>1, Zenon DEF Untouched
    <3>2. r \in Regs
      BY DEF Regs
    <3>3. CASE Touches(a, r, p)
      <4>1. LastTouch(s, 1, r, p)
        BY <1>1, <1>2, <3>1, <3>3 DEF LastTouch
      <4>2. Wanted(want, r, p) <=> Leaves(a, p)
        <5>1. 1 \in 1 .. 2
          OBVIOUS
        <5> QED BY <1>2, <2>1, <4>1, <5>1, Zenon DEF s
      <4>3. p \in gpio'[r] <=> Leaves(a, p)
        <5>1. gpio'[r] = Result(a, gpio[a.reg])
          BY <1>4, <1>5, <3>3 DEF Touches
        <5>2. a.op \in {"set", "clear", "put"}
          BY <1>2 DEF Accesses
        <5> QED BY <3>3, <5>1, <5>2 DEF Touches, Leaves, Result
      <4> QED BY <4>2, <4>3
    <3>4. CASE ~ Touches(a, r, p)
      <4>1. Untouched(s, r, p)
        BY <1>1, <1>2, <3>1, <3>4 DEF Untouched
      <4>2. \A u \in GpioTasks : Untouched(todo[u], r, p)
        BY <1>6, <2>3, <4>1, Zenon DEF s
      <4>3. p \in gpio'[r] <=> p \in gpio[r]
        <5>1. CASE a.reg = r
          <6>1. gpio'[r] = Result(a, gpio[r]) /\ a.op # "put" /\ p \notin a.bits
            BY <1>4, <1>5, <3>4, <5>1 DEF Touches
          <6>2. a.op \in {"set", "clear"}
            BY <1>2, <6>1 DEF Accesses
          <6> QED BY <6>1, <6>2 DEF Result
        <5>2. CASE a.reg # r
          BY <1>4, <1>5, <3>2, <5>2
        <5> QED BY <5>1, <5>2
      <4> QED BY <2>1, <4>2, <4>3, Zenon
    <3> QED BY <3>3, <3>4
  <2> QED BY <2>2, <2>3, Zenon
<1> QED BY <1>8, <1>10, <1>11, <1>12, Zenon DEF GpioInv

\* With no call under way the registers may all be set alike, and what is wanted.
LEMMA AlikeWanted ==
    ASSUME NEW on \in BOOLEAN
    PROVE  /\ Registers(on) \in [Regs -> SUBSET Anything] /\ AllWant(on) \in [Pins -> WantShape]
           /\ \A p \in Pins, r \in PinRegs : Wanted(AllWant(on), r, p) <=> p \in Registers(on)[r]
<1>1. Registers(on) \in [Regs -> SUBSET Anything]
  BY DEF Registers, Regs, Anything
<1>2. /\ AllWant(on) \in [Pins -> WantShape]
      /\ \A p \in Pins : /\ AllWant(on)[p].dir = "input" /\ AllWant(on)[p].high = on
                         /\ AllWant(on)[p].debounce = on
                         /\ AllWant(on)[p].type = [low |-> on, high |-> on, rising |-> on, falling |-> on]
                         /\ AllWant(on)[p].enabled = [l \in Lines |-> on]
                         /\ AllWant(on)[p].waken = [l \in Lines |-> on]
                         /\ AllWant(on)[p].status = [l \in Lines |-> on]
  <2>1. on \in Bool
    BY DEF Bool
  <2> DEFINE f == [l \in Lines |-> on]
             y == [low |-> on, high |-> on, rising |-> on, falling |-> on]
             e == [dir |-> "input", high |-> on, debounce |-> on, enabled |-> f, waken |-> f,
                   status |-> f, type |-> y]
  <2>2. f \in [Lines -> Bool]
    BY <2>1, Zenon
  <2>3. y \in TypeShape
    BY <2>1 DEF TypeShape
  <2>4. AllWant(on) = [p \in Pins |-> e]
    BY Zenon DEF AllWant
  <2> HIDE DEF f, y
  <2>5. /\ e \in WantShape /\ e.dir = "input" /\ e.high = on /\ e.debounce = on /\ e.type = y
        /\ e.enabled = f /\ e.waken = f /\ e.status = f
    BY <2>1, <2>2, <2>3 DEF WantShape
  <2> HIDE DEF e
  <2>6. AllWant(on) \in [Pins -> WantShape] /\ \A p \in Pins : AllWant(on)[p] = e
    BY <2>4, <2>5, Zenon
  <2> QED BY <2>5, <2>6, Zenon DEF f, y
<1>3. ASSUME NEW p \in Pins, NEW r \in PinRegs
      PROVE  Wanted(AllWant(on), r, p) <=> r = "OE" \/ on
  <2> DEFINE w == AllWant(on)
  <2>1. /\ w[p].type.low = on /\ w[p].type.high = on /\ w[p].type.rising = on /\ w[p].type.falling = on
    BY <1>2
  <2>2. \A l \in Lines : w[p].enabled[l] = on /\ w[p].waken[l] = on /\ w[p].status[l] = on
    BY <1>2, ZenonT(30)
  <2>3. w[p].dir = "input" /\ w[p].high = on /\ w[p].debounce = on
    BY <1>2, ZenonT(30)
  <2>4. r \in Plain \/ \E l \in Lines : r = INTEN[l] \/ r = STATUS[l] \/ r = WAKEN[l]
    <3>1. PinRegs = Plain \cup {R[l] : R \in {INTEN, STATUS, WAKEN}, l \in Lines}
      BY DEF PinRegs, Plain
    <3>2. ASSUME r \in {R[l] : R \in {INTEN, STATUS, WAKEN}, l \in Lines}
          PROVE  \E l \in Lines : r = INTEN[l] \/ r = STATUS[l] \/ r = WAKEN[l]
      <4>1. \E R \in {INTEN, STATUS, WAKEN}, l \in Lines : r = R[l]
        BY <3>2
      <4> QED BY <4>1, Zenon
    <3> QED BY <3>1, <3>2
  <2>5. CASE r \in Plain
    <3>1. /\ Wanted(w, "OE", p) <=> w[p].dir = "input"
          /\ Wanted(w, "DATAOUT", p) <=> w[p].high
          /\ Wanted(w, "DEBOUNCE", p) <=> w[p].debounce
          /\ Wanted(w, "LEVEL0", p) <=> w[p].type.low
          /\ Wanted(w, "LEVEL1", p) <=> w[p].type.high
          /\ Wanted(w, "RISING", p) <=> w[p].type.rising
          /\ Wanted(w, "FALLING", p) <=> w[p].type.falling
      BY WantedAt, Zenon
    <3>2. w[p].high <=> on
      BY <2>3
    <3>3. w[p].debounce <=> on
      BY <2>3
    <3>4. w[p].type.low <=> on
      BY <2>1
    <3>5. w[p].type.high <=> on
      BY <2>1
    <3>6. w[p].type.rising <=> on
      BY <2>1
    <3>7. w[p].type.falling <=> on
      BY <2>1
    <3>8. /\ Wanted(w, "OE", p)
          /\ Wanted(w, "DATAOUT", p) <=> on
          /\ Wanted(w, "DEBOUNCE", p) <=> on
          /\ Wanted(w, "LEVEL0", p) <=> on
          /\ Wanted(w, "LEVEL1", p) <=> on
          /\ Wanted(w, "RISING", p) <=> on
          /\ Wanted(w, "FALLING", p) <=> on
      BY <2>3, <3>1, <3>2, <3>3, <3>4, <3>5, <3>6, <3>7, Zenon
    <3>9. \/ r = "OE" \/ r = "DATAOUT" \/ r = "DEBOUNCE" \/ r = "LEVEL0" \/ r = "LEVEL1"
          \/ r = "RISING" \/ r = "FALLING"
      BY <2>5 DEF Plain
    <3> QED BY <3>8, <3>9, Zenon
  <2>6. CASE \E l \in Lines : r = INTEN[l] \/ r = STATUS[l] \/ r = WAKEN[l]
    <3>1. PICK l \in Lines : r = INTEN[l] \/ r = STATUS[l] \/ r = WAKEN[l]
      BY <2>6
    <3>2. r # "OE"
      BY <3>1, RegNames, Zenon DEF Plain
    <3>3. /\ Wanted(w, INTEN[l], p) <=> w[p].enabled[l]
          /\ Wanted(w, STATUS[l], p) <=> w[p].status[l]
          /\ Wanted(w, WAKEN[l], p) <=> w[p].waken[l]
      BY WantedAt, Zenon
    <3>4. w[p].enabled[l] <=> on
      BY <2>2
    <3>5. w[p].waken[l] <=> on
      BY <2>2
    <3>6. w[p].status[l] <=> on
      BY <2>2
    <3>7. /\ Wanted(w, INTEN[l], p) <=> on
          /\ Wanted(w, STATUS[l], p) <=> on
          /\ Wanted(w, WAKEN[l], p) <=> on
      BY <3>3, <3>4, <3>5, <3>6, Zenon
    <3>8. CASE r = INTEN[l]
      BY <3>2, <3>7, <3>8, Zenon
    <3>9. CASE r = STATUS[l]
      BY <3>2, <3>7, <3>9, Zenon
    <3>10. CASE r = WAKEN[l]
      BY <3>2, <3>7, <3>10, Zenon
    <3> QED BY <3>1, <3>8, <3>9, <3>10
  <2> QED BY <2>4, <2>5, <2>6
<1>4. ASSUME NEW p \in Pins, NEW r \in PinRegs
      PROVE  p \in Registers(on)[r] <=> r = "OE" \/ on
  BY DEF Registers
<1> QED BY <1>1, <1>2, <1>3, <1>4, Zenon

LEMMA AllIdle ==
    ASSUME todo \in [GpioTasks -> Seq(Accesses)], \A t \in GpioTasks : Idle(t)
    PROVE  /\ \A t \in GpioTasks : Len(todo[t]) = 0 /\ ~ Configures(todo[t])
           /\ \A t \in GpioTasks : \A r, p : Untouched(todo[t], r, p) /\ \A i : ~ LastTouch(todo[t], i, r, p)
<1>1. \A t \in GpioTasks : Len(todo[t]) = 0
  BY DEF Idle
<1> QED BY <1>1 DEF Configures, Untouched, LastTouch

LEMMA GpioInitInv == ASSUME GpioInit PROVE GpioInv
<1>1. PICK on \in BOOLEAN : gpio = Registers(on) /\ want = AllWant(on)
  BY DEF GpioInit
<1>2. todo = [t \in GpioTasks |-> << >>] /\ loaded = [t \in GpioTasks |-> << >>]
      /\ context = [ctrl |-> gpio["CTRL"], dir |-> gpio["OE"]]
  BY DEF GpioInit
<1>3. todo \in [GpioTasks -> Seq(Accesses)] /\ \A t \in GpioTasks : Idle(t)
  BY <1>2 DEF Idle
<1>4. gpio \in [Regs -> SUBSET Anything] /\ context \in [ctrl : SUBSET Anything, dir : SUBSET Anything]
  <2>1. gpio \in [Regs -> SUBSET Anything] /\ "CTRL" \in Regs /\ "OE" \in Regs
    BY <1>1, AlikeWanted DEF Regs, BitRegs, PinRegs
  <2> QED BY <1>2, <2>1
<1>5. GpioTypes
  <2>1. ASSUME NEW t \in GpioTasks
        PROVE  Len(todo[t]) \in 0 .. 2 /\ \A i \in 1 .. Len(todo[t]) : AccessOf(todo[t][i], t)
    BY <1>3, AllIdle
  <2>2. DOMAIN loaded = GpioTasks /\ want \in [Pins -> WantShape]
    BY <1>1, <1>2, AlikeWanted, Zenon
  <2> QED BY <1>3, <1>4, <2>1, <2>2 DEF GpioTypes
<1>6. OneConfigures
  BY <1>3, AllIdle, Zenon DEF OneConfigures
<1>7. LoadedCurrent
  BY <1>2 DEF LoadedCurrent
<1>8. Asked
  BY <1>1, <1>3, AllIdle, AlikeWanted, Zenon DEF Asked
<1> QED BY <1>5, <1>6, <1>7, <1>8 DEF GpioInv

LEMMA SaveStep == ASSUME GpioInv, gpioContextSave PROVE GpioInv'
<1>1. context' = [ctrl |-> gpio["CTRL"], dir |-> gpio["OE"]] /\ UNCHANGED <<gpio, todo, loaded, want>>
  BY DEF gpioContextSave
<1>2. context' \in [ctrl : SUBSET Anything, dir : SUBSET Anything]
  <2>1. gpio \in [Regs -> SUBSET Anything] /\ "CTRL" \in Regs /\ "OE" \in Regs
    BY DEF GpioInv, GpioTypes, Regs, BitRegs, PinRegs
  <2> QED BY <1>1, <2>1
<1> QED BY <1>1, <1>2, Zenon DEF GpioInv, GpioTypes, OneConfigures, LoadedCurrent, Asked

LEMMA ResetStep == ASSUME GpioInv, GPIOModuleReset PROVE GpioInv'
<1>1. /\ \A t \in GpioTasks : Idle(t)
      /\ gpio' = Registers(FALSE) /\ want' = AllWant(FALSE) /\ UNCHANGED <<todo, loaded, context>>
  BY Zenon DEF GPIOModuleReset
<1>2. /\ gpio' \in [Regs -> SUBSET Anything] /\ want' \in [Pins -> WantShape]
      /\ \A p \in Pins, r \in PinRegs : Wanted(want', r, p) <=> p \in gpio'[r]
  BY <1>1, AlikeWanted, Zenon
<1>3. GpioTypes' /\ OneConfigures'
  BY <1>1, <1>2, Zenon DEF GpioInv, GpioTypes, OneConfigures
<1>4. LoadedCurrent'
  <2>1. \A t \in GpioTasks : loaded[t] = << >>
    BY <1>1, Zenon DEF GpioInv, LoadedCurrent, Idle
  <2> QED BY <1>1, <2>1, Zenon DEF LoadedCurrent
<1>5. Asked'
  <2>1. \A t \in GpioTasks : \A r, p : \A i : ~ LastTouch(todo'[t], i, r, p)
    BY <1>1, AllIdle DEF GpioInv, GpioTypes
  <2> QED BY <1>2, <2>1, Zenon DEF Asked
<1> QED BY <1>3, <1>4, <1>5 DEF GpioInv

LEMMA GpioStep == ASSUME GpioAssumption, GpioInv, GpioNext PROVE GpioInv'
<1>1. want \in [Pins -> WantShape] /\ GpioTypes
  BY DEF GpioInv, GpioTypes
<1>2. ASSUME NEW t \in GpioTasks, \E s, w : CallOk(t, s, w) /\ Call(t, s, w)
      PROVE  GpioInv'
  <2>1. PICK s, w : CallOk(t, s, w) /\ Call(t, s, w)
    BY <1>2
  <2> QED BY <2>1, CallStep
<1>3. ASSUME NEW p \in Pins, OutputCall(Owner[p], p) \/ InterruptPinCall(Owner[p], p)
      PROVE  GpioInv'
  <2>1. Owner[p] \in GpioTasks
    BY DEF GpioAssumption
  <2>2. \E s, w : CallOk(Owner[p], s, w) /\ Call(Owner[p], s, w)
    BY <1>1, <1>3, OutputCallOk, InterruptCallOk
  <2> QED BY <1>2, <2>1, <2>2
<1>4. ASSUME NEW t \in GpioTasks, InstanceCall(t)
      PROVE  GpioInv'
  BY <1>1, <1>2, <1>4, InstanceCallOk
<1>5. ASSUME NEW t \in GpioTasks, Store(t)
      PROVE  GpioInv'
  <2>1. loaded[t] # << >> /\ Writes(t, Head(todo[t]), loaded[t][1])
    BY <1>5 DEF Store
  <2>2. todo[t] # << >> /\ loaded[t] = <<gpio[Head(todo[t]).reg]>>
    BY <2>1, Zenon DEF GpioInv, LoadedCurrent
  <2>3. Writes(t, Head(todo[t]), gpio[Head(todo[t]).reg])
    <3>1. loaded[t][1] = gpio[Head(todo[t]).reg]
      BY <2>2
    <3> QED BY <2>1, <3>1, Zenon
  <2> QED BY <2>2, <2>3, WriteStep
<1>6. ASSUME NEW t \in GpioTasks, Strobe(t)
      PROVE  GpioInv'
  <2>1. todo[t] # << >> /\ Writes(t, Head(todo[t]), gpio[Head(todo[t]).reg])
    BY <1>6, Zenon DEF Strobe, Idle
  <2> QED BY <2>1, WriteStep
<1> QED BY <1>3, <1>4, <1>5, <1>6, LoadStep, SaveStep, ResetStep, Zenon DEF GpioNext

-----------------------------------------------------------------------------
\* What the driver's callers rely on holds in every state: the register that a
\* task is about to store is current, and what it still has to write makes its
\* pin what it asked for.
THEOREM GpioCorrect == ASSUME GpioAssumption PROVE GpioSpec => []GpioInv
<1>1. GpioInit => GpioInv
  BY GpioInitInv
<1>2. GpioInv /\ [GpioNext]_gpioVars => GpioInv'
  <2>1. GpioInv /\ UNCHANGED gpioVars => GpioInv'
    BY Zenon DEF gpioVars, GpioInv, GpioTypes, OneConfigures, LoadedCurrent, Asked
  <2> QED BY <2>1, GpioStep
<1> QED BY <1>1, <1>2, PTL DEF GpioSpec

\* A pin whose owner has nothing left to do is as the owner asked, for any number
\* of tasks and pins and whatever is done to the others between a load and its
\* store.
THEOREM PinsSettle == ASSUME GpioAssumption PROVE GpioSpec => []PinsAsAsked
<1>1. GpioInv => PinsAsAsked
  <2> SUFFICES ASSUME GpioInv, NEW p \in Pins, Settled(p)
               PROVE  /\ GPIODirModeGet(p) = want[p].dir
                      /\ GPIOIntTypeGet(p) = want[p].type
                      /\ p \in gpio["DATAOUT"] <=> want[p].high
                      /\ p \in gpio["DEBOUNCE"] <=> want[p].debounce
                      /\ \A l \in Lines :
                            /\ p \in gpio[INTEN[l]] <=> want[p].enabled[l]
                            /\ p \in gpio[WAKEN[l]] <=> want[p].waken[l]
                            /\ GPIORawIntStatus(l, {p}) = {p} <=> want[p].status[l]
                            /\ GPIOPinIntStatus(l, p) <=> (want[p].enabled[l] /\ want[p].status[l])
    BY Zenon DEF PinsAsAsked
  <2>1. ASSUME NEW r \in PinRegs
        PROVE  Wanted(want, r, p) <=> p \in gpio[r]
    <3>1. ASSUME NEW t \in GpioTasks, NEW i \in 1 .. Len(todo[t]), Touches(todo[t][i], r, p)
          PROVE  FALSE
      <4>1. i \in 1 .. 2 /\ i <= Len(todo[t]) /\ AccessOf(todo[t][i], t)
        <5>1. Len(todo[t]) \in 0 .. 2 /\ \A j \in 1 .. Len(todo[t]) : AccessOf(todo[t][j], t)
          BY Zenon DEF GpioInv, GpioTypes
        <5> QED BY <5>1
      <4>2. todo[t][i].op # "put"
        BY <4>1 DEF Settled
      <4>3. Owner[p] = t
        BY <3>1, <4>1, <4>2 DEF AccessOf, Touches
      <4>4. Len(todo[t]) = 0
        BY <4>3 DEF Settled, Idle
      <4> QED BY <4>1, <4>4
    <3>2. \A t \in GpioTasks : Untouched(todo[t], r, p)
      BY <3>1, Zenon DEF Untouched
    <3> QED BY <3>2, Zenon DEF GpioInv, Asked
  <2>2. /\ p \in gpio["OE"] <=> want[p].dir = "input"
        /\ p \in gpio["DATAOUT"] <=> want[p].high
        /\ p \in gpio["DEBOUNCE"] <=> want[p].debounce
        /\ p \in gpio["LEVEL0"] <=> want[p].type.low
        /\ p \in gpio["LEVEL1"] <=> want[p].type.high
        /\ p \in gpio["RISING"] <=> want[p].type.rising
        /\ p \in gpio["FALLING"] <=> want[p].type.falling
    <3>1. "OE" \in PinRegs /\ "DATAOUT" \in PinRegs /\ "DEBOUNCE" \in PinRegs /\ "LEVEL0" \in PinRegs
          /\ "LEVEL1" \in PinRegs /\ "RISING" \in PinRegs /\ "FALLING" \in PinRegs
      BY RegNames DEF Plain
    <3> QED BY <2>1, <3>1, WantedAt, Zenon
  <2>3. \A l \in Lines : /\ p \in gpio[INTEN[l]] <=> want[p].enabled[l]
                         /\ p \in gpio[WAKEN[l]] <=> want[p].waken[l]
                         /\ p \in gpio[STATUS[l]] <=> want[p].status[l]
    BY <2>1, RegNames, WantedAt, Zenon
  <2>4. want[p] \in WantShape
    BY DEF GpioInv, GpioTypes
  <2>5. GPIODirModeGet(p) = want[p].dir
    <3>1. want[p].dir \in {"input", "output"}
      BY <2>4 DEF WantShape
    <3> QED BY <2>2, <3>1, Zenon DEF GPIODirModeGet
  <2>6. GPIOIntTypeGet(p) = want[p].type
    <3> DEFINE lo == p \in gpio["LEVEL0"]
               hi == p \in gpio["LEVEL1"]
               ri == p \in gpio["RISING"]
               fa == p \in gpio["FALLING"]
               y == want[p].type
    <3>1. y \in TypeShape
      BY <2>4 DEF WantShape
    <3>2. y.low \in Bool /\ y.high \in Bool /\ y.rising \in Bool /\ y.falling \in Bool
      BY <3>1 DEF TypeShape
    <3>3. lo = y.low /\ hi = y.high /\ ri = y.rising /\ fa = y.falling
      <4>2. lo = y.low
        <5>1. (p \in gpio["LEVEL0"] <=> y.low) /\ y.low \in BOOLEAN
          BY <2>2, <3>2, Zenon DEF Bool
        <5> HIDE DEF y
        <5> QED BY <5>1
      <4>3. hi = y.high
        <5>1. (p \in gpio["LEVEL1"] <=> y.high) /\ y.high \in BOOLEAN
          BY <2>2, <3>2, Zenon DEF Bool
        <5> HIDE DEF y
        <5> QED BY <5>1
      <4>4. ri = y.rising
        <5>1. (p \in gpio["RISING"] <=> y.rising) /\ y.rising \in BOOLEAN
          BY <2>2, <3>2, Zenon DEF Bool
        <5> HIDE DEF y
        <5> QED BY <5>1
      <4>5. fa = y.falling
        <5>1. (p \in gpio["FALLING"] <=> y.falling) /\ y.falling \in BOOLEAN
          BY <2>2, <3>2, Zenon DEF Bool
        <5> HIDE DEF y
        <5> QED BY <5>1
      <4> QED BY <4>2, <4>3, <4>4, <4>5, Zenon
    <3>4. GPIOIntTypeGet(p) = [low |-> lo, high |-> hi, rising |-> ri, falling |-> fa]
      BY Zenon DEF GPIOIntTypeGet
    <3> HIDE DEF lo, hi, ri, fa, y
    <3>5. [low |-> lo, high |-> hi, rising |-> ri, falling |-> fa] = y
      BY <3>1, <3>3 DEF TypeShape
    <3> QED BY <3>4, <3>5, Zenon DEF y
  <2>7. ASSUME NEW l \in Lines
        PROVE  /\ GPIORawIntStatus(l, {p}) = {p} <=> want[p].status[l]
               /\ GPIOPinIntStatus(l, p) <=> (want[p].enabled[l] /\ want[p].status[l])
    <3>1. GPIORawIntStatus(l, {p}) = {p} <=> p \in gpio[STATUS[l]]
      BY DEF GPIORawIntStatus
    <3>2. GPIOPinIntStatus(l, p) <=> p \in gpio[STATUS[l]] /\ p \in gpio[INTEN[l]]
      BY DEF GPIOPinIntStatus
    <3> QED BY <2>3, <3>1, <3>2, Zenon
  <2> QED BY <2>2, <2>3, <2>5, <2>6, <2>7, Zenon
<1> QED BY <1>1, GpioCorrect, PTL

-----------------------------------------------------------------------------
(* The UART driver *)

\* The registers, as sets of bits
UartRegs == [UartRegisters -> SUBSET Int]

\* Accesses

\* v is u but for the register r, which holds c.
Only(u, v, r, c) ==
    /\ v \in UartRegs
    /\ v[r] = c
    /\ \A q \in UartRegisters \ {r} : v[q] = u[q]

\* That says which registers v are.
LEMMA OnlyOne ==
  ASSUME NEW u \in UartRegs, NEW r \in UartRegisters, NEW c, NEW v, Only(u, v, r, c)
  PROVE  v = [u EXCEPT ![r] = c]
BY DEF Only, UartRegs

LEMMA SetIsOnly ==
  ASSUME NEW u \in UartRegs, NEW r \in UartRegisters, NEW c \in SUBSET Int
  PROVE  Only(u, [u EXCEPT ![r] = c], r, c)
BY DEF Only, UartRegs

\* An access to r is one to q, the register that it reaches.
LEMMA AccessReaches ==
  ASSUME NEW u \in UartRegs, NEW r, NEW q \in UartRegisters, NEW bits \in SUBSET Int,
         Reached(u, r) = q
  PROVE  /\ Only(u, Write(u, r, bits), q,
                 (bits \ Protected(u, q)) \cup (u[q] \cap Protected(u, q)))
         /\ Only(u, SetBits(u, r, bits), q, u[q] \cup (bits \ Protected(u, q)))
         /\ Only(u, ClearBits(u, r, bits), q, u[q] \ (bits \ Protected(u, q)))
<1>1. Read(u, r) = u[q] /\ u[q] \in SUBSET Int
  BY DEF Read, UartRegs
<1>2. ASSUME NEW b \in SUBSET Int
      PROVE  Only(u, Write(u, r, b), q, (b \ Protected(u, q)) \cup (u[q] \cap Protected(u, q)))
  <2> DEFINE c == (b \ Protected(u, q)) \cup (u[q] \cap Protected(u, q))
  <2>1. Write(u, r, b) = [u EXCEPT ![q] = c]
    BY DEF Write
  <2>2. c \in SUBSET Int
    BY <1>1
  <2> HIDE DEF c
  <2>3. Only(u, Write(u, r, b), q, c)
    BY <2>1, <2>2, SetIsOnly
  <2> QED BY <2>3 DEF c
<1>3. SetBits(u, r, bits) = Write(u, r, u[q] \cup bits)
  BY <1>1 DEF SetBits
<1>4. ClearBits(u, r, bits) = Write(u, r, u[q] \ bits)
  BY <1>1 DEF ClearBits
<1>5. ((u[q] \cup bits) \ Protected(u, q)) \cup (u[q] \cap Protected(u, q))
        = u[q] \cup (bits \ Protected(u, q))
  OBVIOUS
<1>6. ((u[q] \ bits) \ Protected(u, q)) \cup (u[q] \cap Protected(u, q))
        = u[q] \ (bits \ Protected(u, q))
  OBVIOUS
<1>7. u[q] \cup bits \in SUBSET Int /\ u[q] \ bits \in SUBSET Int
  BY <1>1
<1>8. Only(u, SetBits(u, r, bits), q, u[q] \cup (bits \ Protected(u, q)))
  BY <1>2, <1>3, <1>5, <1>7
<1>9. Only(u, ClearBits(u, r, bits), q, u[q] \ (bits \ Protected(u, q)))
  BY <1>2, <1>4, <1>6, <1>7
<1> QED BY <1>2, <1>8, <1>9

LEMMA FreeAccess ==
  ASSUME NEW u \in UartRegs, NEW r \in UartRegisters, NEW bits \in SUBSET Int,
         Reached(u, r) = r, Protected(u, r) \cap bits = {}
  PROVE  /\ Protected(u, r) = {} => Only(u, Write(u, r, bits), r, bits)
         /\ Only(u, SetBits(u, r, bits), r, u[r] \cup bits)
         /\ Only(u, ClearBits(u, r, bits), r, u[r] \ bits)
<1>1. bits \ Protected(u, r) = bits
  OBVIOUS
<1>2. Protected(u, r) = {} => bits \cup (u[r] \cap Protected(u, r)) = bits
  OBVIOUS
<1>3. /\ Only(u, Write(u, r, bits), r,
              (bits \ Protected(u, r)) \cup (u[r] \cap Protected(u, r)))
      /\ Only(u, SetBits(u, r, bits), r, u[r] \cup (bits \ Protected(u, r)))
      /\ Only(u, ClearBits(u, r, bits), r, u[r] \ (bits \ Protected(u, r)))
  BY AccessReaches
<1> QED BY <1>1, <1>2, <1>3

LEMMA ProgramHits ==
  ASSUME NEW u \in UartRegs, NEW r \in UartRegisters, NEW field \in SUBSET Int, NEW value,
         Reached(u, r) = r, Protected(u, r) \cap field = {},
         \A v : Only(u, v, r, u[r] \ field)
                   => Reached(v, r) = r /\ Protected(v, r) \cap field = {}
  PROVE  Only(u, Program(u, r, field, value), r, (u[r] \ field) \cup (value \cap field))
<1> DEFINE v == ClearBits(u, r, field)
           w == value \cap field
           p == SetBits(v, r, w)
<1>1. Only(u, v, r, u[r] \ field)
  BY FreeAccess
<1> HIDE DEF v
<1>2. v \in UartRegs /\ Reached(v, r) = r /\ Protected(v, r) \cap w = {} /\ w \in SUBSET Int
  BY <1>1 DEF Only
<1> HIDE DEF w
<1>3. Only(v, p, r, v[r] \cup w)
  BY <1>2, FreeAccess
<1>4. Only(u, p, r, (u[r] \ field) \cup w)
  BY <1>1, <1>3 DEF Only
<1> QED BY <1>4 DEF Program, v, w, p

\* Modes

LcrOf(u, mode) ==
    CASE mode = "A" -> ModeA [] mode = "B" -> ModeB [] mode = "operational" -> u["LCR"] \ DivEn

\* LCR is always reached, and nothing protects it.
LEMMA LcrIsFree ==
  ASSUME NEW u \in UartRegs
  PROVE  /\ Reached(u, "LCR") = "LCR" /\ Protected(u, "LCR") = {}
         /\ "LCR" \in UartRegisters /\ u["LCR"] \in SUBSET Int
BY DEF Reached, Protected, UartRegisters, UartRegs

LEMMA ModeChosen ==
  ASSUME NEW u \in UartRegs, NEW mode \in {"A", "B", "operational"}
  PROVE  /\ Only(u, UARTRegConfigModeEnable(u, mode), "LCR", LcrOf(u, mode))
         /\ Mode(UARTRegConfigModeEnable(u, mode)) = mode
<1>1. DivEn \in SUBSET Int /\ ModeA \in SUBSET Int /\ ModeB \in SUBSET Int
  BY DEF DivEn, ModeA, ModeB
<1> DEFINE v == UARTRegConfigModeEnable(u, mode)
<1>2. CASE mode = "operational"
  <2>1. Only(u, ClearBits(u, "LCR", DivEn), "LCR", u["LCR"] \ DivEn)
    BY <1>1, LcrIsFree, FreeAccess
  <2> QED BY <1>2, <2>1 DEF UARTRegConfigModeEnable, LcrOf, Only, Mode, DivEn
<1>3. CASE mode = "A"
  <2>1. Only(u, Write(u, "LCR", ModeA), "LCR", ModeA)
    BY <1>1, LcrIsFree, FreeAccess
  <2> QED BY <1>3, <2>1 DEF UARTRegConfigModeEnable, LcrOf, Only, Mode, ModeA, ModeB
<1>4. CASE mode = "B"
  <2>1. Only(u, Write(u, "LCR", ModeB), "LCR", ModeB)
    BY <1>1, LcrIsFree, FreeAccess
  <2> QED BY <1>4, <2>1 DEF UARTRegConfigModeEnable, LcrOf, Only, Mode, ModeB
<1> QED BY <1>2, <1>3, <1>4

LEMMA LcrRestored ==
  ASSUME NEW u \in UartRegs, NEW lcr \in SUBSET Int
  PROVE  Only(u, UARTRegConfModeRestore(u, lcr), "LCR", lcr)
BY LcrIsFree, FreeAccess DEF UARTRegConfModeRestore

\* What is done to another register in a mode of its own is all that is done.
LEMMA ThroughMode ==
  ASSUME NEW u \in UartRegs, NEW mode \in {"A", "B", "operational"},
         NEW r \in UartRegisters \ {"LCR"}, NEW c, NEW d,
         Only(UARTRegConfigModeEnable(u, mode), d, r, c)
  PROVE  Only(u, UARTRegConfModeRestore(d, u["LCR"]), r, c)
<1> DEFINE b == UARTRegConfigModeEnable(u, mode)
           l == UARTRegConfModeRestore(d, u["LCR"])
<1>1. Only(u, b, "LCR", LcrOf(u, mode))
  BY ModeChosen
<1>2. d \in UartRegs
  BY DEF Only
<1>3. Only(d, l, "LCR", u["LCR"])
  BY <1>2, LcrIsFree, LcrRestored
<1>4. Only(b, d, r, c)
  OBVIOUS
<1> HIDE DEF b, l
<1>5. Only(u, l, r, c)
  BY <1>1, <1>3, <1>4 DEF Only
<1> QED BY <1>5 DEF l

\* Nothing protects EFR, and in mode B it is reached.
LEMMA EfrInB ==
  ASSUME NEW u \in UartRegs, Mode(u) = "B"
  PROVE  /\ Reached(u, "EFR") = "EFR" /\ Protected(u, "EFR") = {}
         /\ "EFR" \in UartRegisters /\ u["EFR"] \in SUBSET Int
BY DEF Reached, Protected, UartRegisters, UartRegs

LEMMA EfrProgrammed ==
  ASSUME NEW u \in UartRegs, Mode(u) = "B", NEW field \in SUBSET Int, NEW value
  PROVE  Only(u, Program(u, "EFR", field, value), "EFR",
              (u["EFR"] \ field) \cup (value \cap field))
<1>1. ASSUME NEW v, Only(u, v, "EFR", u["EFR"] \ field)
      PROVE  Reached(v, "EFR") = "EFR" /\ Protected(v, "EFR") \cap field = {}
  <2>1. v \in UartRegs /\ v["LCR"] = u["LCR"]
    BY <1>1 DEF Only, UartRegisters
  <2>2. Mode(v) = "B"
    BY <2>1 DEF Mode
  <2> QED BY <2>1, <2>2, EfrInB
<1> QED BY <1>1, EfrInB, ProgramHits

\* Inside, EFR[4] is set and the mode is as chosen.
LEMMA Entered ==
  ASSUME NEW u \in UartRegs, NEW mode \in {"A", "B", "operational"}
  PROVE  /\ Enter(u, mode) \in UartRegs
         /\ Mode(Enter(u, mode)) = mode
         /\ Enter(u, mode)["EFR"] = u["EFR"] \cup {4}
         /\ \A r \in UartRegisters \ {"EFR", "LCR"} : Enter(u, mode)[r] = u[r]
<1> DEFINE b == UARTRegConfigModeEnable(u, "B")
           s == SetBits(b, "EFR", EnhancedEn)
           e == UARTRegConfigModeEnable(s, mode)
<1>1. Only(u, b, "LCR", LcrOf(u, "B")) /\ Mode(b) = "B"
  BY ModeChosen
<1>2. b \in UartRegs
  BY <1>1 DEF Only
<1> HIDE DEF b
<1>3. Only(b, s, "EFR", b["EFR"] \cup {4})
  <2>1. EnhancedEn \in SUBSET Int /\ EnhancedEn = {4}
    BY DEF EnhancedEn
  <2>2. Only(b, s, "EFR", b["EFR"] \cup EnhancedEn)
    BY <1>1, <1>2, <2>1, EfrInB, FreeAccess
  <2> QED BY <2>1, <2>2
<1>4. s \in UartRegs
  BY <1>3 DEF Only
<1> HIDE DEF s
<1>5. Only(s, e, "LCR", LcrOf(s, mode)) /\ Mode(e) = mode
  BY <1>4, ModeChosen
<1>6. e = Enter(u, mode)
  BY DEF Enter, b, s
<1> HIDE DEF e
<1>7. /\ e \in UartRegs /\ e["EFR"] = u["EFR"] \cup {4}
      /\ \A r \in UartRegisters \ {"EFR", "LCR"} : e[r] = u[r]
  BY <1>1, <1>3, <1>5 DEF Only, UartRegisters
<1> QED BY <1>5, <1>6, <1>7

LEMMA Left ==
  ASSUME NEW u \in UartRegs, NEW d \in UartRegs
  PROVE  /\ Leave(u, d) \in UartRegs
         /\ Leave(u, d)["LCR"] = u["LCR"]
         /\ Leave(u, d)["EFR"] = (d["EFR"] \ {4}) \cup (u["EFR"] \cap {4})
         /\ \A r \in UartRegisters \ {"EFR", "LCR"} : Leave(u, d)[r] = d[r]
<1> DEFINE b == UARTRegConfigModeEnable(u, "B")
           efr == Read(b, "EFR")
           c == UARTRegConfigModeEnable(d, "B")
           back == Program(c, "EFR", EnhancedEn, efr)
           l == UARTRegConfModeRestore(back, u.LCR)
<1>1. efr = u["EFR"]
  <2>1. Only(u, b, "LCR", LcrOf(u, "B")) /\ Mode(b) = "B"
    BY ModeChosen
  <2> HIDE DEF b
  <2>2. b \in UartRegs /\ b["EFR"] = u["EFR"]
    BY <2>1 DEF Only, UartRegisters
  <2> QED BY <2>1, <2>2, EfrInB DEF Read
<1>2. Only(d, c, "LCR", LcrOf(d, "B")) /\ Mode(c) = "B"
  BY ModeChosen
<1>3. c \in UartRegs
  BY <1>2 DEF Only
<1> HIDE DEF c, efr
<1>4. Only(c, back, "EFR", (c["EFR"] \ {4}) \cup (u["EFR"] \cap {4}))
  BY <1>1, <1>2, <1>3, EfrProgrammed DEF EnhancedEn
<1>5. back \in UartRegs
  BY <1>4 DEF Only
<1>6. l = Leave(u, d)
  BY DEF Leave, b, c, efr, back
<1> HIDE DEF back
<1>7. Only(back, l, "LCR", u["LCR"])
  BY <1>5, LcrIsFree, LcrRestored
<1> HIDE DEF l
<1>8. /\ l \in UartRegs /\ l["LCR"] = u["LCR"]
      /\ l["EFR"] = (d["EFR"] \ {4}) \cup (u["EFR"] \cap {4})
      /\ \A r \in UartRegisters \ {"EFR", "LCR"} : l[r] = d[r]
  BY <1>2, <1>4, <1>7 DEF Only, UartRegisters
<1> QED BY <1>6, <1>8

LEMMA ThroughEnhanced ==
  ASSUME NEW u \in UartRegs, NEW mode \in {"A", "B", "operational"},
         NEW r \in UartRegisters \ {"LCR", "EFR"}, NEW c, NEW d,
         Only(Enter(u, mode), d, r, c)
  PROVE  Only(u, Leave(u, d), r, c)
<1>1. d \in UartRegs /\ d["EFR"] = u["EFR"] \cup {4}
  BY Entered DEF Only, UartRegisters
<1>2. (d["EFR"] \ {4}) \cup (u["EFR"] \cap {4}) = u["EFR"]
  BY <1>1
<1>3. \A q \in UartRegisters \ {"EFR", "LCR", r} : d[q] = u[q]
  BY Entered DEF Only
<1>4. Leave(u, d)["EFR"] = u["EFR"]
  BY <1>1, <1>2, Left
<1>5. \A q \in UartRegisters \ {r} : Leave(u, d)[q] = u[q]
  BY <1>1, <1>3, <1>4, Left
<1> QED BY <1>1, <1>5, Left DEF Only

\* MCR and EFR

LEMMA EnhancedFree ==
  ASSUME NEW u, EnhancedEn \subseteq u["EFR"]
  PROVE  Protected(u, "IER") = {} /\ Protected(u, "MCR") = {}
BY DEF Protected, EnhancedEn

LEMMA McrEntered ==
  ASSUME NEW u \in UartRegs
  PROVE  LET e == Enter(u, "A") IN
         /\ e \in UartRegs /\ Reached(e, "MCR") = "MCR" /\ Protected(e, "MCR") = {}
         /\ "MCR" \in UartRegisters /\ e["MCR"] = u["MCR"]
<1>1. /\ Enter(u, "A") \in UartRegs /\ Mode(Enter(u, "A")) = "A"
      /\ Enter(u, "A")["EFR"] = u["EFR"] \cup {4} /\ Enter(u, "A")["MCR"] = u["MCR"]
  BY Entered DEF UartRegisters
<1>2. Protected(Enter(u, "A"), "MCR") = {}
  BY <1>1, EnhancedFree DEF EnhancedEn
<1> QED BY <1>1, <1>2 DEF Reached, UartRegisters

LEMMA SubModes ==
  ASSUME NEW u \in UartRegs, NEW bit
  PROVE  /\ Only(u, UARTSubConfigMSRSPRModeEn(u), "MCR", u["MCR"] \ TcrTlr)
         /\ Only(u, UARTSubConfigXOFFModeEn(u), "MCR", u["MCR"] \ TcrTlr)
         /\ Only(u, UARTSubConfigTCRTLRModeEn(u), "MCR", u["MCR"] \cup TcrTlr)
         /\ Only(u, UARTTCRTLRBitValRestore(u, bit), "MCR",
                 (u["MCR"] \ TcrTlr) \cup (bit \cap TcrTlr))
<1> DEFINE e == Enter(u, "A")
<1>1. /\ e \in UartRegs /\ Reached(e, "MCR") = "MCR" /\ Protected(e, "MCR") = {}
      /\ "MCR" \in UartRegisters /\ e["MCR"] = u["MCR"] /\ TcrTlr \in SUBSET Int
      /\ Mode(e) = "A" /\ EnhancedEn \subseteq e["EFR"]
  BY McrEntered, Entered DEF TcrTlr, EnhancedEn
<1>2. ASSUME NEW d, NEW c, Only(e, d, "MCR", c)
      PROVE  Only(u, Leave(u, d), "MCR", c)
  BY <1>2, ThroughEnhanced DEF UartRegisters
<1> HIDE DEF e
<1>3. /\ Only(e, ClearBits(e, "MCR", TcrTlr), "MCR", u["MCR"] \ TcrTlr)
      /\ Only(e, SetBits(e, "MCR", TcrTlr), "MCR", u["MCR"] \cup TcrTlr)
  BY <1>1, FreeAccess
<1>4. Only(e, Program(e, "MCR", TcrTlr, bit), "MCR", (u["MCR"] \ TcrTlr) \cup (bit \cap TcrTlr))
  <2>1. ASSUME NEW v, Only(e, v, "MCR", e["MCR"] \ TcrTlr)
        PROVE  Reached(v, "MCR") = "MCR" /\ Protected(v, "MCR") \cap TcrTlr = {}
    <3>1. v["LCR"] = e["LCR"] /\ v["EFR"] = e["EFR"]
      BY <2>1 DEF Only, UartRegisters
    <3>2. Mode(v) = "A" /\ EnhancedEn \subseteq v["EFR"]
      BY <1>1, <3>1 DEF Mode
    <3> QED BY <3>2, EnhancedFree DEF Reached
  <2> QED BY <1>1, <2>1, ProgramHits
<1>5. Only(u, UARTSubConfigMSRSPRModeEn(u), "MCR", u["MCR"] \ TcrTlr)
  BY <1>2, <1>3 DEF UARTSubConfigMSRSPRModeEn, Enhanced, e
<1>6. Only(u, UARTSubConfigXOFFModeEn(u), "MCR", u["MCR"] \ TcrTlr)
  BY <1>2, <1>3 DEF UARTSubConfigXOFFModeEn, Enhanced, e
<1>7. Only(u, UARTSubConfigTCRTLRModeEn(u), "MCR", u["MCR"] \cup TcrTlr)
  BY <1>2, <1>3 DEF UARTSubConfigTCRTLRModeEn, Enhanced, e
<1>8. Only(u, UARTTCRTLRBitValRestore(u, bit), "MCR",
           (u["MCR"] \ TcrTlr) \cup (bit \cap TcrTlr))
  BY <1>2, <1>4 DEF UARTTCRTLRBitValRestore, Enhanced, e
<1> QED BY <1>5, <1>6, <1>7, <1>8

LEMMA EfrSet ==
  ASSUME NEW u \in UartRegs, NEW bits \in SUBSET Int
  PROVE  LET b == UARTRegConfigModeEnable(u, "B") IN
         /\ b \in UartRegs /\ Mode(b) = "B" /\ b["EFR"] = u["EFR"]
         /\ Only(b, SetBits(b, "EFR", bits), "EFR", u["EFR"] \cup bits)
<1> DEFINE b == UARTRegConfigModeEnable(u, "B")
<1>1. Only(u, b, "LCR", LcrOf(u, "B")) /\ Mode(b) = "B"
  BY ModeChosen
<1> HIDE DEF b
<1>2. b \in UartRegs /\ b["EFR"] = u["EFR"]
  BY <1>1 DEF Only, UartRegisters
<1>3. Only(b, SetBits(b, "EFR", bits), "EFR", u["EFR"] \cup bits)
  BY <1>1, <1>2, EfrInB, FreeAccess
<1> QED BY <1>1, <1>2, <1>3 DEF b

LEMMA EfrThrough ==
  ASSUME NEW u \in UartRegs, NEW d, NEW c, Only(UARTRegConfigModeEnable(u, "B"), d, "EFR", c)
  PROVE  Only(u, UARTRegConfModeRestore(d, u.LCR), "EFR", c)
BY ThroughMode DEF UartRegisters

LEMMA EfrCalls ==
  ASSUME NEW u \in UartRegs, NEW bit, NEW cts, NEW rts
  PROVE  /\ Only(u, UARTEnhanFuncEnable(u), "EFR", u["EFR"] \cup EnhancedEn)
         /\ Only(u, UARTEnhanFuncBitValRestore(u, bit), "EFR",
                 (u["EFR"] \ EnhancedEn) \cup (bit \cap EnhancedEn))
         /\ Only(u, UARTSpecialCharDetectControl(u, bit), "EFR",
                 (u["EFR"] \ SpecialChar) \cup (bit \cap SpecialChar))
         /\ Only(u, UARTSoftwareFlowCtrlOptSet(u, bit), "EFR",
                 (u["EFR"] \ SwFlow) \cup (bit \cap SwFlow))
         /\ Only(u, UARTAutoRTSAutoCTSControl(u, cts, rts), "EFR",
                 ((u["EFR"] \ AutoRtsCts) \cup (cts \cap {7})) \cup (rts \cap {6}))
<1> DEFINE b == UARTRegConfigModeEnable(u, "B")
<1>1. b \in UartRegs /\ Mode(b) = "B" /\ b["EFR"] = u["EFR"]
  BY EfrSet
<1>2. Only(b, SetBits(b, "EFR", EnhancedEn), "EFR", u["EFR"] \cup EnhancedEn)
  BY EfrSet DEF EnhancedEn
<1>3. Only(u, UARTEnhanFuncEnable(u), "EFR", u["EFR"] \cup EnhancedEn)
  BY <1>2, EfrThrough DEF UARTEnhanFuncEnable, InMode
<1>4. ASSUME NEW field \in SUBSET Int
      PROVE  Only(u, UARTRegConfModeRestore(Program(b, "EFR", field, bit), u.LCR), "EFR",
                  (u["EFR"] \ field) \cup (bit \cap field))
  <2> HIDE DEF b
  <2>1. Only(b, Program(b, "EFR", field, bit), "EFR", (u["EFR"] \ field) \cup (bit \cap field))
    BY <1>1, EfrProgrammed
  <2> QED BY <2>1, EfrThrough DEF b
<1>5. EnhancedEn \in SUBSET Int /\ SpecialChar \in SUBSET Int /\ SwFlow \in SUBSET Int
  BY DEF EnhancedEn, SpecialChar, SwFlow
<1>6. Only(u, UARTEnhanFuncBitValRestore(u, bit), "EFR",
           (u["EFR"] \ EnhancedEn) \cup (bit \cap EnhancedEn))
  BY <1>4, <1>5 DEF UARTEnhanFuncBitValRestore, InMode
<1>7. Only(u, UARTSpecialCharDetectControl(u, bit), "EFR",
           (u["EFR"] \ SpecialChar) \cup (bit \cap SpecialChar))
  BY <1>4, <1>5 DEF UARTSpecialCharDetectControl, InMode
<1>8. Only(u, UARTSoftwareFlowCtrlOptSet(u, bit), "EFR",
           (u["EFR"] \ SwFlow) \cup (bit \cap SwFlow))
  BY <1>4, <1>5 DEF UARTSoftwareFlowCtrlOptSet, InMode
<1>9. Only(u, UARTAutoRTSAutoCTSControl(u, cts, rts), "EFR",
           ((u["EFR"] \ AutoRtsCts) \cup (cts \cap {7})) \cup (rts \cap {6}))
  <2> DEFINE d == ClearBits(b, "EFR", AutoRtsCts)
             s == SetBits(d, "EFR", cts \cap {7})
             t == SetBits(s, "EFR", rts \cap {6})
  <2>1. Only(b, d, "EFR", u["EFR"] \ AutoRtsCts)
    <3>1. AutoRtsCts \in SUBSET Int
      BY DEF AutoRtsCts
    <3> HIDE DEF b
    <3> QED BY <1>1, <3>1, EfrInB, FreeAccess
  <2> HIDE DEF d, b
  <2>2. ASSUME NEW v \in UartRegs, v["LCR"] = b["LCR"] PROVE Mode(v) = "B"
    BY <1>1, <2>2 DEF Mode
  <2>3. d \in UartRegs /\ Mode(d) = "B"
    BY <2>1, <2>2 DEF Only, UartRegisters
  <2>4. Only(d, s, "EFR", d["EFR"] \cup (cts \cap {7}))
    <3> DEFINE x == cts \cap {7}
    <3>1. x \in SUBSET Int
      OBVIOUS
    <3> HIDE DEF x
    <3>2. Only(d, SetBits(d, "EFR", x), "EFR", d["EFR"] \cup x)
      BY <2>3, <3>1, EfrInB, FreeAccess
    <3> QED BY <3>2 DEF x
  <2>5. s \in UartRegs /\ Mode(s) = "B"
    BY <2>1, <2>2, <2>4 DEF Only, UartRegisters
  <2> HIDE DEF s
  <2>6. Only(s, t, "EFR", s["EFR"] \cup (rts \cap {6}))
    <3> DEFINE x == rts \cap {6}
    <3>1. x \in SUBSET Int
      OBVIOUS
    <3> HIDE DEF x
    <3>2. Only(s, SetBits(s, "EFR", x), "EFR", s["EFR"] \cup x)
      BY <2>5, <3>1, EfrInB, FreeAccess
    <3> QED BY <3>2 DEF x
  <2> HIDE DEF t
  <2>7. Only(b, t, "EFR", ((u["EFR"] \ AutoRtsCts) \cup (cts \cap {7})) \cup (rts \cap {6}))
    BY <2>1, <2>4, <2>6 DEF Only
  <2> QED BY <2>7, EfrThrough DEF UARTAutoRTSAutoCTSControl, InMode, b, d, s, t
<1> QED BY <1>3, <1>6, <1>7, <1>8, <1>9

\* Registers with an offset of their own

OwnOffset == {"LCR", "MDR1", "MDR2", "MDR3", "SCR", "SSR", "SYSC", "WER", "DMATHR"}

LEMMA OwnOffsetFree ==
  ASSUME NEW u, NEW r \in OwnOffset
  PROVE  Reached(u, r) = r /\ Protected(u, r) = {} /\ r \in UartRegisters
BY DEF OwnOffset, Reached, Protected, UartRegisters

LEMMA OwnOffsetAccess ==
  ASSUME NEW u \in UartRegs, NEW r \in OwnOffset, NEW bits \in SUBSET Int, NEW value
  PROVE  /\ Only(u, SetBits(u, r, bits), r, u[r] \cup bits)
         /\ Only(u, ClearBits(u, r, bits), r, u[r] \ bits)
         /\ Only(u, Program(u, r, bits, value), r, (u[r] \ bits) \cup (value \cap bits))
<1>1. Only(u, Program(u, r, bits, value), r, (u[r] \ bits) \cup (value \cap bits))
  BY OwnOffsetFree, ProgramHits
<1> QED BY <1>1, OwnOffsetFree, FreeAccess

LEMMA OperatingMode ==
  ASSUME NEW u \in UartRegs, NEW mode
  PROVE  Only(u, UARTOperatingModeSelect(u, mode), "MDR1",
              (u["MDR1"] \ ModeSelect) \cup (mode \cap ModeSelect))
<1>1. ModeSelect \in SUBSET Int /\ "MDR1" \in OwnOffset
  BY DEF ModeSelect, OwnOffset
<1> QED BY <1>1, OwnOffsetAccess DEF UARTOperatingModeSelect

\* IER

LEMMA IerIn ==
  ASSUME NEW u \in UartRegs, Mode(u) = "operational", EnhancedEn \subseteq u["EFR"],
         NEW bits \in SUBSET Int
  PROVE  /\ Only(u, SetBits(u, "IER", bits), "IER", u["IER"] \cup bits)
         /\ Only(u, ClearBits(u, "IER", bits), "IER", u["IER"] \ bits)
<1>1. "IER" \in UartRegisters /\ Reached(u, "IER") = "IER" /\ Protected(u, "IER") = {}
  BY EnhancedFree DEF Reached, UartRegisters
<1> QED BY <1>1, FreeAccess

LEMMA IerCalls ==
  ASSUME NEW u \in UartRegs, NEW flags \in SUBSET Int
  PROVE  /\ Only(u, UARTIntDisable(u, flags), "IER", u["IER"] \ flags)
         /\ Mode(u) = "operational" \/ flags \cap 0 .. 3 = {} =>
              Only(u, UARTIntEnable(u, flags), "IER", u["IER"] \cup (flags \cap 0 .. 7))
         /\ \E c \in SUBSET (0 .. 3) :
              /\ UARTIntEnable(u, flags) \in UartRegs
              /\ UARTIntEnable(u, flags)["DLH"] = u["DLH"] \cup c
              /\ UARTIntEnable(u, flags)["DLL"] = u["DLL"]
<1> DEFINE e == Enter(u, "operational")
           hi == flags \cap 4 .. 7
           lo == flags \cap 0 .. 3
           d == Leave(u, SetBits(e, "IER", hi))
           f == SetBits(d, "IER", lo)
<1>1. /\ e \in UartRegs /\ Mode(e) = "operational" /\ EnhancedEn \subseteq e["EFR"]
      /\ e["IER"] = u["IER"] /\ hi \in SUBSET Int /\ lo \in SUBSET Int
  BY Entered DEF EnhancedEn, UartRegisters
<1>2. Only(u, Leave(u, ClearBits(e, "IER", flags)), "IER", u["IER"] \ flags)
  <2> DEFINE g == ClearBits(e, "IER", flags)
  <2>1. Only(e, g, "IER", u["IER"] \ flags)
    <3> HIDE DEF e
    <3> QED BY <1>1, IerIn
  <2> HIDE DEF g
  <2> QED BY <2>1, ThroughEnhanced DEF UartRegisters, g
<1>3. Only(u, UARTIntDisable(u, flags), "IER", u["IER"] \ flags)
  BY <1>2 DEF UARTIntDisable, Enhanced
<1>4. Only(u, d, "IER", u["IER"] \cup hi)
  <2> DEFINE g == SetBits(e, "IER", hi)
  <2>1. Only(e, g, "IER", u["IER"] \cup hi)
    <3> HIDE DEF e, hi
    <3> QED BY <1>1, IerIn
  <2> HIDE DEF g, hi
  <2> QED BY <2>1, ThroughEnhanced DEF UartRegisters, g
<1>5. f = UARTIntEnable(u, flags)
  BY DEF UARTIntEnable, Enhanced
<1> HIDE DEF e, d, f
<1>6. d \in UartRegs /\ d["LCR"] = u["LCR"] /\ Mode(d) = Mode(u)
      /\ d["DLH"] = u["DLH"] /\ d["DLL"] = u["DLL"] /\ d["IER"] = u["IER"] \cup hi
  BY <1>4 DEF Only, UartRegisters, Mode
<1>7. CASE Mode(u) = "operational"
  <2>1. /\ Reached(d, "IER") = "IER" /\ Protected(d, "IER") \cap lo = {}
        /\ "IER" \in UartRegisters
    BY <1>6, <1>7 DEF Reached, Protected, UartRegisters
  <2> HIDE DEF lo, hi
  <2>2. Only(d, f, "IER", d["IER"] \cup lo)
    BY <1>1, <1>6, <2>1, FreeAccess DEF f
  <2>3. (u["IER"] \cup hi) \cup lo = u["IER"] \cup (flags \cap 0 .. 7)
    BY DEF lo, hi
  <2>4. Only(u, f, "IER", u["IER"] \cup (flags \cap 0 .. 7))
    BY <1>4, <1>6, <2>2, <2>3 DEF Only
  <2>5. f \in UartRegs /\ f["DLH"] = u["DLH"] \cup {} /\ f["DLL"] = u["DLL"]
    BY <2>4 DEF Only, UartRegisters
  <2>6. {} \in SUBSET (0 .. 3)
    OBVIOUS
  <2> QED BY <1>3, <1>5, <2>4, <2>5, <2>6
<1>8. CASE Mode(u) # "operational"
  <2>1. Reached(d, "IER") = "DLH" /\ "DLH" \in UartRegisters
    BY <1>6, <1>8 DEF Reached, UartRegisters
  <2> DEFINE c == lo \ Protected(d, "DLH")
  <2>2. Only(d, f, "DLH", d["DLH"] \cup c)
    <3> HIDE DEF lo
    <3> QED BY <1>1, <1>6, <2>1, AccessReaches DEF f
  <2>3. c \in SUBSET (0 .. 3)
    OBVIOUS
  <2>4. f \in UartRegs /\ f["DLH"] = u["DLH"] \cup c /\ f["DLL"] = u["DLL"]
    BY <1>6, <2>2 DEF Only, UartRegisters
  <2>5. flags \cap 0 .. 3 = {} => Only(u, f, "IER", u["IER"] \cup (flags \cap 0 .. 7))
    <3> HAVE flags \cap 0 .. 3 = {}
    <3>1. d["DLH"] \cup c = d["DLH"]
      OBVIOUS
    <3>2. u["IER"] \cup hi = u["IER"] \cup (flags \cap 0 .. 7)
      OBVIOUS
    <3> HIDE DEF c, hi
    <3>3. f["DLH"] = u["DLH"] /\ f["IER"] = u["IER"] \cup (flags \cap 0 .. 7)
      BY <1>6, <2>2, <3>1, <3>2 DEF Only, UartRegisters
    <3>4. \A q \in UartRegisters \ {"IER", "DLH"} : f[q] = u[q]
      BY <1>4, <2>2 DEF Only
    <3> QED BY <2>4, <3>3, <3>4 DEF Only
  <2> HIDE DEF c
  <2> QED BY <1>3, <1>5, <1>8, <2>3, <2>4, <2>5
<1> QED BY <1>7, <1>8

\* The divisor

LEMMA DivisorBits ==
  ASSUME NEW d \in SUBSET Int
  PROVE  Low(d) \in SUBSET (0 .. 7) /\ High(d) \in SUBSET (0 .. 5)
BY DEF Low, High, Shift

LEMMA DivisorKept ==
  ASSUME NEW u, u["DLL"] \subseteq 0 .. 7, u["DLH"] \subseteq 0 .. 5
  PROVE  /\ Low(DivisorLatch(u)) = u["DLL"]
         /\ High(DivisorLatch(u)) = u["DLH"]
         /\ DivisorLatch(u) \in SUBSET Int
<1>1. \A b \in DivisorLatch(u) : b \in u["DLL"] \/ \E c \in u["DLH"] \cap 0 .. 5 : b = c + 8
  BY DEF DivisorLatch, Shift
<1>2. \A c \in u["DLH"] : c + 8 \in DivisorLatch(u)
  BY DEF DivisorLatch, Shift
<1>3. u["DLL"] \subseteq DivisorLatch(u)
  BY DEF DivisorLatch
<1>4. DivisorLatch(u) \in SUBSET Int
  BY <1>1
<1>5. Low(DivisorLatch(u)) = u["DLL"]
  BY <1>1, <1>3 DEF Low
<1>6. \A b \in Int : b \in High(DivisorLatch(u)) <=> b + 8 \in DivisorLatch(u) \cap 8 .. 13
  BY DEF High, Shift
<1>7. \A b \in Int : b + 8 \in DivisorLatch(u) \cap 8 .. 13 <=> b \in u["DLH"]
  BY <1>1, <1>2
<1>8. High(DivisorLatch(u)) \in SUBSET Int
  BY DEF High, Shift
<1>9. High(DivisorLatch(u)) = u["DLH"]
  BY <1>6, <1>7, <1>8
<1> QED BY <1>4, <1>5, <1>9

\* The divisor is written although the sleep mode or a running clock would
\* prevent it, and nothing else is left changed.
LEMMA DivisorWritten ==
  ASSUME NEW u \in UartRegs, NEW d \in SUBSET Int
  PROVE  /\ UARTDivisorLatchWrite(u, d) \in UartRegs
         /\ UARTDivisorLatchWrite(u, d)["DLL"] = Low(d)
         /\ UARTDivisorLatchWrite(u, d)["DLH"] = High(d)
         /\ \A r \in UartRegisters \ {"DLL", "DLH"} : UARTDivisorLatchWrite(u, d)[r] = u[r]
<1> DEFINE e       == Enter(u, "operational")
           awake   == ClearBits(e, "IER", Sleep)
           inB     == UARTRegConfigModeEnable(awake, "B")
           stopped == UARTOperatingModeSelect(inB, ModeSelect)
           low     == Write(stopped, "DLL", Low(d))
           written == Write(low, "DLH", High(d))
           going   == UARTOperatingModeSelect(written, Read(inB, "MDR1"))
           op      == UARTRegConfigModeEnable(going, "operational")
           done    == SetBits(op, "IER", Read(e, "IER") \cap Sleep)
           left    == Leave(u, done)
<1>1. left = UARTDivisorLatchWrite(u, d)
  BY DEF UARTDivisorLatchWrite, Enhanced
<1>2. /\ e \in UartRegs /\ Mode(e) = "operational" /\ e["EFR"] = u["EFR"] \cup {4}
      /\ \A r \in UartRegisters \ {"EFR", "LCR"} : e[r] = u[r]
      /\ EnhancedEn \subseteq e["EFR"] /\ Sleep \in SUBSET Int
  BY Entered DEF EnhancedEn, Sleep
<1>3. Read(e, "IER") = u["IER"]
  BY <1>2 DEF Read, Reached, UartRegisters
<1> HIDE DEF e
<1>4. Only(e, awake, "IER", u["IER"] \ Sleep)
  <2>1. e["IER"] = u["IER"]
    BY <1>2 DEF UartRegisters
  <2>2. Only(e, ClearBits(e, "IER", Sleep), "IER", e["IER"] \ Sleep)
    BY <1>2, IerIn
  <2> QED BY <2>1, <2>2
<1>5. awake \in UartRegs
  BY <1>4 DEF Only
<1> HIDE DEF awake
<1>6. Only(awake, inB, "LCR", LcrOf(awake, "B")) /\ Mode(inB) = "B"
  BY <1>5, ModeChosen
<1>7. inB \in UartRegs /\ inB["MDR1"] = u["MDR1"]
  BY <1>2, <1>4, <1>6 DEF Only, UartRegisters
<1>8. Read(inB, "MDR1") = u["MDR1"]
  BY <1>7 DEF Read, Reached
<1> HIDE DEF inB
<1>9. Only(inB, stopped, "MDR1", (u["MDR1"] \ ModeSelect) \cup (ModeSelect \cap ModeSelect))
  BY <1>7, OperatingMode
<1>10. /\ stopped \in UartRegs /\ ModeSelect \subseteq stopped["MDR1"]
       /\ stopped["LCR"] = inB["LCR"]
  BY <1>9 DEF Only, UartRegisters
<1>11. Mode(stopped) = "B"
  BY <1>6, <1>10 DEF Mode
<1> HIDE DEF stopped
<1>12. Low(d) \in SUBSET Int /\ High(d) \in SUBSET Int
  BY DivisorBits
<1>13. Only(stopped, low, "DLL", Low(d))
  <2>1. Reached(stopped, "DLL") = "DLL" /\ Protected(stopped, "DLL") = {} /\ "DLL" \in UartRegisters
    BY <1>10, <1>11 DEF Reached, Protected, UartRegisters
  <2>2. Protected(stopped, "DLL") \cap Low(d) = {}
    BY <2>1
  <2> QED BY <1>10, <1>12, <2>1, <2>2, FreeAccess
<1>14. /\ low \in UartRegs /\ ModeSelect \subseteq low["MDR1"]
       /\ low["LCR"] = inB["LCR"]
  BY <1>10, <1>13 DEF Only, UartRegisters
<1>15. Mode(low) = "B"
  BY <1>6, <1>14 DEF Mode
<1> HIDE DEF low
<1>16. Only(low, written, "DLH", High(d))
  <2>1. Reached(low, "DLH") = "DLH" /\ Protected(low, "DLH") = {} /\ "DLH" \in UartRegisters
    BY <1>14, <1>15 DEF Reached, Protected, UartRegisters
  <2>2. Protected(low, "DLH") \cap High(d) = {}
    BY <2>1
  <2> QED BY <1>12, <1>14, <2>1, <2>2, FreeAccess
<1>17. written \in UartRegs
  BY <1>16 DEF Only
<1> HIDE DEF written
<1>18. Only(written, going, "MDR1", (written["MDR1"] \ ModeSelect) \cup (u["MDR1"] \cap ModeSelect))
  BY <1>8, <1>17, OperatingMode
<1>19. (written["MDR1"] \ ModeSelect) \cup (u["MDR1"] \cap ModeSelect) = u["MDR1"]
  <2>1. written["MDR1"] = (u["MDR1"] \ ModeSelect) \cup (ModeSelect \cap ModeSelect)
    BY <1>9, <1>13, <1>16 DEF Only, UartRegisters
  <2> QED BY <2>1
<1>20. going \in UartRegs
  BY <1>18 DEF Only
<1> HIDE DEF going
<1>21. Only(going, op, "LCR", LcrOf(going, "operational")) /\ Mode(op) = "operational"
  BY <1>20, ModeChosen
<1>22. op \in UartRegs /\ op["EFR"] = e["EFR"] /\ op["IER"] = u["IER"] \ Sleep
  BY <1>4, <1>6, <1>9, <1>13, <1>16, <1>18, <1>21 DEF Only, UartRegisters
<1> HIDE DEF op
<1>23. Only(op, done, "IER", u["IER"])
  <2> DEFINE bits == u["IER"] \cap Sleep
  <2>1. bits \in SUBSET Int
    BY <1>2
  <2>2. (u["IER"] \ Sleep) \cup bits = u["IER"]
    OBVIOUS
  <2> HIDE DEF bits
  <2>3. Only(op, SetBits(op, "IER", bits), "IER", op["IER"] \cup bits)
    BY <1>2, <1>21, <1>22, <2>1, IerIn
  <2> QED BY <1>3, <1>22, <2>2, <2>3 DEF bits
<1> HIDE DEF done
<1>24. /\ done \in UartRegs /\ done["DLL"] = Low(d) /\ done["DLH"] = High(d)
       /\ done["EFR"] = u["EFR"] \cup {4}
       /\ done["IER"] = u["IER"] /\ done["MDR1"] = u["MDR1"]
  <2>1. done \in UartRegs /\ done["IER"] = u["IER"]
    BY <1>23 DEF Only
  <2>2. done["DLL"] = Low(d) /\ done["DLH"] = High(d)
    BY <1>13, <1>16, <1>18, <1>21, <1>23 DEF Only, UartRegisters
  <2>3. done["EFR"] = u["EFR"] \cup {4}
    BY <1>2, <1>22, <1>23 DEF Only, UartRegisters
  <2>4. going["MDR1"] = u["MDR1"]
    BY <1>18, <1>19 DEF Only
  <2>5. done["MDR1"] = u["MDR1"]
    BY <1>21, <1>23, <2>4 DEF Only, UartRegisters
  <2> QED BY <2>1, <2>2, <2>3, <2>5
<1>25. \A r \in UartRegisters \ {"DLL", "DLH", "EFR", "LCR", "IER", "MDR1"} : done[r] = u[r]
  BY <1>2, <1>4, <1>6, <1>9, <1>13, <1>16, <1>18, <1>21, <1>23 DEF Only
<1>26. (done["EFR"] \ {4}) \cup (u["EFR"] \cap {4}) = u["EFR"]
  BY <1>24
<1>27. /\ left \in UartRegs /\ left["LCR"] = u["LCR"] /\ left["EFR"] = u["EFR"]
       /\ \A r \in UartRegisters \ {"EFR", "LCR"} : left[r] = done[r]
  BY <1>24, <1>26, Left
<1> HIDE DEF left
<1>28. left["DLL"] = Low(d) /\ left["DLH"] = High(d)
  BY <1>24, <1>27 DEF UartRegisters
<1>29. \A r \in UartRegisters \ {"DLL", "DLH"} : left[r] = u[r]
  BY <1>24, <1>25, <1>27
<1> QED BY <1>1, <1>27, <1>28, <1>29

\* Characters

LEMMA CharsPut ==
  ASSUME NEW u \in UartRegs, NEW char \in SUBSET Int
  PROVE  Only(u, PutChar(u, char), "THR", char)
<1> DEFINE b == UARTRegConfigModeEnable(u, "operational")
           w == Write(b, "THR", char)
<1>1. Only(u, b, "LCR", LcrOf(u, "operational")) /\ Mode(b) = "operational"
  BY ModeChosen
<1>2. Only(b, w, "THR", char)
  <2> HIDE DEF b
  <2>1. /\ Reached(b, "THR") = "THR" /\ Protected(b, "THR") = {} /\ "THR" \in UartRegisters
        /\ b \in UartRegs
    BY <1>1 DEF Reached, Protected, UartRegisters, Only
  <2>2. Protected(b, "THR") \cap char = {}
    BY <2>1
  <2> QED BY <2>1, <2>2, FreeAccess
<1> HIDE DEF w
<1>3. Only(u, UARTRegConfModeRestore(w, u["LCR"]), "THR", char)
  BY <1>2, ThroughMode DEF UartRegisters
<1>4. PutChar(u, char) = UARTRegConfModeRestore(w, u["LCR"])
  BY DEF PutChar, InMode, w
<1> QED BY <1>3, <1>4

\* The FIFOs

LEMMA FcrWritten ==
  ASSUME NEW u \in UartRegs, u["DLL"] \subseteq 0 .. 7, u["DLH"] \subseteq 0 .. 5,
         NEW fcr \in SUBSET Int
  PROVE  LET p == IF EnhancedEn \cap u["EFR"] = {} THEN {4, 5} ELSE {} IN
         Only(u, UARTFIFORegisterWrite(u, fcr), "FCR", (fcr \ p) \cup (u["FCR"] \cap p))
<1> DEFINE b == UARTRegConfigModeEnable(u, "A")
           stopped == UARTDivisorLatchWrite(b, {})
           w == Write(stopped, "FCR", fcr)
           d == UARTDivisorLatchWrite(w, DivisorLatch(u))
           p == IF EnhancedEn \cap u["EFR"] = {} THEN {4, 5} ELSE {}
           c == (fcr \ p) \cup (u["FCR"] \cap p)
<1>1. Only(u, b, "LCR", LcrOf(u, "A")) /\ Mode(b) = "A"
  BY ModeChosen
<1>2. /\ b \in UartRegs /\ b["EFR"] = u["EFR"] /\ b["FCR"] = u["FCR"]
      /\ b["DLL"] = u["DLL"] /\ b["DLH"] = u["DLH"]
  BY <1>1 DEF Only, UartRegisters
<1> HIDE DEF b
<1>3. /\ stopped \in UartRegs /\ stopped["DLL"] = {} /\ stopped["DLH"] = {}
      /\ \A r \in UartRegisters \ {"DLL", "DLH"} : stopped[r] = b[r]
  <2>1. Low({}) = {} /\ High({}) = {}
    BY DEF Low, High, Shift
  <2> QED BY <1>2, <2>1, DivisorWritten
<1> HIDE DEF stopped
<1>4. /\ stopped["LCR"] = b["LCR"] /\ stopped["EFR"] = u["EFR"] /\ stopped["FCR"] = u["FCR"]
  BY <1>2, <1>3 DEF UartRegisters
<1>5. Mode(stopped) = "A"
  BY <1>1, <1>4 DEF Mode
<1>6. Reached(stopped, "FCR") = "FCR" /\ "FCR" \in UartRegisters
  BY <1>5 DEF Reached, UartRegisters
<1>7. Protected(stopped, "FCR") = p
  <2>1. stopped["DLL"] \cup stopped["DLH"] = {}
    BY <1>3
  <2>2. EnhancedEn \cap stopped["EFR"] = EnhancedEn \cap u["EFR"]
    BY <1>4
  <2> QED BY <2>1, <2>2 DEF Protected
<1> HIDE DEF p
<1>8. Only(stopped, w, "FCR", c)
  <2>1. Only(stopped, Write(stopped, "FCR", fcr), "FCR",
             (fcr \ Protected(stopped, "FCR")) \cup (stopped["FCR"] \cap Protected(stopped, "FCR")))
    BY <1>3, <1>6, AccessReaches
  <2> QED BY <1>4, <1>7, <2>1
<1>9. w \in UartRegs
  BY <1>8 DEF Only
<1> HIDE DEF w, c
<1>10. /\ d \in UartRegs /\ d["DLL"] = u["DLL"] /\ d["DLH"] = u["DLH"]
       /\ \A r \in UartRegisters \ {"DLL", "DLH"} : d[r] = w[r]
  BY <1>9, DivisorKept, DivisorWritten
<1> HIDE DEF d
<1>11. Only(b, d, "FCR", c)
  <2>1. d["FCR"] = c
    BY <1>8, <1>10 DEF Only, UartRegisters
  <2>2. \A r \in UartRegisters \ {"DLL", "DLH", "FCR"} : d[r] = b[r]
    BY <1>3, <1>8, <1>10 DEF Only
  <2> QED BY <1>2, <1>10, <2>1, <2>2 DEF Only
<1>12. Only(u, UARTRegConfModeRestore(d, u["LCR"]), "FCR", c)
  BY <1>11, ThroughMode DEF UartRegisters, b
<1>13. UARTFIFORegisterWrite(u, fcr) = UARTRegConfModeRestore(d, u["LCR"])
  <2>1. DivisorLatch(b) = DivisorLatch(u)
    BY <1>2 DEF DivisorLatch
  <2> QED BY <2>1 DEF UARTFIFORegisterWrite, InMode, b, stopped, w, d
<1> QED BY <1>12, <1>13 DEF c, p

\* An access to TLR reaches SPR or XOFF2 where it is not in its submode.
AtTlr == {"TLR", "SPR", "XOFF2"}

LEMMA TlrAccess ==
  ASSUME NEW u \in UartRegs, NEW bits \in SUBSET Int
  PROVE  \E q \in AtTlr :
           /\ Only(u, SetBits(u, "TLR", bits), q, u[q] \cup bits)
           /\ Only(u, ClearBits(u, "TLR", bits), q, u[q] \ bits)
           /\ SubMode(u) = "TCR_TLR" => q = "TLR"
<1> DEFINE q == Reached(u, "TLR")
<1>1. q \in AtTlr /\ (SubMode(u) = "TCR_TLR" => q = "TLR")
  BY DEF Reached, AtTlr
<1>2. q \in UartRegisters
  BY <1>1 DEF AtTlr, UartRegisters
<1>3. Protected(u, q) = {}
  BY <1>1 DEF AtTlr, Protected
<1>4. /\ Only(u, SetBits(u, "TLR", bits), q, u[q] \cup (bits \ Protected(u, q)))
      /\ Only(u, ClearBits(u, "TLR", bits), q, u[q] \ (bits \ Protected(u, q)))
  BY <1>2, AccessReaches
<1>5. bits \ Protected(u, q) = bits
  BY <1>3
<1> HIDE DEF q
<1>6. /\ Only(u, SetBits(u, "TLR", bits), q, u[q] \cup bits)
      /\ Only(u, ClearBits(u, "TLR", bits), q, u[q] \ bits)
  BY <1>4, <1>5
<1> QED BY <1>1, <1>6

\* What a trigger level leaves of SCR and TLR, and what it never touches
FifoSide == AtTlr \cup {"SCR"}

NewTlr(tlr, fine, code, field, inTlr, level) ==
    (tlr \ field) \cup (IF fine THEN Shift(level \cap 2 .. 5, inTlr - 2)
                        ELSE IF code THEN {} ELSE Shift(level, inTlr) \cap field)

LEMMA ScrApart ==
  ASSUME NEW u \in UartRegs, NEW a, NEW c, Only(u, a, "SCR", c)
  PROVE  /\ a \in UartRegs /\ a["TLR"] = u["TLR"] /\ SubMode(a) = SubMode(u)
         /\ \A r \in UartRegisters \ {"SCR"} : a[r] = u[r]
<1>1. /\ a \in UartRegs /\ a["TLR"] = u["TLR"]
      /\ a["EFR"] = u["EFR"] /\ a["MCR"] = u["MCR"]
      /\ \A r \in UartRegisters \ {"SCR"} : a[r] = u[r]
  BY DEF Only, UartRegisters
<1> QED BY <1>1 DEF SubMode

LEMMA TlrApart ==
  ASSUME NEW a \in UartRegs, NEW w, NEW q \in AtTlr, NEW c, Only(a, w, q, c)
  PROVE  /\ w \in UartRegs /\ SubMode(w) = SubMode(a)
         /\ \A r \in UartRegisters \ AtTlr : w[r] = a[r]
<1>1. /\ w \in UartRegs /\ w["EFR"] = a["EFR"] /\ w["MCR"] = a["MCR"]
      /\ \A r \in UartRegisters \ AtTlr : w[r] = a[r]
  BY DEF Only, UartRegisters, AtTlr
<1> QED BY <1>1 DEF SubMode

Beside(u, v) == v \in UartRegs /\ \A r \in UartRegisters \ FifoSide : v[r] = u[r]

ScrAndTlr(u, v, scr, tlr) ==
    v["SCR"] = scr /\ v["TLR"] = tlr /\ \A r \in UartRegisters \ {"SCR", "TLR"} : v[r] = u[r]

NewGranu(scr, fine, granu) == IF fine THEN scr \cup granu ELSE scr \ granu

Direction(u, fine, granu, field, inTlr, level, code) ==
    IF fine THEN Fine(u, granu, inTlr, level) ELSE Coarse(u, granu, field, inTlr, level, code)

LEMMA OneDirection ==
  ASSUME NEW u \in UartRegs, NEW fine, NEW code,
         NEW granu \in SUBSET Int, NEW inTlr \in Int, NEW field \in SUBSET Int,
         NEW level \in SUBSET Int
  PROVE  /\ Beside(u, Direction(u, fine, granu, field, inTlr, level, code))
         /\ SubMode(u) = "TCR_TLR" /\ (fine => field \cap u["TLR"] = {}) =>
              ScrAndTlr(u, Direction(u, fine, granu, field, inTlr, level, code),
                        NewGranu(u["SCR"], fine, granu),
                        NewTlr(u["TLR"], fine, code, field, inTlr, level))
<1> DEFINE v == Direction(u, fine, granu, field, inTlr, level, code)
<1>1. ASSUME NEW a, NEW c, Only(u, a, "SCR", c)
      PROVE  /\ a \in UartRegs /\ a["TLR"] = u["TLR"] /\ SubMode(a) = SubMode(u)
             /\ \A r \in UartRegisters \ {"SCR"} : a[r] = u[r]
  BY <1>1, ScrApart
<1>2. ASSUME NEW a \in UartRegs, NEW w, NEW q \in AtTlr, NEW c, Only(a, w, q, c)
      PROVE  /\ w \in UartRegs /\ SubMode(w) = SubMode(a)
             /\ \A r \in UartRegisters \ AtTlr : w[r] = a[r]
  BY <1>2, TlrApart
<1>3. CASE fine
  <2> DEFINE a == SetBits(u, "SCR", granu)
             bits == Shift(level \cap 2 .. 5, inTlr - 2)
             w == SetBits(a, "TLR", bits)
  <2>1. Only(u, a, "SCR", u["SCR"] \cup granu)
    BY OwnOffsetAccess DEF OwnOffset
  <2>2. bits \in SUBSET Int
    BY DEF Shift
  <2>3. v = w
    BY <1>3 DEF Fine, Direction
  <2> HIDE DEF a, bits
  <2>4. PICK q \in AtTlr : /\ Only(a, w, q, a[q] \cup bits)
                           /\ SubMode(a) = "TCR_TLR" => q = "TLR"
    BY <1>1, <2>1, <2>2, TlrAccess
  <2> HIDE DEF w
  <2>5. /\ w \in UartRegs /\ w["SCR"] = u["SCR"] \cup granu
        /\ \A r \in UartRegisters \ FifoSide : w[r] = u[r]
    BY <1>1, <1>2, <2>1, <2>4 DEF Only, UartRegisters, AtTlr, FifoSide
  <2>6. SubMode(u) = "TCR_TLR" /\ field \cap u["TLR"] = {} =>
          /\ w["TLR"] = NewTlr(u["TLR"], fine, code, field, inTlr, level)
          /\ \A r \in UartRegisters \ {"SCR", "TLR"} : w[r] = u[r]
    <3> SUFFICES ASSUME SubMode(u) = "TCR_TLR", field \cap u["TLR"] = {}
                 PROVE  /\ w["TLR"] = NewTlr(u["TLR"], fine, code, field, inTlr, level)
                        /\ \A r \in UartRegisters \ {"SCR", "TLR"} : w[r] = u[r]
      OBVIOUS
    <3>1. q = "TLR"
      BY <1>1, <2>1, <2>4
    <3>2. w["TLR"] = u["TLR"] \cup bits
      BY <1>1, <2>1, <2>4, <3>1 DEF Only
    <3>3. u["TLR"] \ field = u["TLR"]
      OBVIOUS
    <3>4. \A r \in UartRegisters \ {"SCR", "TLR"} : w[r] = u[r]
      BY <2>1, <2>4, <3>1 DEF Only
    <3> QED BY <1>3, <3>2, <3>3, <3>4 DEF NewTlr, bits
  <2> QED BY <1>3, <2>3, <2>5, <2>6 DEF Beside, ScrAndTlr, NewGranu
<1>4. CASE ~fine
  <2> DEFINE a == ClearBits(u, "SCR", granu)
             b == ClearBits(a, "TLR", field)
             bits == Shift(level, inTlr) \cap field
             w == IF code THEN b ELSE SetBits(b, "TLR", bits)
  <2>1. Only(u, a, "SCR", u["SCR"] \ granu)
    BY OwnOffsetAccess DEF OwnOffset
  <2>2. bits \in SUBSET Int /\ field \in SUBSET Int
    BY DEF Shift
  <2>3. v = w
    BY <1>4 DEF Coarse, Direction
  <2> HIDE DEF a, bits
  <2>4. PICK q \in AtTlr : /\ Only(a, b, q, a[q] \ field)
                           /\ SubMode(a) = "TCR_TLR" => q = "TLR"
    BY <1>1, <2>1, <2>2, TlrAccess
  <2> HIDE DEF b
  <2>5. /\ b \in UartRegs /\ SubMode(b) = SubMode(u) /\ b["SCR"] = u["SCR"] \ granu
        /\ \A r \in UartRegisters \ FifoSide : b[r] = u[r]
    BY <1>1, <1>2, <2>1, <2>4 DEF Only, UartRegisters, AtTlr, FifoSide
  <2>6. PICK s \in AtTlr : /\ Only(b, SetBits(b, "TLR", bits), s, b[s] \cup bits)
                           /\ SubMode(b) = "TCR_TLR" => s = "TLR"
    BY <2>2, <2>5, TlrAccess
  <2>7. /\ w \in UartRegs /\ w["SCR"] = b["SCR"]
        /\ \A r \in UartRegisters \ FifoSide : w[r] = b[r]
    <3>1. CASE code
      BY <2>5, <3>1
    <3>2. CASE ~code
      BY <1>2, <2>5, <2>6, <3>2 DEF UartRegisters, AtTlr, FifoSide
    <3> QED BY <3>1, <3>2
  <2>8. SubMode(u) = "TCR_TLR" =>
          /\ w["TLR"] = NewTlr(u["TLR"], fine, code, field, inTlr, level)
          /\ \A r \in UartRegisters \ {"SCR", "TLR"} : w[r] = u[r]
    <3> SUFFICES ASSUME SubMode(u) = "TCR_TLR"
                 PROVE  /\ w["TLR"] = NewTlr(u["TLR"], fine, code, field, inTlr, level)
                        /\ \A r \in UartRegisters \ {"SCR", "TLR"} : w[r] = u[r]
      OBVIOUS
    <3>1. q = "TLR" /\ s = "TLR"
      BY <1>1, <2>1, <2>4, <2>5, <2>6
    <3>2. /\ b["TLR"] = u["TLR"] \ field
          /\ \A r \in UartRegisters \ {"SCR", "TLR"} : b[r] = u[r]
      BY <1>1, <2>1, <2>4, <3>1 DEF Only
    <3>3. CASE code
      BY <1>4, <3>2, <3>3 DEF NewTlr
    <3>4. CASE ~code
      <4>1. /\ w["TLR"] = b["TLR"] \cup bits
            /\ \A r \in UartRegisters \ {"TLR"} : w[r] = b[r]
        BY <2>6, <3>1, <3>4 DEF Only
      <4> QED BY <1>4, <3>2, <3>4, <4>1 DEF NewTlr, bits
    <3> QED BY <3>3, <3>4
  <2> HIDE DEF w
  <2> QED BY <1>4, <2>3, <2>5, <2>7, <2>8 DEF Beside, ScrAndTlr, NewGranu
<1> QED BY <1>3, <1>4

FifoRequests ==
    [rxFine : BOOLEAN, txFine : BOOLEAN, rxTrig : SUBSET Int, txTrig : SUBSET Int,
     viaScr : BOOLEAN, dmaMode : SUBSET Int, clear : BOOLEAN]

NewScr(scr, c) ==
    (scr \ {0, 1, 2, 6, 7})
      \cup (IF c.rxFine THEN {7} ELSE {}) \cup (IF c.txFine THEN {6} ELSE {})
      \cup (IF c.viaScr THEN {0} \cup Shift(c.dmaMode \cap {0, 1}, 1) ELSE scr \cap {1, 2})

NewTlrs(tlr, c) ==
    NewTlr(NewTlr(tlr, c.rxFine, RxCode(c), RxTrigger, 4, c.rxTrig),
           c.txFine, TxCode(c), TxTrigger, 0, c.txTrig)

LEMMA FcrIsBits == ASSUME NEW c \in FifoRequests PROVE FifoFcr(c) \in SUBSET Int
<1>1. /\ c.rxTrig \in SUBSET Int /\ c.txTrig \in SUBSET Int /\ c.dmaMode \in SUBSET Int
      /\ FifoEn \in SUBSET Int
  BY DEF FifoRequests, FifoEn
<1>2. /\ FcrPart(c.rxFine, c.rxTrig, RxCode(c), 6) \in SUBSET Int
      /\ FcrPart(c.txFine, c.txTrig, TxCode(c), 4) \in SUBSET Int
      /\ Shift(c.dmaMode \cap {0}, 3) \in SUBSET Int
  BY <1>1 DEF FcrPart, Shift
<1> DEFINE d == IF c.viaScr THEN {} ELSE Shift(c.dmaMode \cap {0}, 3)
           e == IF c.clear THEN {1, 2} ELSE {}
<1>3. d \in SUBSET Int /\ e \in SUBSET Int
  BY <1>2
<1>4. FifoFcr(c) = FifoEn \cup FcrPart(c.rxFine, c.rxTrig, RxCode(c), 6)
                     \cup FcrPart(c.txFine, c.txTrig, TxCode(c), 4) \cup d \cup e
  BY DEF FifoFcr
<1> HIDE DEF d, e
<1> QED BY <1>1, <1>2, <1>3, <1>4

LEMMA FifoConfigured ==
  ASSUME NEW u \in UartRegs, u["DLL"] \subseteq 0 .. 7, u["DLH"] \subseteq 0 .. 5,
         NEW c \in FifoRequests
  PROVE  LET v == UARTFIFOConfig(u, c) IN
         /\ v \in UartRegs /\ v["DLL"] = u["DLL"] /\ v["DLH"] = u["DLH"]
         /\ /\ EnhancedEn \subseteq u["EFR"]
            /\ c.rxFine => RxTrigger \cap u["TLR"] = {}
            /\ c.txFine => TxTrigger \cap u["TLR"] = {}
            => /\ v["SCR"] = NewScr(u["SCR"], c)
               /\ v["TLR"] = NewTlrs(u["TLR"], c)
               /\ v["FCR"] = FifoFcr(c)
               /\ \A r \in UartRegisters \ {"SCR", "TLR", "FCR"} : v[r] = u[r]
<1> DEFINE sub == UARTSubConfigTCRTLRModeEn(u)
           rx  == Direction(sub, c.rxFine, RxGranu1, RxTrigger, 4, c.rxTrig, RxCode(c))
           tx  == Direction(rx, c.txFine, TxGranu1, TxTrigger, 0, c.txTrig, TxCode(c))
           on  == SetBits(tx, "SCR", DmaCtl)
           off == ClearBits(on, "SCR", DmaMode2)
           dma == IF c.viaScr
                  THEN SetBits(off, "SCR", Shift(c.dmaMode \cap {0, 1}, 1))
                  ELSE ClearBits(tx, "SCR", DmaCtl)
           w   == UARTFIFORegisterWrite(dma, FifoFcr(c))
           mcr == Read(UARTRegConfigModeEnable(u, "A"), "MCR")
           v   == UARTTCRTLRBitValRestore(w, mcr)
           asks == /\ EnhancedEn \subseteq u["EFR"]
                   /\ c.rxFine => RxTrigger \cap u["TLR"] = {}
                   /\ c.txFine => TxTrigger \cap u["TLR"] = {}
<1>1. v = UARTFIFOConfig(u, c)
  BY DEF UARTFIFOConfig, Direction
<1>2. /\ c.rxTrig \in SUBSET Int /\ c.txTrig \in SUBSET Int /\ c.dmaMode \in SUBSET Int
      /\ c.rxFine \in BOOLEAN /\ c.txFine \in BOOLEAN /\ c.viaScr \in BOOLEAN
      /\ RxCode(c) \in BOOLEAN /\ TxCode(c) \in BOOLEAN
  BY DEF FifoRequests, RxCode, TxCode
<1>3. /\ RxTrigger \in SUBSET Int /\ TxTrigger \in SUBSET Int
      /\ RxGranu1 \in SUBSET Int /\ TxGranu1 \in SUBSET Int
  BY DEF RxTrigger, TxTrigger, RxGranu1, TxGranu1
<1>4. mcr = u["MCR"]
  <2> DEFINE b == UARTRegConfigModeEnable(u, "A")
  <2>1. Only(u, b, "LCR", LcrOf(u, "A")) /\ Mode(b) = "A"
    BY ModeChosen
  <2> HIDE DEF b
  <2>2. b["MCR"] = u["MCR"] /\ Reached(b, "MCR") = "MCR"
    BY <2>1 DEF Only, UartRegisters, Reached
  <2> QED BY <2>2 DEF Read, b
<1>5. Only(u, sub, "MCR", u["MCR"] \cup TcrTlr)
  BY SubModes
<1> HIDE DEF sub, mcr
<1>6. /\ sub \in UartRegs /\ sub["EFR"] = u["EFR"] /\ sub["TLR"] = u["TLR"]
      /\ sub["SCR"] = u["SCR"]
      /\ \A r \in UartRegisters \ {"MCR"} : sub[r] = u[r]
      /\ EnhancedEn \subseteq u["EFR"] => SubMode(sub) = "TCR_TLR"
  BY <1>5 DEF Only, UartRegisters, SubMode, TcrTlr
<1>7. /\ rx \in UartRegs
      /\ \A r \in UartRegisters \ FifoSide : rx[r] = sub[r]
      /\ asks =>
           /\ rx["SCR"] = IF c.rxFine THEN u["SCR"] \cup RxGranu1 ELSE u["SCR"] \ RxGranu1
           /\ rx["TLR"] = NewTlr(u["TLR"], c.rxFine, RxCode(c), RxTrigger, 4, c.rxTrig)
           /\ \A r \in UartRegisters \ {"SCR", "TLR"} : rx[r] = sub[r]
  <2> DEFINE fine == c.rxFine
             code == RxCode(c)
             level == c.rxTrig
             k == 4
             d == Direction(sub, fine, RxGranu1, RxTrigger, k, level, code)
  <2>1. level \in SUBSET Int /\ k \in Int /\ rx = d
    BY <1>2
  <2>2. /\ Beside(sub, d)
        /\ SubMode(sub) = "TCR_TLR" /\ (fine => RxTrigger \cap sub["TLR"] = {}) =>
             ScrAndTlr(sub, d, NewGranu(sub["SCR"], fine, RxGranu1),
                       NewTlr(sub["TLR"], fine, code, RxTrigger, k, level))
    <3> HIDE DEF fine, code, level, k, rx
    <3> QED BY <1>3, <1>6, <2>1, OneDirection
  <2>3. /\ Beside(sub, rx)
        /\ SubMode(sub) = "TCR_TLR" /\ (c.rxFine => RxTrigger \cap sub["TLR"] = {}) =>
             ScrAndTlr(sub, rx, NewGranu(sub["SCR"], c.rxFine, RxGranu1),
                       NewTlr(sub["TLR"], c.rxFine, RxCode(c), RxTrigger, 4, c.rxTrig))
    BY <2>1, <2>2
  <2> HIDE DEF rx
  <2> QED BY <1>6, <2>3 DEF Beside, ScrAndTlr, NewGranu
<1> HIDE DEF rx
<1>8. asks => SubMode(rx) = "TCR_TLR" /\ (c.txFine => TxTrigger \cap rx["TLR"] = {})
  <2> SUFFICES ASSUME asks
               PROVE  SubMode(rx) = "TCR_TLR" /\ (c.txFine => TxTrigger \cap rx["TLR"] = {})
    OBVIOUS
  <2>1. rx["EFR"] = sub["EFR"] /\ rx["MCR"] = sub["MCR"] /\ SubMode(sub) = "TCR_TLR"
    BY <1>6, <1>7 DEF UartRegisters
  <2>2. SubMode(rx) = "TCR_TLR"
    BY <2>1 DEF SubMode
  <2>3. TxTrigger \cap u["TLR"] = {} => TxTrigger \cap rx["TLR"] = {}
    <3>1. \A b \in Shift(c.rxTrig \cap 2 .. 5, 4 - 2) : b \in 4 .. 7
      BY DEF Shift
    <3>2. rx["TLR"] \subseteq u["TLR"] \cup 4 .. 7
      BY <1>7, <3>1 DEF NewTlr, RxTrigger
    <3> QED BY <3>2 DEF TxTrigger
  <2> QED BY <2>2, <2>3
<1>9. /\ tx \in UartRegs
      /\ \A r \in UartRegisters \ FifoSide : tx[r] = sub[r]
      /\ asks =>
           /\ tx["SCR"] = IF c.txFine THEN rx["SCR"] \cup TxGranu1 ELSE rx["SCR"] \ TxGranu1
           /\ tx["TLR"] = NewTlrs(u["TLR"], c)
           /\ \A r \in UartRegisters \ {"SCR", "TLR"} : tx[r] = sub[r]
  <2> DEFINE fine == c.txFine
             code == TxCode(c)
             level == c.txTrig
             k == 0
             d == Direction(rx, fine, TxGranu1, TxTrigger, k, level, code)
  <2>1. level \in SUBSET Int /\ k \in Int /\ tx = d
    BY <1>2
  <2>2. /\ Beside(rx, d)
        /\ SubMode(rx) = "TCR_TLR" /\ (fine => TxTrigger \cap rx["TLR"] = {}) =>
             ScrAndTlr(rx, d, NewGranu(rx["SCR"], fine, TxGranu1),
                       NewTlr(rx["TLR"], fine, code, TxTrigger, k, level))
    <3> HIDE DEF fine, code, level, k, tx
    <3> QED BY <1>3, <1>7, <2>1, OneDirection
  <2>3. /\ Beside(rx, tx)
        /\ SubMode(rx) = "TCR_TLR" /\ (c.txFine => TxTrigger \cap rx["TLR"] = {}) =>
             ScrAndTlr(rx, tx, NewGranu(rx["SCR"], c.txFine, TxGranu1),
                       NewTlr(rx["TLR"], c.txFine, TxCode(c), TxTrigger, 0, c.txTrig))
    BY <2>1, <2>2
  <2> HIDE DEF tx
  <2> QED BY <1>7, <1>8, <2>3 DEF NewTlrs, Beside, ScrAndTlr, NewGranu
<1> HIDE DEF tx
<1>10. Only(tx, dma, "SCR", IF c.viaScr
                            THEN ((tx["SCR"] \cup {0}) \ {1, 2}) \cup Shift(c.dmaMode \cap {0, 1}, 1)
                            ELSE tx["SCR"] \ {0})
  <2>1. /\ "SCR" \in OwnOffset /\ DmaCtl = {0} /\ DmaMode2 = {1, 2}
        /\ DmaCtl \in SUBSET Int /\ DmaMode2 \in SUBSET Int
    BY DEF OwnOffset, DmaCtl, DmaMode2
  <2> DEFINE bits == Shift(c.dmaMode \cap {0, 1}, 1)
             set == SetBits(off, "SCR", bits)
  <2>2. bits \in SUBSET Int
    BY DEF Shift
  <2>3. Only(tx, on, "SCR", tx["SCR"] \cup DmaCtl)
    BY <1>9, <2>1, OwnOffsetAccess
  <2>4. on \in UartRegs
    BY <2>3 DEF Only
  <2> HIDE DEF on, bits
  <2>5. Only(on, off, "SCR", on["SCR"] \ DmaMode2)
    BY <2>1, <2>4, OwnOffsetAccess
  <2>6. off \in UartRegs
    BY <2>5 DEF Only
  <2> HIDE DEF off
  <2>7. Only(off, set, "SCR", off["SCR"] \cup bits)
    BY <2>1, <2>2, <2>6, OwnOffsetAccess
  <2> HIDE DEF set
  <2>8. Only(tx, set, "SCR", ((tx["SCR"] \cup DmaCtl) \ DmaMode2) \cup bits)
    BY <2>3, <2>5, <2>7 DEF Only
  <2>9. Only(tx, ClearBits(tx, "SCR", DmaCtl), "SCR", tx["SCR"] \ DmaCtl)
    BY <1>9, <2>1, OwnOffsetAccess
  <2>10. CASE c.viaScr
    BY <2>1, <2>8, <2>10 DEF set, bits
  <2>11. CASE ~c.viaScr
    BY <2>1, <2>9, <2>11
  <2> QED BY <2>10, <2>11
<1> HIDE DEF on, off, dma
<1>11. /\ dma \in UartRegs
       /\ \A r \in UartRegisters \ FifoSide : dma[r] = sub[r]
       /\ asks => \A r \in UartRegisters \ {"SCR", "TLR"} : dma[r] = sub[r]
       /\ asks => dma["TLR"] = NewTlrs(u["TLR"], c)
  BY <1>9, <1>10 DEF Only, FifoSide, UartRegisters
<1>12. /\ dma["DLL"] = u["DLL"] /\ dma["DLH"] = u["DLH"] /\ dma["EFR"] = u["EFR"]
       /\ dma["MCR"] = u["MCR"] \cup TcrTlr
  BY <1>5, <1>11 DEF FifoSide, AtTlr, UartRegisters, Only
<1> DEFINE p == IF EnhancedEn \cap dma["EFR"] = {} THEN {4, 5} ELSE {}
           fcr == (FifoFcr(c) \ p) \cup (dma["FCR"] \cap p)
<1>13. Only(dma, w, "FCR", fcr)
  <2> DEFINE bits == FifoFcr(c)
  <2>1. bits \in SUBSET Int
    BY FcrIsBits
  <2> HIDE DEF bits
  <2> QED BY <1>11, <1>12, <2>1, FcrWritten DEF bits
<1>14. EnhancedEn \subseteq u["EFR"] => fcr = FifoFcr(c)
  BY <1>12 DEF EnhancedEn
<1> HIDE DEF w, fcr
<1>15. Only(w, v, "MCR", (w["MCR"] \ TcrTlr) \cup (mcr \cap TcrTlr))
  <2>1. w \in UartRegs
    BY <1>13 DEF Only
  <2> QED BY <2>1, SubModes
<1> HIDE DEF v
<1>16. v["MCR"] = u["MCR"]
  <2>1. w["MCR"] = u["MCR"] \cup TcrTlr
    BY <1>12, <1>13 DEF Only, UartRegisters
  <2> QED BY <1>4, <1>15, <2>1 DEF Only
<1>17. v \in UartRegs /\ v["DLL"] = u["DLL"] /\ v["DLH"] = u["DLH"]
  BY <1>12, <1>13, <1>15 DEF Only, UartRegisters
<1>18. ASSUME asks
       PROVE  /\ v["SCR"] = NewScr(u["SCR"], c)
              /\ v["TLR"] = NewTlrs(u["TLR"], c)
              /\ v["FCR"] = FifoFcr(c)
              /\ \A r \in UartRegisters \ {"SCR", "TLR", "FCR"} : v[r] = u[r]
  <2>1. v["SCR"] = dma["SCR"] /\ v["TLR"] = dma["TLR"] /\ v["FCR"] = fcr
    BY <1>13, <1>15 DEF Only, UartRegisters
  <2>2. dma["SCR"] = NewScr(u["SCR"], c)
    <3>1. tx["SCR"] = (u["SCR"] \ {6, 7}) \cup (IF c.rxFine THEN {7} ELSE {})
                          \cup (IF c.txFine THEN {6} ELSE {})
      BY <1>2, <1>7, <1>9, <1>18 DEF RxGranu1, TxGranu1
    <3>2. CASE c.viaScr
      <4>1. dma["SCR"] = ((tx["SCR"] \cup {0}) \ {1, 2}) \cup Shift(c.dmaMode \cap {0, 1}, 1)
        BY <1>10, <3>2 DEF Only
      <4> QED BY <3>1, <3>2, <4>1 DEF NewScr
    <3>3. CASE ~c.viaScr
      <4>1. dma["SCR"] = tx["SCR"] \ {0}
        BY <1>10, <3>3 DEF Only
      <4> QED BY <3>1, <3>3, <4>1 DEF NewScr
    <3> QED BY <3>2, <3>3
  <2>3. \A r \in UartRegisters \ {"SCR", "TLR", "FCR", "MCR"} : v[r] = u[r]
    BY <1>6, <1>11, <1>13, <1>15, <1>18 DEF Only
  <2> QED BY <1>11, <1>14, <1>16, <1>18, <2>1, <2>2, <2>3
<1> QED BY <1>1, <1>17, <1>18

\* The calls

ReadNames ==
    {"UARTSpaceAvail", "UARTCharsAvail", "UARTCharGetNonBlocking", "UARTCharGet",
     "UARTRxErrorGet", "UARTIntIdentityGet", "UARTIntPendingStatusGet",
     "UARTFIFOEnableStatusGet", "UARTModemStatusGet", "UARTModemStatusChangeCheck",
     "UARTResumeOperation", "UARTRXCTSDSRTransitionStatusGet", "UARTTxFIFOFullStatusGet",
     "UARTAutobaudParityGet", "UARTAutobaudWordLenGet", "UARTAutobaudSpeedGet",
     "UARTParityModeGet", "UARTScratchPadRegRead", "UARTModuleVersionNumberGet"}

FieldNames ==
    {"UARTIdleModeConfigure", "UARTWakeUpControl", "UARTAutoIdleModeControl",
     "UARTDSRInterruptControl", "UARTTxEmptyIntControl", "UARTRXCTSDSRWakeUpConfigure",
     "UARTTxDMAThresholdControl", "UARTTxDMAThresholdValConfig", "UARTPulseShapingControl",
     "UARTLoopbackModeControl", "UARTDMACounterResetControl", "UARTScratchPadRegWrite"}

LEMMA ReadCallsAre == ReadCalls = ReadNames
<1>1. /\ DOMAIN LsrReads = {"UARTSpaceAvail", "UARTCharsAvail"}
      /\ DOMAIN CharReads = {"UARTCharGetNonBlocking", "UARTCharGet"}
      /\ DOMAIN IirReads = {"UARTRxErrorGet", "UARTIntIdentityGet", "UARTIntPendingStatusGet",
                            "UARTFIFOEnableStatusGet"}
      /\ DOMAIN StatusReads = {"UARTModemStatusGet", "UARTModemStatusChangeCheck",
                               "UARTResumeOperation"}
      /\ DOMAIN SsrReads = {"UARTRXCTSDSRTransitionStatusGet", "UARTTxFIFOFullStatusGet"}
      /\ DOMAIN AutobaudReads = {"UARTAutobaudParityGet", "UARTAutobaudWordLenGet",
                                 "UARTAutobaudSpeedGet"}
      /\ DOMAIN OtherReads = {"UARTParityModeGet", "UARTScratchPadRegRead",
                              "UARTModuleVersionNumberGet"}
  BY DEF LsrReads, CharReads, IirReads, StatusReads, SsrReads, AutobaudReads, OtherReads
<1>2. ReadCalls = DOMAIN LsrReads \cup DOMAIN CharReads \cup DOMAIN IirReads
                    \cup DOMAIN StatusReads \cup DOMAIN SsrReads \cup DOMAIN AutobaudReads
                    \cup DOMAIN OtherReads
  BY DEF ReadCalls, ReadTables
<1> QED BY <1>1, <1>2 DEF ReadNames

LEMMA FieldCallsAre == FieldCalls = FieldNames
<1>1. /\ DOMAIN SyscFields = {"UARTIdleModeConfigure", "UARTWakeUpControl",
                              "UARTAutoIdleModeControl"}
      /\ DOMAIN ScrFields = {"UARTDSRInterruptControl", "UARTTxEmptyIntControl",
                             "UARTRXCTSDSRWakeUpConfigure"}
      /\ DOMAIN ThresholdFields = {"UARTTxDMAThresholdControl", "UARTTxDMAThresholdValConfig"}
      /\ DOMAIN OtherFields = {"UARTPulseShapingControl", "UARTLoopbackModeControl",
                               "UARTDMACounterResetControl", "UARTScratchPadRegWrite"}
  BY DEF SyscFields, ScrFields, ThresholdFields, OtherFields
<1>2. FieldCalls = DOMAIN SyscFields \cup DOMAIN ScrFields \cup DOMAIN ThresholdFields
                     \cup DOMAIN OtherFields
  BY DEF FieldCalls, FieldTables
<1> QED BY <1>1, <1>2 DEF FieldNames

\* The divisor never has bits that its two registers have no room for: without
\* that, saving it and writing it back would lose some.
Types(v) == v \in UartRegs /\ v["DLL"] \subseteq 0 .. 7 /\ v["DLH"] \subseteq 0 .. 5

\* What there is to show of a call that sets registers
Right(u, fn, x, v) == Types(v) /\ (Reachable(u, fn, x) => v = Promise(u, fn, x))

LEMMA OneCall ==
  ASSUME NEW fn, fn \notin ReadNames, fn # "bwio_uart_setup", NEW x, NEW v,
         Does(fn, x, v), Right(uart, fn, x, v)
  PROVE  Types(uart)' /\ CallAsAsked
BY ReadCallsAre DEF Does, Right, Types, CallAsAsked

LEMMA OnlyKeeps ==
  ASSUME NEW u, Types(u), NEW r \in UartRegisters \ {"DLL", "DLH"}, NEW c, NEW v, Only(u, v, r, c)
  PROVE  Types(v)
BY DEF Types, Only, UartRegisters

SetTo(u, r, c) == [u EXCEPT ![r] = c]

LEMMA OneRegister ==
  ASSUME NEW fn, fn \notin ReadNames, fn # "bwio_uart_setup", NEW x, NEW v, Does(fn, x, v),
         Types(uart), NEW r \in UartRegisters \ {"DLL", "DLH"}, NEW c,
         Only(uart, v, r, c), Promise(uart, fn, x) = SetTo(uart, r, c)
  PROVE  Types(uart)' /\ CallAsAsked
<1>1. Types(v)
  BY OnlyKeeps
<1>2. v = SetTo(uart, r, c)
  BY OnlyOne DEF SetTo, Types
<1> QED BY <1>1, <1>2, OneCall DEF Right

\* What is promised of the calls that set one register
LEMMA ModePromises ==
  ASSUME NEW u, NEW x
  PROVE  /\ Promise(u, "UARTEnhanFuncEnable", x)
              = SetTo(u, "EFR", u["EFR"] \cup EnhancedEn)
         /\ Promise(u, "UARTEnhanFuncBitValRestore", x)
              = SetTo(u, "EFR", (u["EFR"] \ EnhancedEn) \cup (x \cap EnhancedEn))
         /\ Promise(u, "UARTSubConfigMSRSPRModeEn", x)
              = SetTo(u, "MCR", u["MCR"] \ TcrTlr)
         /\ Promise(u, "UARTSubConfigXOFFModeEn", x)
              = SetTo(u, "MCR", u["MCR"] \ TcrTlr)
         /\ Promise(u, "UARTSubConfigTCRTLRModeEn", x)
              = SetTo(u, "MCR", u["MCR"] \cup TcrTlr)
         /\ Promise(u, "UARTTCRTLRBitValRestore", x)
              = SetTo(u, "MCR", (u["MCR"] \ TcrTlr) \cup (x \cap TcrTlr))
         /\ Promise(u, "UARTOperatingModeSelect", x)
              = SetTo(u, "MDR1", (u["MDR1"] \ ModeSelect) \cup (x \cap ModeSelect))
<1>1. Promise(u, "UARTEnhanFuncEnable", x) = SetTo(u, "EFR", u["EFR"] \cup EnhancedEn)
  BY FieldCallsAre DEF Promise, FieldNames, Field, SetTo
<1>2. Promise(u, "UARTEnhanFuncBitValRestore", x)
        = SetTo(u, "EFR", (u["EFR"] \ EnhancedEn) \cup (x \cap EnhancedEn))
  BY FieldCallsAre DEF Promise, FieldNames, Field, SetTo
<1>3. Promise(u, "UARTSubConfigMSRSPRModeEn", x) = SetTo(u, "MCR", u["MCR"] \ TcrTlr)
  BY FieldCallsAre DEF Promise, FieldNames, Field, SetTo
<1>4. Promise(u, "UARTSubConfigXOFFModeEn", x) = SetTo(u, "MCR", u["MCR"] \ TcrTlr)
  BY FieldCallsAre DEF Promise, FieldNames, Field, SetTo
<1>5. Promise(u, "UARTSubConfigTCRTLRModeEn", x) = SetTo(u, "MCR", u["MCR"] \cup TcrTlr)
  BY FieldCallsAre DEF Promise, FieldNames, Field, SetTo
<1>6. Promise(u, "UARTTCRTLRBitValRestore", x)
        = SetTo(u, "MCR", (u["MCR"] \ TcrTlr) \cup (x \cap TcrTlr))
  BY FieldCallsAre DEF Promise, FieldNames, Field, SetTo
<1>7. Promise(u, "UARTOperatingModeSelect", x)
        = SetTo(u, "MDR1", (u["MDR1"] \ ModeSelect) \cup (x \cap ModeSelect))
  BY FieldCallsAre DEF Promise, FieldNames, Field, SetTo
<1> QED BY <1>1, <1>2, <1>3, <1>4, <1>5, <1>6, <1>7

LEMMA FramePromises ==
  ASSUME NEW u, NEW x
  PROVE  /\ Promise(u, "UARTDivisorLatchEnable", x)
              = SetTo(u, "LCR", u["LCR"] \cup DivEn)
         /\ Promise(u, "UARTDivisorLatchDisable", x)
              = SetTo(u, "LCR", u["LCR"] \ DivEn)
         /\ Promise(u, "UARTBreakCtl", x)
              = SetTo(u, "LCR", (u["LCR"] \ BreakEn) \cup (x \cap BreakEn))
         /\ Promise(u, "UARTParityModeSet", x)
              = SetTo(u, "LCR", (u["LCR"] \ Parity) \cup (x \cap Parity))
         /\ Promise(u, "UARTLineCharacConfig", x)
              = SetTo(u, "LCR",
                  (u["LCR"] \ (StopLength \cup Parity)) \cup (x \cap (StopLength \cup Parity)))
<1>1. Promise(u, "UARTDivisorLatchEnable", x) = SetTo(u, "LCR", u["LCR"] \cup DivEn)
  BY FieldCallsAre DEF Promise, FieldNames, Field, SetTo
<1>2. Promise(u, "UARTDivisorLatchDisable", x) = SetTo(u, "LCR", u["LCR"] \ DivEn)
  BY FieldCallsAre DEF Promise, FieldNames, Field, SetTo
<1>3. Promise(u, "UARTBreakCtl", x) = SetTo(u, "LCR", (u["LCR"] \ BreakEn) \cup (x \cap BreakEn))
  BY FieldCallsAre DEF Promise, FieldNames, Field, SetTo
<1>4. Promise(u, "UARTParityModeSet", x)
        = SetTo(u, "LCR", (u["LCR"] \ Parity) \cup (x \cap Parity))
  BY FieldCallsAre DEF Promise, FieldNames, Field, SetTo
<1>5. Promise(u, "UARTLineCharacConfig", x)
        = SetTo(u, "LCR",
          (u["LCR"] \ (StopLength \cup Parity)) \cup (x \cap (StopLength \cup Parity)))
  BY FieldCallsAre DEF Promise, FieldNames, Field, SetTo
<1> QED BY <1>1, <1>2, <1>3, <1>4, <1>5

LEMMA FifoPromises ==
  ASSUME NEW u, NEW x
  PROVE  /\ Promise(u, "UARTFIFORegisterWrite", x)
              = SetTo(u, "FCR", x)
         /\ Promise(u, "UARTDMAEnable", x)
              = SetTo(u, "SCR",
                  (u["SCR"] \ (DmaCtl \cup DmaMode2)) \cup ((DmaCtl \cup Shift(x, 1)) \cap (DmaCtl \cup DmaMode2)))
         /\ Promise(u, "UARTDMADisable", x)
              = SetTo(u, "SCR",
                  (u["SCR"] \ (DmaCtl \cup DmaMode2)) \cup (DmaCtl \cap (DmaCtl \cup DmaMode2)))
         /\ Promise(u, "UARTFIFOTrigLvlGranControl", x)
              = SetTo(u, "SCR",
                  (u["SCR"] \ (RxGranu1 \cup TxGranu1)) \cup (x \cap (RxGranu1 \cup TxGranu1)))
<1>1. Promise(u, "UARTFIFORegisterWrite", x) = SetTo(u, "FCR", x)
  BY FieldCallsAre DEF Promise, FieldNames, Field, SetTo
<1>2. Promise(u, "UARTDMAEnable", x)
        = SetTo(u, "SCR",
          (u["SCR"] \ (DmaCtl \cup DmaMode2)) \cup ((DmaCtl \cup Shift(x, 1)) \cap (DmaCtl \cup DmaMode2)))
  BY FieldCallsAre DEF Promise, FieldNames, Field, SetTo
<1>3. Promise(u, "UARTDMADisable", x)
        = SetTo(u, "SCR",
          (u["SCR"] \ (DmaCtl \cup DmaMode2)) \cup (DmaCtl \cap (DmaCtl \cup DmaMode2)))
  BY FieldCallsAre DEF Promise, FieldNames, Field, SetTo
<1>4. Promise(u, "UARTFIFOTrigLvlGranControl", x)
        = SetTo(u, "SCR",
          (u["SCR"] \ (RxGranu1 \cup TxGranu1)) \cup (x \cap (RxGranu1 \cup TxGranu1)))
  BY FieldCallsAre DEF Promise, FieldNames, Field, SetTo
<1> QED BY <1>1, <1>2, <1>3, <1>4

LEMMA IerPromises ==
  ASSUME NEW u, NEW x
  PROVE  /\ Promise(u, "UARTIntEnable", x)
              = SetTo(u, "IER", u["IER"] \cup x)
         /\ Promise(u, "UARTIntDisable", x)
              = SetTo(u, "IER", u["IER"] \ x)
<1>1. Promise(u, "UARTIntEnable", x) = SetTo(u, "IER", u["IER"] \cup x)
  BY FieldCallsAre DEF Promise, FieldNames, Field, SetTo
<1>2. Promise(u, "UARTIntDisable", x) = SetTo(u, "IER", u["IER"] \ x)
  BY FieldCallsAre DEF Promise, FieldNames, Field, SetTo
<1> QED BY <1>1, <1>2

LEMMA CharPromises ==
  ASSUME NEW u, NEW x
  PROVE  /\ Promise(u, "UARTCharPut", x)
              = SetTo(u, "THR", x)
         /\ Promise(u, "UARTCharPutNonBlocking", x)
              = SetTo(u, "THR", x)
<1>1. Promise(u, "UARTCharPut", x) = SetTo(u, "THR", x)
  BY FieldCallsAre DEF Promise, FieldNames, Field, SetTo
<1>2. Promise(u, "UARTCharPutNonBlocking", x) = SetTo(u, "THR", x)
  BY FieldCallsAre DEF Promise, FieldNames, Field, SetTo
<1> QED BY <1>1, <1>2

LEMMA EfrPromises ==
  ASSUME NEW u, NEW x
  PROVE  /\ Promise(u, "UARTAutoRTSAutoCTSControl", x)
              = SetTo(u, "EFR", (u["EFR"] \ AutoRtsCts) \cup (x \cap AutoRtsCts))
         /\ Promise(u, "UARTSpecialCharDetectControl", x)
              = SetTo(u, "EFR", (u["EFR"] \ SpecialChar) \cup (x \cap SpecialChar))
         /\ Promise(u, "UARTSoftwareFlowCtrlOptSet", x)
              = SetTo(u, "EFR", (u["EFR"] \ SwFlow) \cup (x \cap SwFlow))
<1>1. Promise(u, "UARTAutoRTSAutoCTSControl", x)
        = SetTo(u, "EFR", (u["EFR"] \ AutoRtsCts) \cup (x \cap AutoRtsCts))
  BY FieldCallsAre DEF Promise, FieldNames, Field, SetTo
<1>2. Promise(u, "UARTSpecialCharDetectControl", x)
        = SetTo(u, "EFR", (u["EFR"] \ SpecialChar) \cup (x \cap SpecialChar))
  BY FieldCallsAre DEF Promise, FieldNames, Field, SetTo
<1>3. Promise(u, "UARTSoftwareFlowCtrlOptSet", x)
        = SetTo(u, "EFR", (u["EFR"] \ SwFlow) \cup (x \cap SwFlow))
  BY FieldCallsAre DEF Promise, FieldNames, Field, SetTo
<1> QED BY <1>1, <1>2, <1>3

LEMMA FlowPromises ==
  ASSUME NEW u, NEW x
  PROVE  /\ Promise(u, "UARTModemControlSet", x)
              = SetTo(u, "MCR", u["MCR"] \cup x)
         /\ Promise(u, "UARTModemControlClear", x)
              = SetTo(u, "MCR", u["MCR"] \ x)
         /\ Promise(u, "UARTWakeUpEventsEnable", x)
              = SetTo(u, "WER", u["WER"] \cup x)
         /\ Promise(u, "UARTWakeUpEventsDisable", x)
              = SetTo(u, "WER", u["WER"] \ x)
         /\ Promise(u, "UARTFlowCtrlTrigLvlConfig", x)
              = SetTo(u, "TCR", x)
<1>1. Promise(u, "UARTModemControlSet", x) = SetTo(u, "MCR", u["MCR"] \cup x)
  BY FieldCallsAre DEF Promise, FieldNames, Field, SetTo
<1>2. Promise(u, "UARTModemControlClear", x) = SetTo(u, "MCR", u["MCR"] \ x)
  BY FieldCallsAre DEF Promise, FieldNames, Field, SetTo
<1>3. Promise(u, "UARTWakeUpEventsEnable", x) = SetTo(u, "WER", u["WER"] \cup x)
  BY FieldCallsAre DEF Promise, FieldNames, Field, SetTo
<1>4. Promise(u, "UARTWakeUpEventsDisable", x) = SetTo(u, "WER", u["WER"] \ x)
  BY FieldCallsAre DEF Promise, FieldNames, Field, SetTo
<1>5. Promise(u, "UARTFlowCtrlTrigLvlConfig", x) = SetTo(u, "TCR", x)
  BY FieldCallsAre DEF Promise, FieldNames, Field, SetTo
<1> QED BY <1>1, <1>2, <1>3, <1>4, <1>5

\* Each kind of call

LEMMA ModeCallRight ==
  ASSUME Types(uart), ModeCall
  PROVE  Types(uart)' /\ CallAsAsked
<1> DEFINE Goal == Types(uart)' /\ CallAsAsked
<1>1. uart \in UartRegs
  BY DEF Types
<1>2. {"LCR", "EFR", "MCR", "MDR1"} \subseteq UartRegisters \ {"DLL", "DLH"}
  BY DEF UartRegisters
<1> HIDE DEF Goal
<1>3. ASSUME NEW fn, fn \notin ReadNames, fn # "bwio_uart_setup", NEW x, NEW v, Does(fn, x, v),
             NEW r \in {"LCR", "EFR", "MCR", "MDR1"}, NEW c, Only(uart, v, r, c),
             Promise(uart, fn, x) = SetTo(uart, r, c)
      PROVE  Goal
  BY <1>2, <1>3, OneRegister DEF Goal
<1>4. ASSUME NEW m \in {"A", "B", "operational"},
             Does("UARTRegConfigModeEnable", m, UARTRegConfigModeEnable(uart, m))
      PROVE  Goal
  <2>1. Only(uart, UARTRegConfigModeEnable(uart, m), "LCR", LcrOf(uart, m))
    BY <1>1, ModeChosen
  <2>2. Promise(uart, "UARTRegConfigModeEnable", m) = SetTo(uart, "LCR", LcrOf(uart, m))
    BY FieldCallsAre DEF Promise, FieldNames, SetTo, LcrOf
  <2> QED BY <1>3, <1>4, <2>1, <2>2 DEF ReadNames
<1>5. ASSUME Does("UARTEnhanFuncEnable", {}, UARTEnhanFuncEnable(uart))
      PROVE  Goal
  <2>1. Only(uart, UARTEnhanFuncEnable(uart), "EFR", uart["EFR"] \cup EnhancedEn)
    BY <1>1, EfrCalls
  <2>2. Promise(uart, "UARTEnhanFuncEnable", {}) = SetTo(uart, "EFR", uart["EFR"] \cup EnhancedEn)
    BY ModePromises
  <2> QED BY <1>3, <1>5, <2>1, <2>2 DEF ReadNames
<1>6. ASSUME Does("UARTSubConfigMSRSPRModeEn", {}, UARTSubConfigMSRSPRModeEn(uart))
      PROVE  Goal
  <2>1. Only(uart, UARTSubConfigMSRSPRModeEn(uart), "MCR", uart["MCR"] \ TcrTlr)
    BY <1>1, SubModes
  <2>2. Promise(uart, "UARTSubConfigMSRSPRModeEn", {}) = SetTo(uart, "MCR", uart["MCR"] \ TcrTlr)
    BY ModePromises
  <2> QED BY <1>3, <1>6, <2>1, <2>2 DEF ReadNames
<1>7. ASSUME Does("UARTSubConfigTCRTLRModeEn", {}, UARTSubConfigTCRTLRModeEn(uart))
      PROVE  Goal
  <2>1. Only(uart, UARTSubConfigTCRTLRModeEn(uart), "MCR", uart["MCR"] \cup TcrTlr)
    BY <1>1, SubModes
  <2>2. Promise(uart, "UARTSubConfigTCRTLRModeEn", {})
          = SetTo(uart, "MCR", uart["MCR"] \cup TcrTlr)
    BY ModePromises
  <2> QED BY <1>3, <1>7, <2>1, <2>2 DEF ReadNames
<1>8. ASSUME Does("UARTSubConfigXOFFModeEn", {}, UARTSubConfigXOFFModeEn(uart))
      PROVE  Goal
  <2>1. Only(uart, UARTSubConfigXOFFModeEn(uart), "MCR", uart["MCR"] \ TcrTlr)
    BY <1>1, SubModes
  <2>2. Promise(uart, "UARTSubConfigXOFFModeEn", {}) = SetTo(uart, "MCR", uart["MCR"] \ TcrTlr)
    BY ModePromises
  <2> QED BY <1>3, <1>8, <2>1, <2>2 DEF ReadNames
<1>9. ASSUME NEW bit,
             Does("UARTEnhanFuncBitValRestore", bit, UARTEnhanFuncBitValRestore(uart, bit))
      PROVE  Goal
  <2>1. Only(uart, UARTEnhanFuncBitValRestore(uart, bit), "EFR",
             (uart["EFR"] \ EnhancedEn) \cup (bit \cap EnhancedEn))
    BY <1>1, EfrCalls
  <2>2. Promise(uart, "UARTEnhanFuncBitValRestore", bit)
          = SetTo(uart, "EFR", (uart["EFR"] \ EnhancedEn) \cup (bit \cap EnhancedEn))
    BY ModePromises
  <2> QED BY <1>3, <1>9, <2>1, <2>2 DEF ReadNames
<1>10. ASSUME NEW bit,
             Does("UARTTCRTLRBitValRestore", bit, UARTTCRTLRBitValRestore(uart, bit))
      PROVE  Goal
  <2>1. Only(uart, UARTTCRTLRBitValRestore(uart, bit), "MCR",
             (uart["MCR"] \ TcrTlr) \cup (bit \cap TcrTlr))
    BY <1>1, SubModes
  <2>2. Promise(uart, "UARTTCRTLRBitValRestore", bit)
          = SetTo(uart, "MCR", (uart["MCR"] \ TcrTlr) \cup (bit \cap TcrTlr))
    BY ModePromises
  <2> QED BY <1>3, <1>10, <2>1, <2>2 DEF ReadNames
<1>11. ASSUME NEW mode,
             Does("UARTOperatingModeSelect", mode, UARTOperatingModeSelect(uart, mode))
      PROVE  Goal
  <2>1. Only(uart, UARTOperatingModeSelect(uart, mode), "MDR1", (uart["MDR1"] \ ModeSelect) \cup (mode \cap ModeSelect))
    BY <1>1, OperatingMode
  <2>2. Promise(uart, "UARTOperatingModeSelect", mode)
          = SetTo(uart, "MDR1", (uart["MDR1"] \ ModeSelect) \cup (mode \cap ModeSelect))
    BY ModePromises
  <2> QED BY <1>3, <1>11, <2>1, <2>2 DEF ReadNames
<1> QED BY <1>4, <1>5, <1>6, <1>7, <1>8, <1>9, <1>10, <1>11 DEF ModeCall, Goal

LEMMA OnlyTwice ==
  ASSUME NEW u, NEW r \in UartRegisters, NEW v, NEW a, Only(u, v, r, a),
         NEW w, NEW b, Only(v, w, r, b)
  PROVE  Only(u, w, r, b)
BY DEF Only

LEMMA LcrCalls ==
  ASSUME NEW u \in UartRegs, NEW x, NEW frame, frame \subseteq StopLength,
         NEW parity, parity \subseteq Parity
  PROVE  /\ Only(u, UARTDivisorLatchEnable(u), "LCR", u["LCR"] \cup DivEn)
         /\ Only(u, UARTDivisorLatchDisable(u), "LCR", u["LCR"] \ DivEn)
         /\ Only(u, UARTBreakCtl(u, x), "LCR", (u["LCR"] \ BreakEn) \cup (x \cap BreakEn))
         /\ Only(u, UARTParityModeSet(u, x), "LCR", (u["LCR"] \ Parity) \cup (x \cap Parity))
         /\ Only(u, UARTLineCharacConfig(u, frame, parity), "LCR",
                 (u["LCR"] \ (StopLength \cup Parity))
                   \cup ((frame \cup parity) \cap (StopLength \cup Parity)))
<1>1. /\ "LCR" \in OwnOffset /\ "LCR" \in UartRegisters /\ DivEn \in SUBSET Int
      /\ BreakEn \in SUBSET Int /\ Parity \in SUBSET Int /\ StopLength \in SUBSET Int
  BY DEF OwnOffset, UartRegisters, DivEn, BreakEn, Parity, StopLength
<1>2. Only(u, UARTDivisorLatchEnable(u), "LCR", u["LCR"] \cup DivEn)
  BY <1>1, OwnOffsetAccess DEF UARTDivisorLatchEnable
<1>3. Only(u, UARTDivisorLatchDisable(u), "LCR", u["LCR"] \ DivEn)
  BY <1>1, OwnOffsetAccess DEF UARTDivisorLatchDisable
<1>4. Only(u, UARTBreakCtl(u, x), "LCR", (u["LCR"] \ BreakEn) \cup (x \cap BreakEn))
  BY <1>1, OwnOffsetAccess DEF UARTBreakCtl
<1>5. ASSUME NEW w \in UartRegs, NEW y
      PROVE  Only(w, UARTParityModeSet(w, y), "LCR", (w["LCR"] \ Parity) \cup (y \cap Parity))
  BY <1>1, OwnOffsetAccess DEF UARTParityModeSet
<1>6. Only(u, UARTLineCharacConfig(u, frame, parity), "LCR",
           (u["LCR"] \ (StopLength \cup Parity))
             \cup ((frame \cup parity) \cap (StopLength \cup Parity)))
  <2> DEFINE v == Program(u, "LCR", StopLength, frame)
             w == UARTParityModeSet(v, parity)
  <2>1. Only(u, v, "LCR", (u["LCR"] \ StopLength) \cup (frame \cap StopLength))
    BY <1>1, OwnOffsetAccess
  <2>2. w = UARTLineCharacConfig(u, frame, parity)
    BY DEF UARTLineCharacConfig
  <2> HIDE DEF v
  <2>3. v \in UartRegs /\ v["LCR"] = (u["LCR"] \ StopLength) \cup (frame \cap StopLength)
    BY <2>1 DEF Only
  <2>4. Only(v, w, "LCR", (v["LCR"] \ Parity) \cup (parity \cap Parity))
    BY <1>5, <2>3
  <2>5. (v["LCR"] \ Parity) \cup (parity \cap Parity)
          = (u["LCR"] \ (StopLength \cup Parity))
              \cup ((frame \cup parity) \cap (StopLength \cup Parity))
    BY <2>3 DEF StopLength, Parity
  <2> QED BY <1>1, <2>1, <2>2, <2>4, <2>5, OnlyTwice
<1> QED BY <1>2, <1>3, <1>4, <1>5, <1>6

LEMMA DivisorRight ==
  ASSUME NEW u, Types(u), NEW d \in SUBSET Int
  PROVE  Right(u, "UARTDivisorLatchWrite", d, UARTDivisorLatchWrite(u, d))
<1> DEFINE v == UARTDivisorLatchWrite(u, d)
<1>1. /\ u \in UartRegs /\ v \in UartRegs /\ v["DLL"] = Low(d) /\ v["DLH"] = High(d)
      /\ \A r \in UartRegisters \ {"DLL", "DLH"} : v[r] = u[r]
  BY DivisorWritten DEF Types
<1> HIDE DEF v
<1>2. Types(v)
  BY <1>1, DivisorBits DEF Types
<1>3. v = [[u EXCEPT !["DLL"] = Low(d)] EXCEPT !["DLH"] = High(d)]
  BY <1>1 DEF UartRegs
<1>4. Promise(u, "UARTDivisorLatchWrite", d)
        = [[u EXCEPT !["DLL"] = Low(d)] EXCEPT !["DLH"] = High(d)]
  BY FieldCallsAre DEF Promise, FieldNames
<1> QED BY <1>2, <1>3, <1>4 DEF Right, v

LEMMA LcrOthers ==
  ASSUME NEW u \in UartRegs, NEW x
  PROVE  /\ Only(u, UARTDivisorLatchEnable(u), "LCR", u["LCR"] \cup DivEn)
         /\ Only(u, UARTDivisorLatchDisable(u), "LCR", u["LCR"] \ DivEn)
         /\ Only(u, UARTBreakCtl(u, x), "LCR", (u["LCR"] \ BreakEn) \cup (x \cap BreakEn))
         /\ Only(u, UARTParityModeSet(u, x), "LCR", (u["LCR"] \ Parity) \cup (x \cap Parity))
<1>1. {} \subseteq StopLength /\ {} \subseteq Parity
  OBVIOUS
<1> QED BY <1>1, LcrCalls

LEMMA FrameCallRight ==
  ASSUME Types(uart), FrameCall
  PROVE  Types(uart)' /\ CallAsAsked
<1> DEFINE Goal == Types(uart)' /\ CallAsAsked
<1>1. uart \in UartRegs
  BY DEF Types
<1>2. {"LCR"} \subseteq UartRegisters \ {"DLL", "DLH"}
  BY DEF UartRegisters
<1> HIDE DEF Goal
<1>3. ASSUME NEW fn, fn \notin ReadNames, fn # "bwio_uart_setup", NEW x, NEW v, Does(fn, x, v),
             NEW r \in {"LCR"}, NEW c, Only(uart, v, r, c),
             Promise(uart, fn, x) = SetTo(uart, r, c)
      PROVE  Goal
  BY <1>2, <1>3, OneRegister DEF Goal
<1>4. ASSUME Does("UARTDivisorLatchEnable", {}, UARTDivisorLatchEnable(uart))
      PROVE  Goal
  <2>1. Only(uart, UARTDivisorLatchEnable(uart), "LCR", uart["LCR"] \cup DivEn)
    BY <1>1, LcrOthers
  <2>2. Promise(uart, "UARTDivisorLatchEnable", {}) = SetTo(uart, "LCR", uart["LCR"] \cup DivEn)
    BY FramePromises
  <2> QED BY <1>3, <1>4, <2>1, <2>2 DEF ReadNames
<1>5. ASSUME Does("UARTDivisorLatchDisable", {}, UARTDivisorLatchDisable(uart))
      PROVE  Goal
  <2>1. Only(uart, UARTDivisorLatchDisable(uart), "LCR", uart["LCR"] \ DivEn)
    BY <1>1, LcrOthers
  <2>2. Promise(uart, "UARTDivisorLatchDisable", {}) = SetTo(uart, "LCR", uart["LCR"] \ DivEn)
    BY FramePromises
  <2> QED BY <1>3, <1>5, <2>1, <2>2 DEF ReadNames
<1>6. ASSUME NEW state,
             Does("UARTBreakCtl", state, UARTBreakCtl(uart, state))
      PROVE  Goal
  <2>1. Only(uart, UARTBreakCtl(uart, state), "LCR",
             (uart["LCR"] \ BreakEn) \cup (state \cap BreakEn))
    BY <1>1, LcrOthers
  <2>2. Promise(uart, "UARTBreakCtl", state)
          = SetTo(uart, "LCR", (uart["LCR"] \ BreakEn) \cup (state \cap BreakEn))
    BY FramePromises
  <2> QED BY <1>3, <1>6, <2>1, <2>2 DEF ReadNames
<1>7. ASSUME NEW parity,
             Does("UARTParityModeSet", parity, UARTParityModeSet(uart, parity))
      PROVE  Goal
  <2>1. Only(uart, UARTParityModeSet(uart, parity), "LCR",
             (uart["LCR"] \ Parity) \cup (parity \cap Parity))
    BY <1>1, LcrOthers
  <2>2. Promise(uart, "UARTParityModeSet", parity)
          = SetTo(uart, "LCR", (uart["LCR"] \ Parity) \cup (parity \cap Parity))
    BY FramePromises
  <2> QED BY <1>3, <1>7, <2>1, <2>2 DEF ReadNames
<1>8. ASSUME NEW parity \in SUBSET Parity, NEW frame \in SUBSET StopLength,
             Does("UARTLineCharacConfig", frame \cup parity,
                  UARTLineCharacConfig(uart, frame, parity))
      PROVE  Goal
  <2>1. Only(uart, UARTLineCharacConfig(uart, frame, parity), "LCR",
             (uart["LCR"] \ (StopLength \cup Parity)) \cup ((frame \cup parity) \cap (StopLength \cup Parity)))
    BY <1>1, LcrCalls
  <2>2. Promise(uart, "UARTLineCharacConfig", frame \cup parity)
          = SetTo(uart, "LCR",
            (uart["LCR"] \ (StopLength \cup Parity)) \cup ((frame \cup parity) \cap (StopLength \cup Parity)))
    BY FramePromises
  <2> QED BY <1>3, <1>8, <2>1, <2>2 DEF ReadNames
<1>9. ASSUME NEW d \in SUBSET Int, Does("UARTDivisorLatchWrite", d,
                                        UARTDivisorLatchWrite(uart, d))
      PROVE  Goal
  BY <1>9, DivisorRight, OneCall DEF ReadNames, Goal
<1>10. /\ {{}, {3}, {3, 4, 5}} \subseteq SUBSET Parity
       /\ {{}, {0, 1, 2}} \subseteq SUBSET StopLength
       /\ {BitsOf(26), BitsOf(312)} \subseteq SUBSET Int
  BY DEF Parity, StopLength, BitsOf
<1> QED BY <1>4, <1>5, <1>6, <1>7, <1>8, <1>9, <1>10 DEF FrameCall, Goal

\* The promise of UARTFIFOConfig, register by register
LEMMA FieldIsOnly ==
  ASSUME NEW u \in UartRegs, NEW r \in UartRegisters, NEW field, NEW value \in SUBSET Int
  PROVE  Only(u, Field(u, r, field, value), r, (u[r] \ field) \cup (value \cap field))
<1> DEFINE c == (u[r] \ field) \cup (value \cap field)
<1>1. c \in SUBSET Int
  BY DEF UartRegs
<1>2. Field(u, r, field, value) = [u EXCEPT ![r] = c]
  BY DEF Field
<1> HIDE DEF c
<1>3. Only(u, Field(u, r, field, value), r, c)
  BY <1>1, <1>2, SetIsOnly
<1> QED BY <1>3 DEF c

LEMMA LevelIsOnly ==
  ASSUME NEW u \in UartRegs, NEW fine, NEW code, NEW inTlr \in {0, 4}, NEW field,
         field = inTlr .. inTlr + 3, NEW level \in SUBSET Int
  PROVE  Only(u, Level(u, fine, code, field, inTlr, level), "TLR",
              NewTlr(u["TLR"], fine, code, field, inTlr, level))
<1> DEFINE a == Shift(level \cap 2 .. 5, inTlr - 2)
           b == Shift(level, inTlr)
           e == IF code THEN {} ELSE b
<1>1. a \in SUBSET Int /\ a \cap field = a
  BY DEF Shift
<1>2. b \in SUBSET Int
  BY DEF Shift
<1>3. "TLR" \in UartRegisters
  BY DEF UartRegisters
<1> HIDE DEF a, b
<1>4. e \in SUBSET Int /\ e \cap field = IF code THEN {} ELSE b \cap field
  BY <1>2
<1>5. Only(u, Field(u, "TLR", field, a), "TLR", (u["TLR"] \ field) \cup a)
  <2>1. Only(u, Field(u, "TLR", field, a), "TLR", (u["TLR"] \ field) \cup (a \cap field))
    BY <1>1, <1>3, FieldIsOnly
  <2> QED BY <1>1, <2>1
<1>6. Only(u, Field(u, "TLR", field, e), "TLR", (u["TLR"] \ field) \cup (e \cap field))
  BY <1>3, <1>4, FieldIsOnly
<1>7. CASE fine
  BY <1>5, <1>7 DEF Level, NewTlr, a
<1>8. CASE ~ fine
  <2>1. NewTlr(u["TLR"], fine, code, field, inTlr, level) = (u["TLR"] \ field) \cup (e \cap field)
    BY <1>4, <1>8 DEF NewTlr, b
  <2>2. Level(u, fine, code, field, inTlr, level) = Field(u, "TLR", field, e)
    BY <1>8 DEF Level, b
  <2> QED BY <1>6, <2>1, <2>2
<1> QED BY <1>7, <1>8

LEMMA ScrPromised ==
  ASSUME NEW u \in UartRegs, NEW c \in FifoRequests
  PROVE  LET scr == Field(u, "SCR", RxGranu1 \cup TxGranu1 \cup DmaCtl,
                          (IF c.rxFine THEN RxGranu1 ELSE {}) \cup
                          (IF c.txFine THEN TxGranu1 ELSE {}) \cup
                          (IF c.viaScr THEN DmaCtl ELSE {}))
         IN  Only(u, IF c.viaScr THEN Field(scr, "SCR", DmaMode2, Shift(c.dmaMode, 1)) ELSE scr,
                  "SCR", NewScr(u["SCR"], c))
<1> DEFINE granu == (IF c.rxFine THEN {7} ELSE {}) \cup (IF c.txFine THEN {6} ELSE {})
           bits == granu \cup (IF c.viaScr THEN {0} ELSE {})
           scr == Field(u, "SCR", {0, 6, 7}, bits)
           dma == Field(scr, "SCR", {1, 2}, Shift(c.dmaMode, 1))
           old == u["SCR"]
<1>1. /\ RxGranu1 \cup TxGranu1 \cup DmaCtl = {0, 6, 7} /\ RxGranu1 = {7} /\ TxGranu1 = {6}
      /\ DmaCtl = {0} /\ DmaMode2 = {1, 2}
  BY DEF RxGranu1, TxGranu1, DmaCtl, DmaMode2
<1>2. granu \subseteq {6, 7}
  OBVIOUS
<1>3. "SCR" \in UartRegisters
  BY DEF UartRegisters
<1>4. Shift(c.dmaMode, 1) \in SUBSET Int
  BY DEF Shift, FifoRequests
<1>5. Shift(c.dmaMode, 1) \cap {1, 2} = Shift(c.dmaMode \cap {0, 1}, 1)
  BY DEF Shift, FifoRequests
<1>6. old \in SUBSET Int
  BY <1>3 DEF UartRegs
<1>7. NewScr(old, c) = (old \ {0, 1, 2, 6, 7}) \cup granu
        \cup (IF c.viaScr THEN {0} \cup Shift(c.dmaMode \cap {0, 1}, 1) ELSE old \cap {1, 2})
  BY DEF NewScr
<1> HIDE DEF granu
<1>8. bits \in SUBSET Int /\ bits \cap {0, 6, 7} = bits
  <2>1. bits \subseteq {0, 6, 7}
    BY <1>2
  <2> QED BY <2>1
<1>9. Only(u, scr, "SCR", (old \ {0, 6, 7}) \cup bits)
  <2>1. Only(u, scr, "SCR", (old \ {0, 6, 7}) \cup (bits \cap {0, 6, 7}))
    BY <1>3, <1>8, FieldIsOnly
  <2> QED BY <1>8, <2>1
<1>10. CASE c.viaScr
  <2> HIDE DEF scr
  <2>1. scr \in UartRegs /\ scr["SCR"] = (old \ {0, 6, 7}) \cup bits
    BY <1>9 DEF Only
  <2>2. Only(scr, dma, "SCR", (scr["SCR"] \ {1, 2}) \cup Shift(c.dmaMode \cap {0, 1}, 1))
    <3>1. Only(scr, dma, "SCR", (scr["SCR"] \ {1, 2}) \cup (Shift(c.dmaMode, 1) \cap {1, 2}))
      BY <1>3, <1>4, <2>1, FieldIsOnly
    <3> QED BY <1>5, <3>1
  <2>3. (scr["SCR"] \ {1, 2}) \cup Shift(c.dmaMode \cap {0, 1}, 1) = NewScr(old, c)
    BY <1>2, <1>7, <1>10, <2>1
  <2>4. Only(u, dma, "SCR", NewScr(old, c))
    BY <1>3, <1>9, <2>2, <2>3, OnlyTwice
  <2> QED BY <1>1, <1>10, <2>4 DEF scr, granu
<1>11. CASE ~ c.viaScr
  <2>1. (old \ {0, 6, 7}) \cup bits = NewScr(old, c)
    BY <1>2, <1>7, <1>11
  <2> QED BY <1>1, <1>9, <1>11, <2>1 DEF granu
<1> QED BY <1>10, <1>11

LEMMA FifoPromised ==
  ASSUME NEW u \in UartRegs, NEW c \in FifoRequests
  PROVE  /\ FifoPromise(u, c) \in UartRegs
         /\ FifoPromise(u, c)["SCR"] = NewScr(u["SCR"], c)
         /\ FifoPromise(u, c)["TLR"] = NewTlrs(u["TLR"], c)
         /\ FifoPromise(u, c)["FCR"] = FifoFcr(c)
         /\ \A r \in UartRegisters \ {"SCR", "TLR", "FCR"} : FifoPromise(u, c)[r] = u[r]
<1> DEFINE scr == Field(u, "SCR", RxGranu1 \cup TxGranu1 \cup DmaCtl,
                        (IF c.rxFine THEN RxGranu1 ELSE {}) \cup
                        (IF c.txFine THEN TxGranu1 ELSE {}) \cup
                        (IF c.viaScr THEN DmaCtl ELSE {}))
           dma == IF c.viaScr THEN Field(scr, "SCR", DmaMode2, Shift(c.dmaMode, 1)) ELSE scr
           rx  == Level(dma, c.rxFine, RxCode(c), RxTrigger, 4, c.rxTrig)
           tx  == Level(rx, c.txFine, TxCode(c), TxTrigger, 0, c.txTrig)
           end == [tx EXCEPT !["FCR"] = FifoFcr(c)]
<1>1. Only(u, dma, "SCR", NewScr(u["SCR"], c))
  BY ScrPromised
<1>2. end = FifoPromise(u, c)
  BY DEF FifoPromise
<1> HIDE DEF dma
<1>3. dma \in UartRegs
  BY <1>1 DEF Only
<1>4. c.rxTrig \in SUBSET Int /\ c.txTrig \in SUBSET Int /\ RxTrigger = 4 .. 4 + 3 /\ TxTrigger = 0 .. 0 + 3
  BY DEF FifoRequests, RxTrigger, TxTrigger
<1>5. Only(dma, rx, "TLR", NewTlr(dma["TLR"], c.rxFine, RxCode(c), RxTrigger, 4, c.rxTrig))
  BY <1>3, <1>4, LevelIsOnly
<1> HIDE DEF rx
<1>6. rx \in UartRegs
  BY <1>5 DEF Only
<1>7. Only(rx, tx, "TLR", NewTlr(rx["TLR"], c.txFine, TxCode(c), TxTrigger, 0, c.txTrig))
  BY <1>4, <1>6, LevelIsOnly
<1> HIDE DEF tx
<1>8. tx \in UartRegs
  BY <1>7 DEF Only
<1>9. Only(tx, end, "FCR", FifoFcr(c))
  BY <1>8, FcrIsBits, SetIsOnly DEF UartRegisters
<1> HIDE DEF end
<1>10. end \in UartRegs /\ end["FCR"] = FifoFcr(c)
  BY <1>9 DEF Only
<1>11. end["SCR"] = NewScr(u["SCR"], c)
  BY <1>1, <1>5, <1>7, <1>9 DEF Only, UartRegisters
<1>12. end["TLR"] = NewTlrs(u["TLR"], c)
  BY <1>1, <1>5, <1>7, <1>9 DEF Only, UartRegisters, NewTlrs
<1>13. \A r \in UartRegisters \ {"SCR", "TLR", "FCR"} : end[r] = u[r]
  BY <1>1, <1>5, <1>7, <1>9 DEF Only
<1> QED BY <1>2, <1>10, <1>11, <1>12, <1>13

LEMMA FifoConfigRight ==
  ASSUME NEW u, Types(u), NEW c \in FifoRequests
  PROVE  Right(u, "UARTFIFOConfig", c, UARTFIFOConfig(u, c))
<1> DEFINE v == UARTFIFOConfig(u, c)
           p == FifoPromise(u, c)
<1>1. u \in UartRegs /\ u["DLL"] \subseteq 0 .. 7 /\ u["DLH"] \subseteq 0 .. 5
  BY DEF Types
<1>2. Types(v)
  BY <1>1, FifoConfigured DEF Types
<1>3. Promise(u, "UARTFIFOConfig", c) = p
  BY FieldCallsAre DEF Promise, FieldNames
<1>4. ASSUME Reachable(u, "UARTFIFOConfig", c)
      PROVE  v = p
  <2>1. /\ EnhancedEn \subseteq u["EFR"]
        /\ c.rxFine => RxTrigger \cap u["TLR"] = {}
        /\ c.txFine => TxTrigger \cap u["TLR"] = {}
    BY <1>4, FieldCallsAre DEF Reachable, FieldNames
  <2>2. /\ v \in UartRegs /\ v["SCR"] = NewScr(u["SCR"], c)
        /\ v["TLR"] = NewTlrs(u["TLR"], c) /\ v["FCR"] = FifoFcr(c)
        /\ \A r \in UartRegisters \ {"SCR", "TLR", "FCR"} : v[r] = u[r]
    BY <1>1, <2>1, FifoConfigured
  <2>3. /\ p \in UartRegs /\ p["SCR"] = NewScr(u["SCR"], c)
        /\ p["TLR"] = NewTlrs(u["TLR"], c) /\ p["FCR"] = FifoFcr(c)
        /\ \A r \in UartRegisters \ {"SCR", "TLR", "FCR"} : p[r] = u[r]
    BY <1>1, FifoPromised
  <2> HIDE DEF v, p
  <2>4. \A r \in UartRegisters : v[r] = p[r]
    BY <2>2, <2>3
  <2> QED BY <2>2, <2>3, <2>4 DEF UartRegs
<1> QED BY <1>2, <1>3, <1>4 DEF Right

\* A call that sets one register when it is reachable, and keeps the divisor
\* within its registers when it is not
LEMMA OneRegisterWhen ==
  ASSUME NEW fn, fn \notin ReadNames, fn # "bwio_uart_setup", NEW x, NEW v, Does(fn, x, v),
         Types(uart), Types(v), NEW r \in UartRegisters, NEW c,
         Reachable(uart, fn, x) => Only(uart, v, r, c),
         Promise(uart, fn, x) = SetTo(uart, r, c)
  PROVE  Types(uart)' /\ CallAsAsked
<1>1. ASSUME Reachable(uart, fn, x)
      PROVE  v = Promise(uart, fn, x)
  BY <1>1, OnlyOne DEF Types, SetTo
<1> QED BY <1>1, OneCall DEF Right

LEMMA ScrCalls ==
  ASSUME NEW u \in UartRegs, NEW mode, NEW g
  PROVE  /\ mode \subseteq {0, 1} =>
              Only(u, UARTDMAEnable(u, mode), "SCR",
                   (u["SCR"] \ (DmaCtl \cup DmaMode2))
                     \cup ((DmaCtl \cup Shift(mode, 1)) \cap (DmaCtl \cup DmaMode2)))
         /\ Only(u, UARTDMADisable(u), "SCR",
                 (u["SCR"] \ (DmaCtl \cup DmaMode2)) \cup (DmaCtl \cap (DmaCtl \cup DmaMode2)))
         /\ Only(u, UARTFIFOTrigLvlGranControl(u, g, g), "SCR",
                 (u["SCR"] \ (RxGranu1 \cup TxGranu1)) \cup (g \cap (RxGranu1 \cup TxGranu1)))
<1>1. /\ "SCR" \in OwnOffset /\ "SCR" \in UartRegisters
      /\ DmaCtl = {0} /\ DmaMode2 = {1, 2} /\ RxGranu1 = {7} /\ TxGranu1 = {6}
      /\ {0} \in SUBSET Int /\ {1, 2} \in SUBSET Int /\ {7} \cup {6} \in SUBSET Int
  BY DEF OwnOffset, UartRegisters, DmaCtl, DmaMode2, RxGranu1, TxGranu1
<1> DEFINE a == SetBits(u, "SCR", {0})
<1>2. Only(u, a, "SCR", u["SCR"] \cup {0})
  BY <1>1, OwnOffsetAccess
<1>3. Only(u, UARTDMADisable(u), "SCR",
           (u["SCR"] \ (DmaCtl \cup DmaMode2)) \cup (DmaCtl \cap (DmaCtl \cup DmaMode2)))
  <2> DEFINE b == ClearBits(a, "SCR", {1, 2})
  <2>1. b = UARTDMADisable(u)
    BY <1>1 DEF UARTDMADisable
  <2> HIDE DEF a
  <2>2. a \in UartRegs /\ a["SCR"] = u["SCR"] \cup {0}
    BY <1>2 DEF Only
  <2>3. Only(a, b, "SCR", a["SCR"] \ {1, 2})
    BY <1>1, <2>2, OwnOffsetAccess
  <2>4. a["SCR"] \ {1, 2}
          = (u["SCR"] \ (DmaCtl \cup DmaMode2)) \cup (DmaCtl \cap (DmaCtl \cup DmaMode2))
    BY <1>1, <2>2
  <2> QED BY <1>1, <1>2, <2>1, <2>3, <2>4, OnlyTwice
<1>4. ASSUME mode \subseteq {0, 1}
      PROVE  Only(u, UARTDMAEnable(u, mode), "SCR",
                  (u["SCR"] \ (DmaCtl \cup DmaMode2))
                    \cup ((DmaCtl \cup Shift(mode, 1)) \cap (DmaCtl \cup DmaMode2)))
  <2> DEFINE m == Shift(mode, 1)
             b == Program(a, "SCR", {1, 2}, m)
  <2>1. b = UARTDMAEnable(u, mode)
    BY <1>1 DEF UARTDMAEnable
  <2>2. m \subseteq {1, 2}
    BY <1>4 DEF Shift
  <2> HIDE DEF a, m
  <2>3. a \in UartRegs /\ a["SCR"] = u["SCR"] \cup {0}
    BY <1>2 DEF Only
  <2>4. Only(a, b, "SCR", (a["SCR"] \ {1, 2}) \cup (m \cap {1, 2}))
    BY <1>1, <2>3, OwnOffsetAccess
  <2>5. (a["SCR"] \ {1, 2}) \cup (m \cap {1, 2})
          = (u["SCR"] \ (DmaCtl \cup DmaMode2)) \cup ((DmaCtl \cup m) \cap (DmaCtl \cup DmaMode2))
    BY <1>1, <2>2, <2>3
  <2>6. Only(u, b, "SCR", (a["SCR"] \ {1, 2}) \cup (m \cap {1, 2}))
    BY <1>1, <1>2, <2>4, OnlyTwice
  <2> QED BY <2>1, <2>5, <2>6 DEF m
<1>5. Only(u, UARTFIFOTrigLvlGranControl(u, g, g), "SCR",
           (u["SCR"] \ (RxGranu1 \cup TxGranu1)) \cup (g \cap (RxGranu1 \cup TxGranu1)))
  <2> DEFINE b == ClearBits(u, "SCR", {7} \cup {6})
             c == SetBits(b, "SCR", g \cap {7})
             d == SetBits(c, "SCR", g \cap {6})
  <2>1. d = UARTFIFOTrigLvlGranControl(u, g, g)
    BY <1>1 DEF UARTFIFOTrigLvlGranControl
  <2>2. g \cap {7} \in SUBSET Int /\ g \cap {6} \in SUBSET Int
    OBVIOUS
  <2>3. Only(u, b, "SCR", u["SCR"] \ ({7} \cup {6}))
    BY <1>1, OwnOffsetAccess
  <2> HIDE DEF b
  <2>4. b \in UartRegs /\ b["SCR"] = u["SCR"] \ ({7} \cup {6})
    BY <2>3 DEF Only
  <2>5. Only(b, c, "SCR", b["SCR"] \cup (g \cap {7}))
    BY <1>1, <2>2, <2>4, OwnOffsetAccess
  <2> HIDE DEF c
  <2>6. c \in UartRegs /\ c["SCR"] = b["SCR"] \cup (g \cap {7})
    BY <2>5 DEF Only
  <2>7. Only(c, d, "SCR", c["SCR"] \cup (g \cap {6}))
    BY <1>1, <2>2, <2>6, OwnOffsetAccess
  <2> HIDE DEF d
  <2>8. c["SCR"] \cup (g \cap {6})
          = (u["SCR"] \ (RxGranu1 \cup TxGranu1)) \cup (g \cap (RxGranu1 \cup TxGranu1))
    BY <1>1, <2>4, <2>6
  <2>9. Only(u, c, "SCR", b["SCR"] \cup (g \cap {7}))
    BY <1>1, <2>3, <2>5, OnlyTwice
  <2>10. Only(u, d, "SCR", c["SCR"] \cup (g \cap {6}))
    BY <1>1, <2>9, <2>7, OnlyTwice
  <2> QED BY <2>1, <2>8, <2>10
<1> QED BY <1>3, <1>4, <1>5

LEMMA FifoCallRight ==
  ASSUME Types(uart), FifoCall
  PROVE  Types(uart)' /\ CallAsAsked
<1> DEFINE Goal == Types(uart)' /\ CallAsAsked
<1>1. uart \in UartRegs
  BY DEF Types
<1>2. {"SCR"} \subseteq UartRegisters \ {"DLL", "DLH"}
  BY DEF UartRegisters
<1> HIDE DEF Goal
<1>3. ASSUME NEW fn, fn \notin ReadNames, fn # "bwio_uart_setup", NEW x, NEW v, Does(fn, x, v),
             NEW r \in {"SCR"}, NEW c, Only(uart, v, r, c),
             Promise(uart, fn, x) = SetTo(uart, r, c)
      PROVE  Goal
  BY <1>2, <1>3, OneRegister DEF Goal
<1>4. ASSUME NEW mode \in SUBSET {0, 1},
             Does("UARTDMAEnable", mode, UARTDMAEnable(uart, mode))
      PROVE  Goal
  <2>1. Only(uart, UARTDMAEnable(uart, mode), "SCR",
             (uart["SCR"] \ (DmaCtl \cup DmaMode2)) \cup ((DmaCtl \cup Shift(mode, 1)) \cap (DmaCtl \cup DmaMode2)))
    BY <1>1, ScrCalls
  <2>2. Promise(uart, "UARTDMAEnable", mode)
          = SetTo(uart, "SCR",
            (uart["SCR"] \ (DmaCtl \cup DmaMode2)) \cup ((DmaCtl \cup Shift(mode, 1)) \cap (DmaCtl \cup DmaMode2)))
    BY FifoPromises
  <2> QED BY <1>3, <1>4, <2>1, <2>2 DEF ReadNames
<1>5. ASSUME Does("UARTDMADisable", {}, UARTDMADisable(uart))
      PROVE  Goal
  <2>1. Only(uart, UARTDMADisable(uart), "SCR",
             (uart["SCR"] \ (DmaCtl \cup DmaMode2)) \cup (DmaCtl \cap (DmaCtl \cup DmaMode2)))
    BY <1>1, ScrCalls
  <2>2. Promise(uart, "UARTDMADisable", {})
          = SetTo(uart, "SCR",
            (uart["SCR"] \ (DmaCtl \cup DmaMode2)) \cup (DmaCtl \cap (DmaCtl \cup DmaMode2)))
    BY FifoPromises
  <2> QED BY <1>3, <1>5, <2>1, <2>2 DEF ReadNames
<1>6. ASSUME NEW g,
             Does("UARTFIFOTrigLvlGranControl", g, UARTFIFOTrigLvlGranControl(uart, g, g))
      PROVE  Goal
  <2>1. Only(uart, UARTFIFOTrigLvlGranControl(uart, g, g), "SCR",
             (uart["SCR"] \ (RxGranu1 \cup TxGranu1)) \cup (g \cap (RxGranu1 \cup TxGranu1)))
    BY <1>1, ScrCalls
  <2>2. Promise(uart, "UARTFIFOTrigLvlGranControl", g)
          = SetTo(uart, "SCR",
            (uart["SCR"] \ (RxGranu1 \cup TxGranu1)) \cup (g \cap (RxGranu1 \cup TxGranu1)))
    BY FifoPromises
  <2> QED BY <1>3, <1>6, <2>1, <2>2 DEF ReadNames
<1>7. ASSUME NEW c \in FifoRequests, Does("UARTFIFOConfig", c, UARTFIFOConfig(uart, c))
      PROVE  Goal
  BY <1>7, FifoConfigRight, OneCall DEF ReadNames, Goal
<1>8. ASSUME NEW fcr \in SUBSET Int,
             Does("UARTFIFORegisterWrite", fcr, UARTFIFORegisterWrite(uart, fcr))
      PROVE  Goal
  <2> DEFINE p == IF EnhancedEn \cap uart["EFR"] = {} THEN {4, 5} ELSE {}
             v == UARTFIFORegisterWrite(uart, fcr)
             n == (fcr \ p) \cup (uart["FCR"] \cap p)
  <2>1. "FCR" \in UartRegisters \ {"DLL", "DLH"}
    BY DEF UartRegisters
  <2>2. Only(uart, v, "FCR", n)
    BY <1>1, FcrWritten DEF Types
  <2>3. Types(v)
    BY <2>1, <2>2, OnlyKeeps
  <2>4. ASSUME Reachable(uart, "UARTFIFORegisterWrite", fcr)
        PROVE  Only(uart, v, "FCR", fcr)
    <3>1. EnhancedEn \subseteq uart["EFR"]
      BY <2>4, FieldCallsAre DEF Reachable, FieldNames
    <3>2. p = {}
      BY <3>1 DEF EnhancedEn
    <3>3. n = fcr
      BY <3>2
    <3> QED BY <2>2, <3>3
  <2>5. Promise(uart, "UARTFIFORegisterWrite", fcr) = SetTo(uart, "FCR", fcr)
    BY FifoPromises
  <2> HIDE DEF v
  <2>6. Does("UARTFIFORegisterWrite", fcr, v)
    BY <1>8 DEF v
  <2> QED BY <2>1, <2>3, <2>4, <2>5, <2>6, OneRegisterWhen DEF ReadNames, Goal
<1>9. FifoConfigs \subseteq FifoRequests
  <2>1. /\ {{0, 3}, {6}} \subseteq SUBSET Int /\ {{1, 2}, {5}} \subseteq SUBSET Int
        /\ {{0}} \subseteq SUBSET Int /\ {FALSE} \subseteq BOOLEAN
    OBVIOUS
  <2> DEFINE a == {{0, 3}, {6}}
             b == {{1, 2}, {5}}
             d == {{0}}
             e == {FALSE}
  <2>2. a \subseteq SUBSET Int /\ b \subseteq SUBSET Int /\ d \subseteq SUBSET Int /\ e \subseteq BOOLEAN
    BY <2>1
  <2>3. FifoConfigs = [rxFine : BOOLEAN, txFine : BOOLEAN, rxTrig : a, txTrig : b,
                       viaScr : BOOLEAN, dmaMode : d, clear : e]
    BY DEF FifoConfigs
  <2> HIDE DEF a, b, d, e
  <2> QED BY <2>2, <2>3 DEF FifoRequests
<1> QED BY <1>4, <1>5, <1>6, <1>7, <1>8, <1>9 DEF FifoCall, Goal

LEMMA InterruptCallRight ==
  ASSUME Types(uart), InterruptCall
  PROVE  Types(uart)' /\ CallAsAsked
<1> DEFINE Goal == Types(uart)' /\ CallAsAsked
<1>1. uart \in UartRegs
  BY DEF Types
<1>2. {"IER"} \subseteq UartRegisters \ {"DLL", "DLH"}
  BY DEF UartRegisters
<1> HIDE DEF Goal
<1>3. ASSUME NEW fn, fn \notin ReadNames, fn # "bwio_uart_setup", NEW x, NEW v, Does(fn, x, v),
             NEW r \in {"IER"}, NEW c, Only(uart, v, r, c),
             Promise(uart, fn, x) = SetTo(uart, r, c)
      PROVE  Goal
  BY <1>2, <1>3, OneRegister DEF Goal
<1>4. ASSUME NEW flags \in SUBSET (0 .. 7), Does("UARTIntDisable", flags,
                                                 UARTIntDisable(uart, flags))
      PROVE  Goal
  <2>1. Only(uart, UARTIntDisable(uart, flags), "IER", uart["IER"] \ flags)
    <3>1. flags \in SUBSET Int
      OBVIOUS
    <3> QED BY <1>1, <3>1, IerCalls
  <2>2. Promise(uart, "UARTIntDisable", flags) = SetTo(uart, "IER", uart["IER"] \ flags)
    BY IerPromises
  <2> QED BY <1>3, <1>4, <2>1, <2>2 DEF ReadNames
<1>5. ASSUME NEW flags \in SUBSET (0 .. 7), Does("UARTIntEnable", flags,
                                                 UARTIntEnable(uart, flags))
      PROVE  Goal
  <2> DEFINE v == UARTIntEnable(uart, flags)
  <2>1. flags \in SUBSET Int /\ flags \cap 0 .. 7 = flags
    <3>1. flags \subseteq 0 .. 7
      OBVIOUS
    <3>2. flags \cap 0 .. 7 = flags
      BY <3>1, Zenon
    <3>3. flags \in SUBSET Int
      OBVIOUS
    <3> QED BY <3>2, <3>3
  <2>2. Types(v)
    <3>1. PICK c \in SUBSET (0 .. 3) : v \in UartRegs /\ v["DLH"] = uart["DLH"] \cup c /\ v["DLL"] = uart["DLL"]
      BY <1>1, <2>1, IerCalls
    <3> HIDE DEF v
    <3>2. c \subseteq 0 .. 5 /\ uart["DLH"] \subseteq 0 .. 5 /\ uart["DLL"] \subseteq 0 .. 7
      BY DEF Types
    <3>3. uart["DLH"] \cup c \subseteq 0 .. 5
      BY <3>2
    <3> QED BY <3>1, <3>2, <3>3 DEF Types
  <2>3. ASSUME Reachable(uart, "UARTIntEnable", flags)
        PROVE  Only(uart, v, "IER", uart["IER"] \cup flags)
    <3>1. Mode(uart) = "operational" \/ flags \cap 0 .. 3 = {}
      BY <2>3, FieldCallsAre DEF Reachable, FieldNames
    <3>2. Only(uart, v, "IER", uart["IER"] \cup (flags \cap 0 .. 7))
      BY <1>1, <2>1, <3>1, IerCalls
    <3> QED BY <2>1, <3>2
  <2>4. Promise(uart, "UARTIntEnable", flags) = SetTo(uart, "IER", uart["IER"] \cup flags)
    BY IerPromises
  <2> HIDE DEF v
  <2>5. Does("UARTIntEnable", flags, v)
    BY <1>5 DEF v
  <2> QED BY <1>2, <2>2, <2>3, <2>4, <2>5, OneRegisterWhen DEF ReadNames, Goal
<1>6. {{0, 2}, {4, 7}, 0 .. 7} \subseteq SUBSET (0 .. 7)
  OBVIOUS
<1> QED BY <1>4, <1>5, <1>6 DEF InterruptCall, Goal

LEMMA CharCallRight ==
  ASSUME Types(uart), CharCall
  PROVE  Types(uart)' /\ CallAsAsked
<1> DEFINE Goal == Types(uart)' /\ CallAsAsked
<1>1. uart \in UartRegs
  BY DEF Types
<1>2. {"THR"} \subseteq UartRegisters \ {"DLL", "DLH"}
  BY DEF UartRegisters
<1> HIDE DEF Goal
<1>3. ASSUME NEW fn, fn \notin ReadNames, fn # "bwio_uart_setup", NEW x, NEW v, Does(fn, x, v),
             NEW r \in {"THR"}, NEW c, Only(uart, v, r, c),
             Promise(uart, fn, x) = SetTo(uart, r, c)
      PROVE  Goal
  BY <1>2, <1>3, OneRegister DEF Goal
<1>4. ASSUME NEW char \in SUBSET Int,
             Does("UARTCharPut", char, UARTCharPut(uart, char))
      PROVE  Goal
  <2>1. Only(uart, UARTCharPut(uart, char), "THR", char)
    BY <1>1, CharsPut DEF UARTCharPut
  <2>2. Promise(uart, "UARTCharPut", char) = SetTo(uart, "THR", char)
    BY CharPromises
  <2> QED BY <1>3, <1>4, <2>1, <2>2 DEF ReadNames
<1>5. ASSUME NEW char \in SUBSET Int, NEW ready,
             Does("UARTCharPutNonBlocking", IF ready THEN char ELSE uart["THR"],
                  UARTCharPutNonBlocking(uart, char, ready))
      PROVE  Goal
  <2> DEFINE x == IF ready THEN char ELSE uart["THR"]
             v == UARTCharPutNonBlocking(uart, char, ready)
  <2>1. Only(uart, v, "THR", x)
    <3>1. CASE ready
      BY <1>1, <3>1, CharsPut DEF UARTCharPutNonBlocking
    <3>2. CASE ~ ready
      BY <1>1, <3>2 DEF UARTCharPutNonBlocking, Only
    <3> QED BY <3>1, <3>2
  <2>2. Does("UARTCharPutNonBlocking", x, v)
    BY <1>5
  <2> HIDE DEF x, v
  <2>3. Promise(uart, "UARTCharPutNonBlocking", x) = SetTo(uart, "THR", x)
    BY CharPromises
  <2> QED BY <1>3, <2>1, <2>2, <2>3 DEF ReadNames
<1>6. {0, 6} \in SUBSET Int
  OBVIOUS
<1> QED BY <1>4, <1>5, <1>6 DEF CharCall, Goal

\* An access meant for a register other than these four never reaches DLL or DLH.
Divisors == {"DLL", "DLH", "IER", "THR"}

LEMMA NotADivisor ==
  ASSUME NEW u, NEW r \in UartRegisters \ Divisors
  PROVE  Reached(u, r) \in UartRegisters \ {"DLL", "DLH"}
BY DEF Reached, UartRegisters, Divisors

LEMMA AwayFromDivisor ==
  ASSUME NEW u, Types(u), NEW r \in UartRegisters \ Divisors, NEW bits \in SUBSET Int
  PROVE  /\ Types(Write(u, r, bits))
         /\ Types(SetBits(u, r, bits))
         /\ Types(ClearBits(u, r, bits))
<1> DEFINE q == Reached(u, r)
           p == Protected(u, q)
<1>1. q \in UartRegisters \ {"DLL", "DLH"} /\ u \in UartRegs
  BY NotADivisor DEF Types
<1>2. /\ Only(u, Write(u, r, bits), q, (bits \ p) \cup (u[q] \cap p))
      /\ Only(u, SetBits(u, r, bits), q, u[q] \cup (bits \ p))
      /\ Only(u, ClearBits(u, r, bits), q, u[q] \ (bits \ p))
  BY <1>1, AccessReaches
<1> HIDE DEF q, p
<1>3. Types(Write(u, r, bits))
  BY <1>1, <1>2, OnlyKeeps
<1>4. Types(SetBits(u, r, bits))
  BY <1>1, <1>2, OnlyKeeps
<1>5. Types(ClearBits(u, r, bits))
  BY <1>1, <1>2, OnlyKeeps
<1> QED BY <1>3, <1>4, <1>5

LEMMA ProgramKeeps ==
  ASSUME NEW u, Types(u), NEW r \in UartRegisters \ Divisors, NEW field \in SUBSET Int, NEW value
  PROVE  Types(Program(u, r, field, value))
<1> DEFINE v == ClearBits(u, r, field)
           bits == value \cap field
<1>1. Types(v) /\ bits \in SUBSET Int
  BY AwayFromDivisor
<1> HIDE DEF v, bits
<1>2. Types(SetBits(v, r, bits))
  BY <1>1, AwayFromDivisor
<1> QED BY <1>2 DEF Program, v, bits

\* Flow control

LEMMA RtsCts ==
  ASSUME NEW u \in UartRegs, NEW cts \in SUBSET {7}, NEW rts \in SUBSET {6}
  PROVE  Only(u, UARTAutoRTSAutoCTSControl(u, cts, rts), "EFR",
              (u["EFR"] \ AutoRtsCts) \cup ((cts \cup rts) \cap AutoRtsCts))
<1>1. Only(u, UARTAutoRTSAutoCTSControl(u, cts, rts), "EFR",
           ((u["EFR"] \ AutoRtsCts) \cup (cts \cap {7})) \cup (rts \cap {6}))
  BY EfrCalls
<1>2. cts \subseteq {7} /\ rts \subseteq {6}
  OBVIOUS
<1>3. ((u["EFR"] \ AutoRtsCts) \cup (cts \cap {7})) \cup (rts \cap {6})
        = (u["EFR"] \ AutoRtsCts) \cup ((cts \cup rts) \cap AutoRtsCts)
  BY <1>2 DEF AutoRtsCts
<1> QED BY <1>1, <1>3

LEMMA WakeUpCalls ==
  ASSUME NEW u \in UartRegs, NEW events \in SUBSET Int
  PROVE  /\ Only(u, UARTWakeUpEventsEnable(u, events), "WER", u["WER"] \cup events)
         /\ Only(u, UARTWakeUpEventsDisable(u, events), "WER", u["WER"] \ events)
<1>1. "WER" \in OwnOffset
  BY DEF OwnOffset
<1> QED BY <1>1, OwnOffsetAccess DEF UARTWakeUpEventsEnable, UARTWakeUpEventsDisable

LEMMA ModemLinesSet ==
  ASSUME NEW u, Types(u), NEW lines \in SUBSET ModemLines
  PROVE  /\ Types(UARTModemControlSet(u, lines)) /\ Types(UARTModemControlClear(u, lines))
         /\ Mode(u) # "B" =>
              /\ Only(u, UARTModemControlSet(u, lines), "MCR", u["MCR"] \cup lines)
              /\ Only(u, UARTModemControlClear(u, lines), "MCR", u["MCR"] \ lines)
<1>1. /\ lines \cap ModemLines = lines /\ lines \in SUBSET Int /\ u \in UartRegs
      /\ "MCR" \in UartRegisters \ Divisors
  <2>1. lines \subseteq ModemLines /\ ModemLines \subseteq Int
    BY DEF ModemLines
  <2>2. lines \cap ModemLines = lines /\ lines \subseteq Int
    BY <2>1
  <2> QED BY <2>2 DEF Types, UartRegisters, Divisors
<1>2. /\ UARTModemControlSet(u, lines) = SetBits(u, "MCR", lines)
      /\ UARTModemControlClear(u, lines) = ClearBits(u, "MCR", lines)
  BY <1>1 DEF UARTModemControlSet, UARTModemControlClear
<1>3. Types(SetBits(u, "MCR", lines)) /\ Types(ClearBits(u, "MCR", lines))
  BY <1>1, AwayFromDivisor
<1>4. ASSUME Mode(u) # "B"
      PROVE  /\ Only(u, SetBits(u, "MCR", lines), "MCR", u["MCR"] \cup lines)
             /\ Only(u, ClearBits(u, "MCR", lines), "MCR", u["MCR"] \ lines)
  <2>1. Reached(u, "MCR") = "MCR"
    BY <1>4 DEF Reached
  <2>2. Protected(u, "MCR") \subseteq 5 .. 7
    BY DEF Protected
  <2>3. Protected(u, "MCR") \cap lines = {}
    BY <2>2 DEF ModemLines
  <2> QED BY <1>1, <2>1, <2>3, FreeAccess
<1> QED BY <1>2, <1>3, <1>4

LEMMA LevelsSet ==
  ASSUME NEW u, Types(u)
  PROVE  /\ Types(UARTFlowCtrlTrigLvlConfig(u, {0, 3}, {2}))
         /\ SubMode(u) = "TCR_TLR" =>
              Only(u, UARTFlowCtrlTrigLvlConfig(u, {0, 3}, {2}), "TCR", {0, 3, 6})
<1> DEFINE bits == ({0, 3} \cap 0 .. 3) \cup (Shift({2}, 4) \cap 4 .. 7)
<1>1. bits = {0, 3, 6} /\ {0, 3, 6} \in SUBSET Int
  BY DEF Shift
<1>2. UARTFlowCtrlTrigLvlConfig(u, {0, 3}, {2}) = Write(u, "TCR", {0, 3, 6})
  BY <1>1 DEF UARTFlowCtrlTrigLvlConfig
<1>3. "TCR" \in UartRegisters \ Divisors /\ u \in UartRegs
  BY DEF UartRegisters, Divisors, Types
<1>4. Types(Write(u, "TCR", {0, 3, 6}))
  BY <1>1, <1>3, AwayFromDivisor
<1>5. ASSUME SubMode(u) = "TCR_TLR"
      PROVE  Only(u, Write(u, "TCR", {0, 3, 6}), "TCR", {0, 3, 6})
  <2>1. Reached(u, "TCR") = "TCR" /\ Protected(u, "TCR") = {}
    BY <1>5 DEF Reached, Protected
  <2> QED BY <1>1, <1>3, <2>1, FreeAccess
<1> QED BY <1>2, <1>4, <1>5

LEMMA TwoWrites ==
  ASSUME NEW u, Types(u), NEW r \in {"XON1", "XON2"}, NEW s \in {"XOFF1", "XOFF2"},
         (r = "XON1") <=> (s = "XOFF1"), NEW c \in SUBSET Int
  PROVE  /\ Types(Write(Write(u, r, c), s, c))
         /\ Mode(u) = "B" /\ SubMode(u) # "TCR_TLR" =>
              Write(Write(u, r, c), s, c) = [[u EXCEPT ![r] = c] EXCEPT ![s] = c]
<1> DEFINE v == Write(u, r, c)
           w == Write(v, s, c)
<1>1. r \in UartRegisters \ Divisors /\ s \in UartRegisters \ Divisors /\ u \in UartRegs
  BY DEF UartRegisters, Divisors, Types
<1>2. Types(v)
  BY <1>1, AwayFromDivisor
<1>3. ASSUME Mode(u) = "B", SubMode(u) # "TCR_TLR"
      PROVE  w = [[u EXCEPT ![r] = c] EXCEPT ![s] = c]
  <2>1. Reached(u, r) = r /\ Protected(u, r) = {}
    BY <1>3 DEF Reached, Protected
  <2>2. Only(u, v, r, c)
    BY <1>1, <2>1, FreeAccess
  <2> HIDE DEF v
  <2>3. v \in UartRegs /\ v["LCR"] = u["LCR"] /\ v["EFR"] = u["EFR"] /\ v["MCR"] = u["MCR"]
    BY <2>2 DEF Only, UartRegisters
  <2>4. Mode(v) = "B" /\ SubMode(v) # "TCR_TLR"
    BY <1>3, <2>3 DEF Mode, SubMode
  <2>5. Reached(v, s) = s /\ Protected(v, s) = {}
    BY <2>4 DEF Reached, Protected
  <2>6. Only(v, w, s, c)
    BY <1>1, <2>3, <2>5, FreeAccess
  <2>7. v = [u EXCEPT ![r] = c]
    BY <1>1, <2>2, OnlyOne
  <2>8. w = [v EXCEPT ![s] = c]
    BY <1>1, <2>3, <2>6, OnlyOne
  <2> QED BY <2>7, <2>8
<1> HIDE DEF v
<1>4. Types(w)
  BY <1>1, <1>2, AwayFromDivisor
<1> QED BY <1>3, <1>4 DEF v

LEMMA XonXoff ==
  ASSUME NEW u, Types(u), NEW c \in SUBSET Int
  PROVE  /\ Right(u, "UARTXON1XOFF1ValProgram", c, UARTXON1XOFF1ValProgram(u, c, c))
         /\ Right(u, "UARTXON2XOFF2ValProgram", c, UARTXON2XOFF2ValProgram(u, c, c))
<1>1. Right(u, "UARTXON1XOFF1ValProgram", c, UARTXON1XOFF1ValProgram(u, c, c))
  <2>1. Promise(u, "UARTXON1XOFF1ValProgram", c) = [[u EXCEPT !["XON1"] = c] EXCEPT !["XOFF1"] = c]
    BY FieldCallsAre DEF Promise, FieldNames
  <2>2. Reachable(u, "UARTXON1XOFF1ValProgram", c) => Mode(u) = "B" /\ SubMode(u) # "TCR_TLR"
    BY FieldCallsAre DEF Reachable, FieldNames
  <2> QED BY <2>1, <2>2, TwoWrites DEF UARTXON1XOFF1ValProgram, Right
<1>2. Right(u, "UARTXON2XOFF2ValProgram", c, UARTXON2XOFF2ValProgram(u, c, c))
  <2>1. Promise(u, "UARTXON2XOFF2ValProgram", c) = [[u EXCEPT !["XON2"] = c] EXCEPT !["XOFF2"] = c]
    BY FieldCallsAre DEF Promise, FieldNames
  <2>2. Reachable(u, "UARTXON2XOFF2ValProgram", c) => Mode(u) = "B" /\ SubMode(u) # "TCR_TLR"
    BY FieldCallsAre DEF Reachable, FieldNames
  <2> QED BY <2>1, <2>2, TwoWrites DEF UARTXON2XOFF2ValProgram, Right
<1> QED BY <1>1, <1>2

LEMMA XonAny ==
  ASSUME NEW u, Types(u), NEW flag
  PROVE  Right(u, "UARTXONAnyFeatureControl", flag, UARTXONAnyFeatureControl(u, flag))
<1> DEFINE e == Enter(u, "B")
           d == Program(e, "MCR", XonEn, flag)
           l == Leave(u, d)
<1>1. u \in UartRegs
  BY DEF Types
<1>2. e \in UartRegs /\ e["DLL"] = u["DLL"] /\ e["DLH"] = u["DLH"]
  BY <1>1, Entered DEF UartRegisters
<1>3. Types(e)
  BY <1>2 DEF Types
<1>4. l = UARTXONAnyFeatureControl(u, flag)
  BY DEF UARTXONAnyFeatureControl, Enhanced
<1> HIDE DEF e
<1>5. Types(d)
  BY <1>3, ProgramKeeps DEF UartRegisters, Divisors, XonEn
<1> HIDE DEF d
<1>6. l \in UartRegs /\ l["DLL"] = d["DLL"] /\ l["DLH"] = d["DLH"]
  BY <1>1, <1>5, Left DEF UartRegisters, Types
<1> HIDE DEF l
<1>7. Types(l)
  BY <1>5, <1>6 DEF Types
<1>8. ~ Reachable(u, "UARTXONAnyFeatureControl", flag)
  BY FieldCallsAre DEF Reachable, FieldNames
<1> QED BY <1>4, <1>7, <1>8 DEF Right

LEMMA FlowCallRight ==
  ASSUME Types(uart), FlowCall
  PROVE  Types(uart)' /\ CallAsAsked
<1> DEFINE Goal == Types(uart)' /\ CallAsAsked
<1>1. uart \in UartRegs
  BY DEF Types
<1>2. {"EFR", "WER", "MCR"} \subseteq UartRegisters \ {"DLL", "DLH"}
  BY DEF UartRegisters
<1> HIDE DEF Goal
<1>3. ASSUME NEW fn, fn \notin ReadNames, fn # "bwio_uart_setup", NEW x, NEW v, Does(fn, x, v),
             NEW r \in {"EFR", "WER", "MCR"}, NEW c, Only(uart, v, r, c),
             Promise(uart, fn, x) = SetTo(uart, r, c)
      PROVE  Goal
  BY <1>2, <1>3, OneRegister DEF Goal
<1>4. ASSUME NEW cts \in SUBSET {7}, NEW rts \in SUBSET {6},
             Does("UARTAutoRTSAutoCTSControl", cts \cup rts,
                  UARTAutoRTSAutoCTSControl(uart, cts, rts))
      PROVE  Goal
  <2>1. Only(uart, UARTAutoRTSAutoCTSControl(uart, cts, rts), "EFR",
             (uart["EFR"] \ AutoRtsCts) \cup ((cts \cup rts) \cap AutoRtsCts))
    BY <1>1, RtsCts
  <2>2. Promise(uart, "UARTAutoRTSAutoCTSControl", cts \cup rts)
          = SetTo(uart, "EFR", (uart["EFR"] \ AutoRtsCts) \cup ((cts \cup rts) \cap AutoRtsCts))
    BY EfrPromises
  <2> QED BY <1>3, <1>4, <2>1, <2>2 DEF ReadNames
<1>5. ASSUME NEW x,
             Does("UARTSpecialCharDetectControl", x, UARTSpecialCharDetectControl(uart, x))
      PROVE  Goal
  <2>1. Only(uart, UARTSpecialCharDetectControl(uart, x), "EFR",
             (uart["EFR"] \ SpecialChar) \cup (x \cap SpecialChar))
    BY <1>1, EfrCalls
  <2>2. Promise(uart, "UARTSpecialCharDetectControl", x)
          = SetTo(uart, "EFR", (uart["EFR"] \ SpecialChar) \cup (x \cap SpecialChar))
    BY EfrPromises
  <2> QED BY <1>3, <1>5, <2>1, <2>2 DEF ReadNames
<1>6. ASSUME NEW x,
             Does("UARTSoftwareFlowCtrlOptSet", x, UARTSoftwareFlowCtrlOptSet(uart, x))
      PROVE  Goal
  <2>1. Only(uart, UARTSoftwareFlowCtrlOptSet(uart, x), "EFR",
             (uart["EFR"] \ SwFlow) \cup (x \cap SwFlow))
    BY <1>1, EfrCalls
  <2>2. Promise(uart, "UARTSoftwareFlowCtrlOptSet", x)
          = SetTo(uart, "EFR", (uart["EFR"] \ SwFlow) \cup (x \cap SwFlow))
    BY EfrPromises
  <2> QED BY <1>3, <1>6, <2>1, <2>2 DEF ReadNames
<1>7. ASSUME NEW x \in SUBSET Int,
             Does("UARTWakeUpEventsEnable", x, UARTWakeUpEventsEnable(uart, x))
      PROVE  Goal
  <2>1. Only(uart, UARTWakeUpEventsEnable(uart, x), "WER", uart["WER"] \cup x)
    BY <1>1, WakeUpCalls
  <2>2. Promise(uart, "UARTWakeUpEventsEnable", x) = SetTo(uart, "WER", uart["WER"] \cup x)
    BY FlowPromises
  <2> QED BY <1>3, <1>7, <2>1, <2>2 DEF ReadNames
<1>8. ASSUME NEW x \in SUBSET Int,
             Does("UARTWakeUpEventsDisable", x, UARTWakeUpEventsDisable(uart, x))
      PROVE  Goal
  <2>1. Only(uart, UARTWakeUpEventsDisable(uart, x), "WER", uart["WER"] \ x)
    BY <1>1, WakeUpCalls
  <2>2. Promise(uart, "UARTWakeUpEventsDisable", x) = SetTo(uart, "WER", uart["WER"] \ x)
    BY FlowPromises
  <2> QED BY <1>3, <1>8, <2>1, <2>2 DEF ReadNames
<1>9. ASSUME NEW x \in SUBSET ModemLines,
             Does("UARTModemControlSet", x, UARTModemControlSet(uart, x))
      PROVE  Goal
  <2>1. Reachable(uart, "UARTModemControlSet", x) => Mode(uart) # "B"
    BY FieldCallsAre DEF Reachable, FieldNames
  <2>2. Promise(uart, "UARTModemControlSet", x) = SetTo(uart, "MCR", uart["MCR"] \cup x)
    BY FlowPromises
  <2>3. Types(UARTModemControlSet(uart, x))
    BY ModemLinesSet
  <2>4. Mode(uart) # "B" =>
          Only(uart, UARTModemControlSet(uart, x), "MCR", uart["MCR"] \cup x)
    BY ModemLinesSet
  <2> QED BY <1>2, <1>9, <2>1, <2>2, <2>3, <2>4, OneRegisterWhen DEF ReadNames, Goal
<1>10. ASSUME NEW x \in SUBSET ModemLines,
             Does("UARTModemControlClear", x, UARTModemControlClear(uart, x))
      PROVE  Goal
  <2>1. Reachable(uart, "UARTModemControlClear", x) => Mode(uart) # "B"
    BY FieldCallsAre DEF Reachable, FieldNames
  <2>2. Promise(uart, "UARTModemControlClear", x) = SetTo(uart, "MCR", uart["MCR"] \ x)
    BY FlowPromises
  <2>3. Types(UARTModemControlClear(uart, x))
    BY ModemLinesSet
  <2>4. Mode(uart) # "B" =>
          Only(uart, UARTModemControlClear(uart, x), "MCR", uart["MCR"] \ x)
    BY ModemLinesSet
  <2> QED BY <1>2, <1>10, <2>1, <2>2, <2>3, <2>4, OneRegisterWhen DEF ReadNames, Goal
<1>11. ASSUME Does("UARTFlowCtrlTrigLvlConfig", {0, 3, 6},
                   UARTFlowCtrlTrigLvlConfig(uart, {0, 3}, {2}))
       PROVE  Goal
  <2> DEFINE x == {0, 3, 6}
             v == UARTFlowCtrlTrigLvlConfig(uart, {0, 3}, {2})
  <2>1. Types(v) /\ (SubMode(uart) = "TCR_TLR" => Only(uart, v, "TCR", x))
    BY LevelsSet
  <2>2. Does("UARTFlowCtrlTrigLvlConfig", x, v)
    BY <1>11
  <2>3. "TCR" \in UartRegisters
    BY DEF UartRegisters
  <2> HIDE DEF x, v
  <2>4. Reachable(uart, "UARTFlowCtrlTrigLvlConfig", x) => SubMode(uart) = "TCR_TLR"
    BY FieldCallsAre DEF Reachable, FieldNames
  <2>5. Promise(uart, "UARTFlowCtrlTrigLvlConfig", x) = SetTo(uart, "TCR", x)
    BY FlowPromises
  <2> QED BY <2>1, <2>2, <2>3, <2>4, <2>5, OneRegisterWhen DEF ReadNames, Goal
<1>12. ASSUME NEW c \in SUBSET Int,
              \/ Does("UARTXON1XOFF1ValProgram", c, UARTXON1XOFF1ValProgram(uart, c, c))
              \/ Does("UARTXON2XOFF2ValProgram", c, UARTXON2XOFF2ValProgram(uart, c, c))
       PROVE  Goal
  BY <1>12, XonXoff, OneCall DEF ReadNames, Goal
<1>13. ASSUME NEW x, Does("UARTXONAnyFeatureControl", x, UARTXONAnyFeatureControl(uart, x))
       PROVE  Goal
  BY <1>13, XonAny, OneCall DEF ReadNames, Goal
<1>14. ASSUME NEW a \in SUBSET Int, NEW l \in SUBSET ModemLines, NEW b, NEW e \in SUBSET Int,
              \/ Does("UARTSpecialCharDetectControl", a, UARTSpecialCharDetectControl(uart, a))
              \/ Does("UARTSoftwareFlowCtrlOptSet", b, UARTSoftwareFlowCtrlOptSet(uart, b))
              \/ Does("UARTXONAnyFeatureControl", a, UARTXONAnyFeatureControl(uart, a))
              \/ Does("UARTModemControlSet", l, UARTModemControlSet(uart, l))
              \/ Does("UARTModemControlClear", l, UARTModemControlClear(uart, l))
              \/ Does("UARTWakeUpEventsEnable", e, UARTWakeUpEventsEnable(uart, e))
              \/ Does("UARTWakeUpEventsDisable", e, UARTWakeUpEventsDisable(uart, e))
       PROVE  Goal
  BY <1>5, <1>6, <1>7, <1>8, <1>9, <1>10, <1>13, <1>14
<1>15. ASSUME NEW on \in BOOLEAN
       PROVE  /\ (IF on THEN {5} ELSE {}) \in SUBSET Int
              /\ (IF on THEN {1} ELSE {}) \in SUBSET ModemLines
              /\ (IF on THEN {2} ELSE {}) \in SUBSET Int
  BY DEF ModemLines
<1>16. CASE \E on \in BOOLEAN :
               LET If(bits) == IF on THEN bits ELSE {} IN
               \/ Does("UARTSpecialCharDetectControl", If({5}),
                       UARTSpecialCharDetectControl(uart, If({5})))
               \/ Does("UARTSoftwareFlowCtrlOptSet", If({1, 3}),
                       UARTSoftwareFlowCtrlOptSet(uart, If({1, 3})))
               \/ Does("UARTXONAnyFeatureControl", If({5}),
                       UARTXONAnyFeatureControl(uart, If({5})))
               \/ Does("UARTModemControlSet", If({1}), UARTModemControlSet(uart, If({1})))
               \/ Does("UARTModemControlClear", If({1}), UARTModemControlClear(uart, If({1})))
               \/ Does("UARTWakeUpEventsEnable", If({2}), UARTWakeUpEventsEnable(uart, If({2})))
               \/ Does("UARTWakeUpEventsDisable", If({2}), UARTWakeUpEventsDisable(uart, If({2})))
  <2>1. PICK on \in BOOLEAN :
          LET If(bits) == IF on THEN bits ELSE {} IN
          \/ Does("UARTSpecialCharDetectControl", If({5}),
                  UARTSpecialCharDetectControl(uart, If({5})))
          \/ Does("UARTSoftwareFlowCtrlOptSet", If({1, 3}),
                  UARTSoftwareFlowCtrlOptSet(uart, If({1, 3})))
          \/ Does("UARTXONAnyFeatureControl", If({5}),
                  UARTXONAnyFeatureControl(uart, If({5})))
          \/ Does("UARTModemControlSet", If({1}), UARTModemControlSet(uart, If({1})))
          \/ Does("UARTModemControlClear", If({1}), UARTModemControlClear(uart, If({1})))
          \/ Does("UARTWakeUpEventsEnable", If({2}), UARTWakeUpEventsEnable(uart, If({2})))
          \/ Does("UARTWakeUpEventsDisable", If({2}), UARTWakeUpEventsDisable(uart, If({2})))
    BY <1>16
  <2> DEFINE a == IF on THEN {5} ELSE {}
             b == IF on THEN {1, 3} ELSE {}
             l == IF on THEN {1} ELSE {}
             e == IF on THEN {2} ELSE {}
  <2>2. a \in SUBSET Int /\ l \in SUBSET ModemLines /\ e \in SUBSET Int
    BY <1>15
  <2>3. \/ Does("UARTSpecialCharDetectControl", a, UARTSpecialCharDetectControl(uart, a))
        \/ Does("UARTSoftwareFlowCtrlOptSet", b, UARTSoftwareFlowCtrlOptSet(uart, b))
        \/ Does("UARTXONAnyFeatureControl", a, UARTXONAnyFeatureControl(uart, a))
        \/ Does("UARTModemControlSet", l, UARTModemControlSet(uart, l))
        \/ Does("UARTModemControlClear", l, UARTModemControlClear(uart, l))
        \/ Does("UARTWakeUpEventsEnable", e, UARTWakeUpEventsEnable(uart, e))
        \/ Does("UARTWakeUpEventsDisable", e, UARTWakeUpEventsDisable(uart, e))
    BY <2>1, Zenon
  <2> HIDE DEF a, b, l, e
  <2>4. Goal
    BY <1>14, <2>2, <2>3
  <2> QED BY <2>4 DEF Goal
<1>17. /\ {{}, {7}} \subseteq SUBSET {7} /\ {{}, {6}} \subseteq SUBSET {6} /\ {0} \in SUBSET Int
  OBVIOUS
<1> QED BY <1>4, <1>11, <1>12, <1>16, <1>17 DEF FlowCall, Goal

\* The fields that are programmed in the caller's mode

FieldFact(f) ==
    /\ f.reg \in {"SYSC", "SCR", "MDR3", "DMATHR", "MDR2", "MCR", "SSR", "SPR"}
    /\ f.field \in SUBSET Int
    /\ f.reg = "MCR" => f.field = {4}

LEMMA FieldsAre ==
  ASSUME NEW fn \in FieldCalls
  PROVE  FieldFact(FieldOf(fn))
<1>1. PICK t \in FieldTables : fn \in DOMAIN t /\ FieldOf(fn) = t[fn]
  BY DEF FieldCalls, FieldOf
<1>2. ASSUME NEW f \in DOMAIN SyscFields PROVE FieldFact(SyscFields[f])
  BY DEF SyscFields, FieldFact
<1>3. ASSUME NEW f \in DOMAIN ScrFields PROVE FieldFact(ScrFields[f])
  BY DEF ScrFields, FieldFact
<1>4. ASSUME NEW f \in DOMAIN ThresholdFields PROVE FieldFact(ThresholdFields[f])
  BY DEF ThresholdFields, FieldFact
<1>5. ASSUME NEW f \in DOMAIN OtherFields PROVE FieldFact(OtherFields[f])
  BY DEF OtherFields, FieldFact, Loopback
<1> QED BY <1>1, <1>2, <1>3, <1>4, <1>5 DEF FieldTables

LEMMA FieldProgrammed ==
  ASSUME NEW u \in UartRegs, NEW f, FieldFact(f), NEW value, Reached(u, f.reg) = f.reg
  PROVE  Only(u, Program(u, f.reg, f.field, value), f.reg,
              (u[f.reg] \ f.field) \cup (value \cap f.field))
<1> DEFINE r == f.reg
           field == f.field
<1>1. field \in SUBSET Int /\ (r = "MCR" => field = {4})
  BY DEF FieldFact
<1>2. r \in OwnOffset \/ r = "MCR" \/ r = "SPR"
  BY DEF FieldFact, OwnOffset
<1>3. Reached(u, r) = r
  OBVIOUS
<1> HIDE DEF r, field
<1>4. CASE r \in OwnOffset
  BY <1>1, <1>4, OwnOffsetAccess DEF r, field
<1>5. CASE r = "MCR"
  <2>1. ASSUME NEW v, Reached(v, "MCR") = "MCR"
        PROVE  Protected(v, "MCR") \cap field = {}
    <3>1. Protected(v, "MCR") \subseteq 5 .. 7
      BY DEF Protected
    <3> QED BY <1>1, <1>5, <3>1
  <2>2. ASSUME NEW v, Only(u, v, "MCR", u["MCR"] \ field)
        PROVE  Reached(v, "MCR") = "MCR"
    <3>1. v["LCR"] = u["LCR"]
      BY <2>2 DEF Only, UartRegisters
    <3>2. Mode(v) = Mode(u)
      BY <3>1 DEF Mode
    <3> QED BY <1>3, <1>5, <3>2 DEF Reached
  <2>3. "MCR" \in UartRegisters
    BY DEF UartRegisters
  <2> QED BY <1>1, <1>3, <1>5, <2>1, <2>2, <2>3, ProgramHits, SMTT(30) DEF r, field
<1>6. CASE r = "SPR"
  <2>1. ASSUME NEW v
        PROVE  Protected(v, "SPR") \cap field = {}
    BY DEF Protected
  <2>2. ASSUME NEW v, Only(u, v, "SPR", u["SPR"] \ field)
        PROVE  Reached(v, "SPR") = "SPR"
    <3>1. v["LCR"] = u["LCR"] /\ v["EFR"] = u["EFR"] /\ v["MCR"] = u["MCR"]
      BY <2>2 DEF Only, UartRegisters
    <3>2. Mode(v) = Mode(u) /\ SubMode(v) = SubMode(u)
      BY <3>1 DEF Mode, SubMode
    <3> QED BY <1>3, <1>6, <3>2 DEF Reached
  <2>3. "SPR" \in UartRegisters
    BY DEF UartRegisters
  <2> QED BY <1>1, <1>3, <1>6, <2>1, <2>2, <2>3, ProgramHits DEF r, field
<1> QED BY <1>2, <1>4, <1>5, <1>6

LEMMA FieldCallRight ==
  ASSUME Types(uart), FieldCall
  PROVE  Types(uart)' /\ CallAsAsked
<1>1. PICK fn \in FieldCalls, x \in {{}, 0 .. 7} :
         Does(fn, x, Program(uart, FieldOf(fn).reg, FieldOf(fn).field, x))
  BY DEF FieldCall
<1> DEFINE f == FieldOf(fn)
           v == Program(uart, f.reg, f.field, x)
           c == (uart[f.reg] \ f.field) \cup (x \cap f.field)
<1>2. FieldFact(f)
  BY FieldsAre
<1>3. fn \notin ReadNames /\ fn # "bwio_uart_setup"
  BY FieldCallsAre DEF ReadNames, FieldNames
<1>4. Does(fn, x, v)
  BY <1>1
<1>5. Promise(uart, fn, x) = Field(uart, f.reg, f.field, x)
  BY FieldCallsAre DEF Promise, FieldNames
<1>6. Reachable(uart, fn, x) <=> Reached(uart, f.reg) = f.reg
  BY FieldCallsAre DEF Reachable, FieldNames
<1> HIDE DEF f, v
<1>7. f.reg \in UartRegisters \ Divisors /\ f.field \in SUBSET Int /\ f.reg \in UartRegisters
  BY <1>2 DEF FieldFact, UartRegisters, Divisors
<1>8. Types(v)
  BY <1>7, ProgramKeeps DEF v
<1>9. Promise(uart, fn, x) = SetTo(uart, f.reg, c)
  BY <1>5 DEF Field, SetTo
<1>10. Reachable(uart, fn, x) => Only(uart, v, f.reg, c)
  BY <1>2, <1>6, FieldProgrammed DEF Types, v
<1> HIDE DEF c
<1> QED BY <1>3, <1>4, <1>7, <1>8, <1>9, <1>10, OneRegisterWhen

\* What is read

ReadFact(f) ==
    \/ f.in = "any"
    \/ f.in = "operational" /\ f.reg \in {"LSR", "RHR", "IIR"}
    \/ f.in = "A" /\ f.reg = "UASR"

LEMMA ReadsAre ==
  ASSUME NEW fn \in ReadCalls
  PROVE  ReadFact(ReadOf(fn))
<1>1. PICK t \in ReadTables : fn \in DOMAIN t /\ ReadOf(fn) = t[fn]
  BY DEF ReadCalls, ReadOf
<1>2. ASSUME NEW f \in DOMAIN LsrReads PROVE ReadFact(LsrReads[f])
  BY DEF LsrReads, ReadFact
<1>3. ASSUME NEW f \in DOMAIN CharReads PROVE ReadFact(CharReads[f])
  BY DEF CharReads, ReadFact
<1>4. ASSUME NEW f \in DOMAIN IirReads PROVE ReadFact(IirReads[f])
  BY DEF IirReads, ReadFact
<1>5. ASSUME NEW f \in DOMAIN StatusReads PROVE ReadFact(StatusReads[f])
  BY DEF StatusReads, ReadFact
<1>6. ASSUME NEW f \in DOMAIN SsrReads PROVE ReadFact(SsrReads[f])
  BY DEF SsrReads, ReadFact
<1>7. ASSUME NEW f \in DOMAIN AutobaudReads PROVE ReadFact(AutobaudReads[f])
  BY DEF AutobaudReads, ReadFact
<1>8. ASSUME NEW f \in DOMAIN OtherReads PROVE ReadFact(OtherReads[f])
  BY DEF OtherReads, ReadFact
<1> QED BY <1>1, <1>2, <1>3, <1>4, <1>5, <1>6, <1>7, <1>8 DEF ReadTables

LEMMA RegisterFound ==
  ASSUME NEW u \in UartRegs, NEW f, ReadFact(f), f.in # "any"
  PROVE  Found(u, f.in, f.reg) = f.reg
<1>1. CASE f.in = "operational" /\ f.reg \in {"LSR", "RHR", "IIR"}
  <2> DEFINE v == UARTRegConfigModeEnable(u, "operational")
  <2>1. Mode(v) = "operational"
    BY ModeChosen
  <2>2. Found(u, f.in, f.reg) = ReachedByRead(v, f.reg)
    BY <1>1 DEF Found
  <2> HIDE DEF v
  <2> QED BY <1>1, <2>1, <2>2 DEF ReachedByRead, Reached
<1>2. CASE f.in = "A" /\ f.reg = "UASR"
  <2> DEFINE v == UARTRegConfigModeEnable(u, "A")
  <2>1. Mode(v) = "A"
    BY ModeChosen
  <2>2. Found(u, f.in, f.reg) = ReachedByRead(v, f.reg)
    BY <1>2 DEF Found
  <2> HIDE DEF v
  <2> QED BY <1>2, <2>1, <2>2 DEF ReachedByRead
<1> QED BY <1>1, <1>2 DEF ReadFact

LEMMA ReadsPromiseNothing ==
  ASSUME NEW u, NEW x, NEW fn \in ReadNames
  PROVE  Promise(u, fn, x) = u
BY FieldCallsAre DEF Promise, FieldNames, ReadNames

LEMMA ReadCallRight ==
  ASSUME Types(uart), ReadCall
  PROVE  Types(uart)' /\ CallAsAsked
<1>1. PICK fn \in ReadCalls : Reads(fn, ReadOf(fn).in, ReadOf(fn).reg, ReadOf(fn).field)
  BY DEF ReadCall
<1> DEFINE f == ReadOf(fn)
<1>2. /\ uart' = uart /\ asked' = [fn |-> fn, arg |-> {}]
      /\ read' = [reg |-> Found(uart, f.in, f.reg), field |-> f.field]
  BY <1>1 DEF Reads
<1>3. ReadFact(f)
  BY ReadsAre
<1>4. Promise(uart, fn, {}) = uart
  BY ReadCallsAre, ReadsPromiseNothing
<1>5. fn # "bwio_uart_setup"
  BY ReadCallsAre DEF ReadNames
<1>6. f.in # "any" => Found(uart, f.in, f.reg) = f.reg
  BY <1>3, RegisterFound DEF Types
<1>7. asked'.fn = fn /\ asked'.arg = {}
  BY <1>2
<1>8. Types(uart)'
  BY <1>2 DEF Types
<1> QED BY <1>2, <1>4, <1>5, <1>6, <1>7, <1>8 DEF CallAsAsked

\* The console

LEMMA DivisorOfConsole ==
  /\ ConsoleDivisor = BitsOf(26)
  /\ BitsOf(26) \in SUBSET Int
  /\ Low(BitsOf(26)) = BitsOf(26)
  /\ High(BitsOf(26)) = {}
<1>1. UARTDivisorValCompute(48000000, 115200, "16x", 42) = 26
  BY DEF UARTDivisorValCompute
<1>2. ASSUME NEW b \in 8 .. 13
      PROVE  b \notin BitsOf(26)
  <2>1. CASE b = 8
    BY <2>1 DEF BitsOf
  <2>2. CASE b = 9
    BY <2>2 DEF BitsOf
  <2>3. CASE b = 10
    BY <2>3 DEF BitsOf
  <2>4. CASE b = 11
    BY <2>4 DEF BitsOf
  <2>5. CASE b = 12
    BY <2>5 DEF BitsOf
  <2>6. CASE b = 13
    BY <2>6 DEF BitsOf
  <2> QED BY <2>1, <2>2, <2>3, <2>4, <2>5, <2>6
<1>3. BitsOf(26) \subseteq 0 .. 13
  BY DEF BitsOf
<1>4. BitsOf(26) \subseteq 0 .. 7 /\ BitsOf(26) \cap 8 .. 13 = {}
  BY <1>2, <1>3
<1>5. ConsoleDivisor = BitsOf(26)
  BY <1>1 DEF ConsoleDivisor
<1>6. Low(BitsOf(26)) = BitsOf(26) /\ High(BitsOf(26)) = {}
  BY <1>4 DEF Low, High, Shift
<1> QED BY <1>3, <1>5, <1>6

LEMMA ResetState ==
  ASSUME NEW u
  PROVE  /\ Types(UARTModuleReset(u)) /\ UARTModuleReset(u)["MDR1"] = ModeSelect
         /\ \A r \in UartRegisters \ {"MDR1"} : UARTModuleReset(u)[r] = {}
BY DEF Types, UartRegs, UARTModuleReset, UartRegisters, ModeSelect

LEMMA ConsoleSetUp ==
  ASSUME NEW u
  PROVE  Types(bwio_uart_setup(u))
         /\ bwio_uart_setup(u)
              = [[[UARTModuleReset(u) EXCEPT !["LCR"] = {0, 1}] EXCEPT !["MDR1"] = {}]
                    EXCEPT !["DLL"] = BitsOf(26)]
<1> DEFINE u0    == UARTModuleReset(u)
           rate  == UARTDivisorLatchWrite(u0, ConsoleDivisor)
           inB   == UARTRegConfigModeEnable(rate, "B")
           frame == UARTLineCharacConfig(inB, {0, 1}, {})
           data  == UARTDivisorLatchDisable(frame)
           brk   == UARTBreakCtl(data, {})
           end   == UARTOperatingModeSelect(brk, {})
<1>1. end = bwio_uart_setup(u)
  BY DEF bwio_uart_setup
<1>2. /\ u0 \in UartRegs /\ u0["MDR1"] = ModeSelect
      /\ \A r \in UartRegisters \ {"MDR1"} : u0[r] = {}
  BY ResetState DEF Types
<1> HIDE DEF u0
<1>3. /\ rate \in UartRegs /\ rate["DLL"] = BitsOf(26) /\ rate["DLH"] = {}
      /\ \A r \in UartRegisters \ {"DLL", "DLH"} : rate[r] = u0[r]
  BY <1>2, DivisorWritten, DivisorOfConsole
<1> HIDE DEF rate
<1>4. Only(rate, inB, "LCR", ModeB)
  BY <1>3, ModeChosen DEF LcrOf
<1> HIDE DEF inB
<1>5. inB \in UartRegs /\ inB["LCR"] = ModeB
  BY <1>4 DEF Only
<1>6. Only(inB, frame, "LCR", {0, 1, 7})
  <2>1. {0, 1} \subseteq StopLength /\ {} \subseteq Parity
    BY DEF StopLength
  <2>2. Only(inB, frame, "LCR", (inB["LCR"] \ (StopLength \cup Parity))
                \cup (({0, 1} \cup {}) \cap (StopLength \cup Parity)))
    BY <1>5, <2>1, LcrCalls
  <2>3. (inB["LCR"] \ (StopLength \cup Parity))
           \cup (({0, 1} \cup {}) \cap (StopLength \cup Parity)) = {0, 1, 7}
    BY <1>5 DEF StopLength, Parity, ModeB
  <2> QED BY <2>2, <2>3
<1> HIDE DEF frame
<1>7. frame \in UartRegs /\ frame["LCR"] = {0, 1, 7}
  BY <1>6 DEF Only
<1>8. Only(frame, data, "LCR", {0, 1})
  <2>1. Only(frame, data, "LCR", frame["LCR"] \ DivEn)
    BY <1>7, LcrOthers
  <2>2. frame["LCR"] \ DivEn = {0, 1}
    BY <1>7 DEF DivEn
  <2> QED BY <2>1, <2>2
<1> HIDE DEF data
<1>9. data \in UartRegs /\ data["LCR"] = {0, 1}
  BY <1>8 DEF Only
<1>10. Only(data, brk, "LCR", {0, 1})
  <2>1. Only(data, brk, "LCR", (data["LCR"] \ BreakEn) \cup ({} \cap BreakEn))
    BY <1>9, LcrOthers
  <2>2. (data["LCR"] \ BreakEn) \cup ({} \cap BreakEn) = {0, 1}
    BY <1>9 DEF BreakEn
  <2> QED BY <2>1, <2>2
<1> HIDE DEF brk
<1>11. brk["MDR1"] = ModeSelect /\ brk \in UartRegs
  <2>1. "MDR1" \in UartRegisters \ {"LCR", "DLL", "DLH"}
    BY DEF UartRegisters
  <2> QED BY <1>2, <1>3, <1>4, <1>6, <1>8, <1>10, <2>1 DEF Only
<1>12. Only(brk, end, "MDR1", {})
  <2>1. Only(brk, end, "MDR1", (brk["MDR1"] \ ModeSelect) \cup ({} \cap ModeSelect))
    BY <1>11, OperatingMode
  <2>2. (brk["MDR1"] \ ModeSelect) \cup ({} \cap ModeSelect) = {}
    BY <1>11
  <2> QED BY <2>1, <2>2
<1> HIDE DEF end
<1>13. Only(rate, brk, "LCR", {0, 1})
  BY <1>4, <1>6, <1>8, <1>10 DEF Only
<1>14. "LCR" \in UartRegisters /\ "MDR1" \in UartRegisters /\ "DLL" \in UartRegisters
  BY DEF UartRegisters
<1>15. /\ end \in UartRegs /\ end["LCR"] = {0, 1} /\ end["MDR1"] = {}
       /\ end["DLL"] = BitsOf(26) /\ end["DLH"] = {}
       /\ \A r \in UartRegisters \ {"LCR", "MDR1", "DLL"} : end[r] = u0[r]
  <2>1. end \in UartRegs /\ end["MDR1"] = {}
    BY <1>12 DEF Only
  <2>2. end["LCR"] = {0, 1}
    BY <1>12, <1>13, <1>14 DEF Only
  <2>3. \A r \in UartRegisters \ {"LCR", "MDR1"} : end[r] = rate[r]
    BY <1>12, <1>13 DEF Only
  <2>4. "DLH" \in UartRegisters
    BY DEF UartRegisters
  <2>5. end["DLL"] = BitsOf(26) /\ end["DLH"] = {}
    BY <1>3, <1>14, <2>3, <2>4
  <2>6. \A r \in UartRegisters \ {"LCR", "MDR1", "DLL", "DLH"} : end[r] = u0[r]
    BY <1>3, <2>3
  <2>7. end["DLH"] = u0["DLH"]
    BY <1>2, <2>4, <2>5
  <2> QED BY <2>1, <2>2, <2>5, <2>6, <2>7
<1>16. end = [[[u0 EXCEPT !["LCR"] = {0, 1}] EXCEPT !["MDR1"] = {}] EXCEPT !["DLL"] = BitsOf(26)]
  BY <1>2, <1>14, <1>15 DEF UartRegs
<1>17. BitsOf(26) \subseteq 0 .. 7
  BY DivisorOfConsole DEF Low
<1>18. Types(end)
  BY <1>15, <1>17 DEF Types
<1> QED BY <1>1, <1>16, <1>18 DEF u0

LEMMA SetupCallRight ==
  ASSUME Types(uart), SetupCall
  PROVE  Types(uart)' /\ CallAsAsked
<1>1. CASE Does("UARTModuleReset", {}, UARTModuleReset(uart))
  <2>1. uart' = UARTModuleReset(uart) /\ asked'.fn = "UARTModuleReset"
    BY <1>1 DEF Does
  <2>2. Types(uart)'
    BY <2>1, ResetState DEF Types
  <2>3. "UARTModuleReset" \notin ReadCalls
    BY ReadCallsAre DEF ReadNames
  <2> QED BY <2>1, <2>2, <2>3 DEF CallAsAsked
<1>2. CASE Does("bwio_uart_setup", {}, bwio_uart_setup(uart))
  <2>1. uart' = bwio_uart_setup(uart) /\ asked'.fn = "bwio_uart_setup"
    BY <1>2 DEF Does
  <2>2. Types(uart)'
    BY <2>1, ConsoleSetUp DEF Types
  <2>3. "bwio_uart_setup" \notin ReadCalls
    BY ReadCallsAre DEF ReadNames
  <2>4. uart' = ConsoleReady
    BY <2>1, ConsoleSetUp DEF ConsoleReady
  <2> QED BY <2>1, <2>2, <2>3, <2>4 DEF CallAsAsked
<1> QED BY <1>1, <1>2 DEF SetupCall

\* Whatever mode the UART is in, every function of the driver changes exactly
\* the fields it is for and puts back the mode and the protection bits that it
\* changed on the way (drv_uart.c), and bwio_uart_setup leaves the console ready.
THEOREM UartObeys == UartSpec => UartAsAsked
<1>1. UartInit => Types(uart)
  <2>1. SUFFICES ASSUME UartInit PROVE Types(uart)
    OBVIOUS
  <2>2. PICK lcr \in {{0, 1}, ModeA, ModeB}, efr \in {{}, EnhancedEn}, mcr \in {{}, TcrTlr},
             ier \in {{}, Sleep} :
          uart = [r \in UartRegisters |->
                     CASE r = "LCR" -> lcr [] r = "EFR" -> efr [] r = "MCR" -> mcr
                       [] r = "IER" -> ier [] r = "DLL" -> {1, 3, 4}
                       [] OTHER -> {}]
    BY <2>1 DEF UartInit
  <2>3. lcr \subseteq Int /\ efr \subseteq Int /\ mcr \subseteq Int /\ ier \subseteq Int
    BY DEF ModeA, ModeB, EnhancedEn, TcrTlr, Sleep
  <2>4. uart \in UartRegs
    BY <2>2, <2>3 DEF UartRegs
  <2>5. uart["DLL"] = {1, 3, 4} /\ uart["DLH"] = {}
    BY <2>2 DEF UartRegisters
  <2> QED BY <2>4, <2>5 DEF Types
<1>2. Types(uart) /\ [UartNext]_uartVars => Types(uart)' /\ [CallAsAsked]_uartVars
  <2> SUFFICES ASSUME Types(uart), [UartNext]_uartVars
               PROVE  Types(uart)' /\ [CallAsAsked]_uartVars
    OBVIOUS
  <2>1. CASE UartNext
    BY <2>1, ModeCallRight, FrameCallRight, FifoCallRight, InterruptCallRight, CharCallRight,
       FlowCallRight, FieldCallRight, ReadCallRight, SetupCallRight DEF UartNext
  <2>2. CASE UNCHANGED uartVars
    BY <2>2 DEF uartVars, Types
  <2> QED BY <2>1, <2>2
<1> QED BY <1>1, <1>2, PTL DEF UartSpec, UartAsAsked

-----------------------------------------------------------------------------
(* The clock tree *)

Control == {"SW_WKUP", "ENABLE", "OPTFCLKEN", "OSC", "OTHER"}

Clocks == {"L3S_GCLK", "L3_GCLK", "OCPWP_L3_GCLK", "OCPWP_L4_GCLK", "L4LS_GCLK", "L4_WKUP_GCLK",
           "L3_AON_GCLK", "L4_WKUP_AON_GCLK", "UART0_GFCLK", "TIMER2_GCLK", "TIMER3_GCLK",
           "GPIO_1_GDBCLK"}

Fields == Control \cup {"FUNC"} \cup Clocks

\* A line of a script: what it writes are fields that the processor owns.
ScriptLines == {e \in [op : {"put", "or", "without", "await"}, reg : PrcmRegs, flags : SUBSET Fields] :
             e.op # "await" => e.flags \subseteq Control}

\* What holds once the line is done
Sets(e) == {f \in e.flags : e.op \in {"put", "or"} \/ (e.op = "await" /\ e.flags = {f})}

Resets(e) == e.op \in {"put", "without"}

\* The fields that the first k - 1 lines of a script have seen to
GivenBefore(s, k) == UNION {{<<s[j].reg, f>> : f \in Sets(s[j])} : j \in 1 .. k - 1}

Given(s) == GivenBefore(s, Len(s) + 1)

\* With the fields of S, what the line waits for is there or can come.
Justified(S, e) ==
    \/ \E f \in e.flags : <<e.reg, f>> \in S
    \/ /\ e.reg \in DOMAIN DomainClocks /\ e.flags \cap DomainClocks[e.reg] # {}
       /\ <<e.reg, "SW_WKUP">> \in S
    \/ \E m \in DOMAIN OwnClock :
          /\ e.reg = ModuleDomain[m] /\ OwnClock[m][1] \in e.flags
          /\ <<m, "ENABLE">> \in S /\ <<OwnClock[m][2], OwnClock[m][3]>> \in S
    \/ /\ e.reg \in DOMAIN ModuleDomain /\ "FUNC" \in e.flags
       /\ <<e.reg, "ENABLE">> \in S /\ <<ModuleDomain[e.reg], "SW_WKUP">> \in S
       /\ e.reg \in {"TIMER2", "TIMER3"} => <<OwnClock[e.reg][2], "OSC">> \in S

\* From a state with the fields of S, each wait of the script is justified.
Justifies(S, s) == \A k \in 1 .. Len(s) :
    s[k].op = "await" => Justified(S \cup GivenBefore(s, k), s[k])

\* A line that takes fields away is the first on its register.
Fresh(s) == \A i, j \in 1 .. Len(s) : j < i /\ Resets(s[i]) => s[j].reg # s[i].reg

\* The script s, from the fields of S on, sees to those of G; it resets only
\* registers in R and touches only those in U.
Script(s, S, G, R, U) ==
    /\ s \in Seq(ScriptLines)
    /\ Justifies(S, s)
    /\ Fresh(s)
    /\ G \subseteq Given(s)
    /\ \A i \in 1 .. Len(s) : s[i].reg \in U /\ (Resets(s[i]) => s[i].reg \in R)

LEMMA JustifiedMore == ASSUME NEW S, NEW T, NEW e, S \subseteq T, Justified(S, e)
                       PROVE  Justified(T, e)
BY DEF Justified

LEMMA GivenConcat ==
    ASSUME NEW s \in Seq(ScriptLines), NEW t \in Seq(ScriptLines)
    PROVE  /\ \A k \in 1 .. Len(s) + 1 : GivenBefore(s, k) \subseteq GivenBefore(s \o t, k)
           /\ \A k \in 1 .. Len(t) + 1 :
                 Given(s) \cup GivenBefore(t, k) \subseteq GivenBefore(s \o t, Len(s) + k)
<1>0. Len(s) \in Nat /\ Len(t) \in Nat /\ Len(s \o t) = Len(s) + Len(t)
  OBVIOUS
<1>1. \A j \in 1 .. Len(s) : (s \o t)[j] = s[j]
  OBVIOUS
<1>2. \A j \in 1 .. Len(t) : (s \o t)[Len(s) + j] = t[j]
  OBVIOUS
<1>3. ASSUME NEW k \in 1 .. Len(s) + 1 PROVE GivenBefore(s, k) \subseteq GivenBefore(s \o t, k)
  <2> SUFFICES ASSUME NEW p \in GivenBefore(s, k) PROVE p \in GivenBefore(s \o t, k)
    OBVIOUS
  <2>1. PICK j \in 1 .. k - 1 : p \in {<<s[j].reg, f>> : f \in Sets(s[j])}
    BY DEF GivenBefore
  <2>2. (s \o t)[j] = s[j]
    BY <1>0, <1>1
  <2> QED BY <2>1, <2>2 DEF GivenBefore
<1>4. ASSUME NEW k \in 1 .. Len(t) + 1
      PROVE  Given(s) \cup GivenBefore(t, k) \subseteq GivenBefore(s \o t, Len(s) + k)
  <2>1. ASSUME NEW p \in Given(s) PROVE p \in GivenBefore(s \o t, Len(s) + k)
    <3>1. PICK j \in 1 .. Len(s) : p \in {<<s[j].reg, f>> : f \in Sets(s[j])}
      BY <2>1, <1>0 DEF Given, GivenBefore
    <3>2. (s \o t)[j] = s[j] /\ j \in 1 .. (Len(s) + k) - 1
      BY <1>0, <1>1
    <3> QED BY <3>1, <3>2, SMTT(30) DEF GivenBefore
  <2>2. ASSUME NEW p \in GivenBefore(t, k) PROVE p \in GivenBefore(s \o t, Len(s) + k)
    <3>1. PICK j \in 1 .. k - 1 : p \in {<<t[j].reg, f>> : f \in Sets(t[j])}
      BY <2>2 DEF GivenBefore
    <3>2. (s \o t)[Len(s) + j] = t[j] /\ Len(s) + j \in 1 .. (Len(s) + k) - 1
      BY <1>0, <1>2
    <3> QED BY <3>1, <3>2, SMTT(30) DEF GivenBefore
  <2> QED BY <2>1, <2>2
<1> QED BY <1>3, <1>4

\* Two scripts in a row
LEMMA ScriptConcat ==
    ASSUME NEW s, NEW t, NEW S, NEW G, NEW R, NEW U, NEW T, NEW H, NEW Q, NEW V,
           Script(s, S, G, R, U), Script(t, T, H, Q, V),
           T \subseteq S \cup G, Q \cap U = {}
    PROVE  Script(s \o t, S, G \cup H, R \cup Q, U \cup V)
<1>0. s \in Seq(ScriptLines) /\ t \in Seq(ScriptLines) /\ s \o t \in Seq(ScriptLines)
  BY DEF Script
<1>1. Len(s) \in Nat /\ Len(t) \in Nat /\ Len(s \o t) = Len(s) + Len(t)
  BY <1>0
<1>2. \A j \in 1 .. Len(s) : (s \o t)[j] = s[j]
  BY <1>0
<1>3. \A j \in 1 .. Len(t) : (s \o t)[Len(s) + j] = t[j]
  BY <1>0
<1>4. ASSUME NEW i \in 1 .. Len(s \o t)
      PROVE  i \in 1 .. Len(s) \/ \E j \in 1 .. Len(t) : i = Len(s) + j
  <2>1. CASE i > Len(s)
    <3>1. i - Len(s) \in 1 .. Len(t) /\ i = Len(s) + (i - Len(s))
      BY <2>1, <1>1
    <3> QED BY <3>1
  <2> QED BY <2>1, <1>1
<1>5. Justifies(S, s \o t)
  <2> SUFFICES ASSUME NEW k \in 1 .. Len(s \o t), (s \o t)[k].op = "await"
               PROVE  Justified(S \cup GivenBefore(s \o t, k), (s \o t)[k])
    BY DEF Justifies
  <2>1. CASE k \in 1 .. Len(s)
    <3>1. Justified(S \cup GivenBefore(s, k), s[k])
      BY <2>1, <1>2 DEF Script, Justifies
    <3>2. k \in 1 .. Len(s) + 1
      BY <2>1, <1>1
    <3>3. GivenBefore(s, k) \subseteq GivenBefore(s \o t, k)
      BY <3>2, <1>0, GivenConcat
    <3> QED BY <2>1, <1>2, <3>1, <3>3, JustifiedMore
  <2>2. ASSUME NEW j \in 1 .. Len(t), k = Len(s) + j
        PROVE  Justified(S \cup GivenBefore(s \o t, k), (s \o t)[k])
    <3>1. Justified(T \cup GivenBefore(t, j), t[j])
      BY <2>2, <1>3 DEF Script, Justifies
    <3>2. j \in 1 .. Len(t) + 1
      BY <1>1
    <3>3. Given(s) \cup GivenBefore(t, j) \subseteq GivenBefore(s \o t, k)
      BY <3>2, <1>0, <2>2, GivenConcat
    <3>4. T \cup GivenBefore(t, j) \subseteq S \cup GivenBefore(s \o t, k)
      BY <3>3 DEF Script
    <3> QED BY <2>2, <1>3, <3>1, <3>4, JustifiedMore
  <2> QED BY <2>1, <2>2, <1>4
<1>6. \A i \in 1 .. Len(s \o t) :
         (s \o t)[i].reg \in U \cup V /\ (Resets((s \o t)[i]) => (s \o t)[i].reg \in R \cup Q)
  <2> SUFFICES ASSUME NEW i \in 1 .. Len(s \o t)
               PROVE  /\ (s \o t)[i].reg \in U \cup V
                      /\ Resets((s \o t)[i]) => (s \o t)[i].reg \in R \cup Q
    OBVIOUS
  <2>1. CASE i \in 1 .. Len(s)
    BY <2>1, <1>2 DEF Script
  <2>2. ASSUME NEW j \in 1 .. Len(t), i = Len(s) + j
        PROVE  /\ (s \o t)[i].reg \in U \cup V
               /\ Resets((s \o t)[i]) => (s \o t)[i].reg \in R \cup Q
    BY <2>2, <1>3 DEF Script
  <2> QED BY <2>1, <2>2, <1>4
<1>7. Fresh(s \o t)
  <2> SUFFICES ASSUME NEW i \in 1 .. Len(s \o t), NEW j \in 1 .. Len(s \o t),
                      j < i, Resets((s \o t)[i])
               PROVE  (s \o t)[j].reg # (s \o t)[i].reg
    BY DEF Fresh
  <2>1. CASE i \in 1 .. Len(s)
    <3>1. j \in 1 .. Len(s)
      BY <2>1, <1>1
    <3> QED BY <2>1, <3>1, <1>2 DEF Script, Fresh
  <2>2. ASSUME NEW a \in 1 .. Len(t), i = Len(s) + a
        PROVE  (s \o t)[j].reg # (s \o t)[i].reg
    <3>1. Resets(t[a]) /\ (s \o t)[i] = t[a]
      BY <2>2, <1>3
    <3>2. CASE j \in 1 .. Len(s)
      <4>1. (s \o t)[j].reg \in U
        BY <3>2, <1>2 DEF Script
      <4>2. t[a].reg \in Q
        BY <3>1 DEF Script
      <4> QED BY <4>1, <4>2, <3>1
    <3>3. ASSUME NEW b \in 1 .. Len(t), j = Len(s) + b
          PROVE  (s \o t)[j].reg # (s \o t)[i].reg
      <4>1. b < a
        BY <2>2, <3>3, <1>1
      <4>2. t[b].reg # t[a].reg
        BY <4>1, <3>1 DEF Script, Fresh
      <4> QED BY <4>2, <3>1, <3>3, <1>3
    <3> QED BY <3>2, <3>3, <1>4
  <2> QED BY <2>1, <2>2, <1>4
<1>8. G \cup H \subseteq Given(s \o t)
  <2>1. Len(t) + 1 \in 1 .. Len(t) + 1 /\ Len(s) + (Len(t) + 1) = Len(s \o t) + 1
    BY <1>1
  <2>2. Given(s) \cup GivenBefore(t, Len(t) + 1) \subseteq GivenBefore(s \o t, Len(s) + (Len(t) + 1))
    BY <2>1, <1>0, GivenConcat
  <2>3. Given(s) \cup Given(t) \subseteq Given(s \o t)
    BY <2>1, <2>2 DEF Given
  <2> QED BY <2>3 DEF Script
<1> QED BY <1>0, <1>5, <1>6, <1>7, <1>8 DEF Script

\* What less it says of a script
LEMMA ScriptWeaken ==
    ASSUME NEW s, NEW S, NEW G, NEW R, NEW U, Script(s, S, G, R, U),
           NEW S2, S \subseteq S2, NEW G2, G2 \subseteq G,
           NEW R2, R \subseteq R2, NEW U2, U \subseteq U2
    PROVE  Script(s, S2, G2, R2, U2)
<1>1. Justifies(S2, s)
  <2> SUFFICES ASSUME NEW k \in 1 .. Len(s), s[k].op = "await"
               PROVE  Justified(S2 \cup GivenBefore(s, k), s[k])
    BY DEF Justifies
  <2>1. Justified(S \cup GivenBefore(s, k), s[k])
    BY DEF Script, Justifies
  <2>2. S \cup GivenBefore(s, k) \subseteq S2 \cup GivenBefore(s, k)
    OBVIOUS
  <2> QED BY <2>1, <2>2, JustifiedMore
<1>2. \A i \in 1 .. Len(s) : s[i].reg \in U2 /\ (Resets(s[i]) => s[i].reg \in R2)
  BY DEF Script
<1> QED BY <1>1, <1>2 DEF Script

LEMMA OneLine ==
    ASSUME NEW e \in ScriptLines, NEW S, e.op = "await" => Justified(S, e),
           NEW G, \A p \in G : \E f \in Sets(e) : p = <<e.reg, f>>,
           NEW R, Resets(e) => e.reg \in R
    PROVE  Script(<<e>>, S, G, R, {e.reg})
<1>1. <<e>> \in Seq(ScriptLines) /\ Len(<<e>>) = 1 /\ <<e>>[1] = e
  OBVIOUS
<1>2. \A k \in 1 .. Len(<<e>>) : k = 1
  BY <1>1
<1>3. Justifies(S, <<e>>)
  <2> SUFFICES ASSUME e.op = "await" PROVE Justified(S \cup GivenBefore(<<e>>, 1), e)
    BY <1>1, <1>2 DEF Justifies
  <2>1. Justified(S, e) /\ S \subseteq S \cup GivenBefore(<<e>>, 1)
    OBVIOUS
  <2> QED BY <2>1, JustifiedMore
<1>4. Fresh(<<e>>)
  BY <1>1, <1>2 DEF Fresh
<1>5. G \subseteq Given(<<e>>)
  <2> SUFFICES ASSUME NEW p \in G PROVE p \in Given(<<e>>)
    OBVIOUS
  <2>1. p \in {<<(<<e>>)[1].reg, f>> : f \in Sets((<<e>>)[1])} /\ 1 \in 1 .. (Len(<<e>>) + 1) - 1
    BY <1>1
  <2> QED BY <2>1 DEF Given, GivenBefore
<1> QED BY <1>1, <1>2, <1>3, <1>4, <1>5 DEF Script

LEMMA AwaitLine ==
    ASSUME NEW r \in PrcmRegs, NEW F \in SUBSET Fields, NEW S,
           Justified(S, [op |-> "await", reg |-> r, flags |-> F])
    PROVE  Script(AwaitAny(r, F), S, {}, {}, {r})
<1> DEFINE e == [op |-> "await", reg |-> r, flags |-> F]
<1>1. e \in ScriptLines /\ e.op = "await" /\ e.reg = r /\ ~ Resets(e)
  BY DEF ScriptLines, Resets
<1>2. AwaitAny(r, F) = <<e>>
  BY DEF AwaitAny
<1> HIDE DEF e
<1>3. Script(<<e>>, S, {}, {}, {e.reg})
  BY <1>1, OneLine DEF e
<1> QED BY <1>1, <1>2, <1>3

\* What a loop for a single field ends with, holds.
LEMMA AwaitOneLine ==
    ASSUME NEW r \in PrcmRegs, NEW f \in Fields, NEW S,
           Justified(S, [op |-> "await", reg |-> r, flags |-> {f}])
    PROVE  Script(AwaitAny(r, {f}), S, {<<r, f>>}, {}, {r})
<1> DEFINE e == [op |-> "await", reg |-> r, flags |-> {f}]
<1>1. e \in ScriptLines /\ e.op = "await" /\ e.reg = r /\ ~ Resets(e)
  BY DEF ScriptLines, Resets
<1>2. AwaitAny(r, {f}) = <<e>>
  BY DEF AwaitAny
<1>3. f \in Sets(e)
  BY DEF Sets
<1>4. \A p \in {<<r, f>>} : \E g \in Sets(e) : p = <<e.reg, g>>
  BY <1>1, <1>3
<1> HIDE DEF e
<1>5. Script(<<e>>, S, {<<r, f>>}, {}, {e.reg})
  BY <1>1, <1>4, OneLine DEF e
<1> QED BY <1>1, <1>2, <1>5

LEMMA WithoutLine ==
    ASSUME NEW r \in PrcmRegs, NEW F \in SUBSET Control
    PROVE  Script(Without(r, F), {}, {}, {r}, {r})
<1> DEFINE e == [op |-> "without", reg |-> r, flags |-> F]
<1>1. e \in ScriptLines /\ e.op = "without" /\ e.reg = r
  BY DEF ScriptLines, Control, Fields
<1>2. Without(r, F) = <<e>>
  BY DEF Without
<1> HIDE DEF e
<1>3. Script(<<e>>, {}, {}, {r}, {e.reg})
  BY <1>1, OneLine
<1> QED BY <1>1, <1>2, <1>3

LEMMA OrAndWaitScript ==
    ASSUME NEW r \in PrcmRegs, NEW f \in Control
    PROVE  Script(OrAndWait(r, f), {}, {<<r, f>>}, {}, {r})
<1> DEFINE e == [op |-> "or", reg |-> r, flags |-> {f}]
<1>1. e \in ScriptLines /\ e.op = "or" /\ e.reg = r /\ ~ Resets(e)
  BY DEF ScriptLines, Control, Fields, Resets
<1>2. OrReg(r, {f}) = <<e>>
  BY DEF OrReg
<1>3. f \in Sets(e)
  BY DEF Sets
<1>4. \A p \in {<<r, f>>} : \E g \in Sets(e) : p = <<e.reg, g>>
  BY <1>1, <1>3
<1> HIDE DEF e
<1>5. Script(OrReg(r, {f}), {}, {<<r, f>>}, {}, {r})
  BY <1>1, <1>2, <1>4, OneLine
<1>6. Justified({<<r, f>>}, [op |-> "await", reg |-> r, flags |-> {f}])
  BY DEF Justified
<1>7. f \in Fields
  BY DEF Fields
<1>8. Script(AwaitAny(r, {f}), {<<r, f>>}, {<<r, f>>}, {}, {r})
  BY <1>6, <1>7, AwaitOneLine
<1>9. Script(OrReg(r, {f}) \o AwaitAny(r, {f}), {}, {<<r, f>>}, {}, {r})
  <2>1. Script(OrReg(r, {f}) \o AwaitAny(r, {f}), {}, {<<r, f>>} \cup {<<r, f>>}, {} \cup {}, {r} \cup {r})
    BY <1>5, <1>8, ScriptConcat
  <2> QED BY <2>1, ScriptWeaken
<1> QED BY <1>9 DEF OrAndWait

LEMMA PutAndWaitScript ==
    ASSUME NEW r \in PrcmRegs, NEW f \in Control
    PROVE  Script(PutAndWait(r, f), {}, {<<r, f>>}, {r}, {r})
<1> DEFINE e == [op |-> "put", reg |-> r, flags |-> {f}]
<1>1. e \in ScriptLines /\ e.op = "put" /\ e.reg = r
  BY DEF ScriptLines, Control, Fields
<1>2. PutReg(r, {f}) = <<e>>
  BY DEF PutReg
<1>3. f \in Sets(e)
  BY DEF Sets
<1>4. \A p \in {<<r, f>>} : \E g \in Sets(e) : p = <<e.reg, g>>
  BY <1>1, <1>3
<1> HIDE DEF e
<1>5. Script(PutReg(r, {f}), {}, {<<r, f>>}, {r}, {r})
  BY <1>1, <1>2, <1>4, OneLine
<1>6. Justified({<<r, f>>}, [op |-> "await", reg |-> r, flags |-> {f}])
  BY DEF Justified
<1>7. f \in Fields
  BY DEF Fields
<1>8. Script(AwaitAny(r, {f}), {<<r, f>>}, {<<r, f>>}, {}, {r})
  BY <1>6, <1>7, AwaitOneLine
<1>9. Script(PutReg(r, {f}) \o AwaitAny(r, {f}), {}, {<<r, f>>}, {r}, {r})
  <2>1. Script(PutReg(r, {f}) \o AwaitAny(r, {f}), {}, {<<r, f>>} \cup {<<r, f>>}, {r} \cup {}, {r} \cup {r})
    BY <1>5, <1>8, ScriptConcat
  <2> QED BY <2>1, ScriptWeaken
<1> QED BY <1>9 DEF PutAndWait
-----------------------------------------------------------------------------

\* The domains that the second script counts on, as the first has left them
BusesWoken == {<<"L3S", "SW_WKUP">>, <<"L3", "SW_WKUP">>, <<"OCPWP_L3", "SW_WKUP">>, <<"L4LS", "SW_WKUP">>}

\* What is ready whenever the processor runs
AlwaysOn == {<<"L4WKUP", "FUNC">>, <<"L4_WKUP_AON", "L4_WKUP_AON_GCLK">>}

BusRegs == {"L3S", "L3", "L3_INSTR", "L3_MODULE", "OCPWP_L3", "L4LS", "L4LS_MODULE"}
WkupRegs == {"CONTROL", "WKUP", "L3_AON", "UART0", "L4WKUP", "L4_WKUP_AON"}
DeviceRegs == {"TIMER2", "TIMER3", "GPIO1", "CLKSEL_TIMER2", "CLKSEL_TIMER3"}

LEMMA AllPrcmRegs == PrcmRegs = BusRegs \cup WkupRegs \cup DeviceRegs
<1>1. DOMAIN DomainClocks = {"L3S", "L3", "OCPWP_L3", "L4LS", "WKUP", "L3_AON"}
  BY DEF DomainClocks
<1>2. DOMAIN ModuleDomain = {"L3_INSTR", "L3_MODULE", "L4LS_MODULE", "CONTROL", "UART0", "TIMER2",
                             "TIMER3", "GPIO1"}
  BY DEF ModuleDomain
<1> QED BY <1>1, <1>2 DEF PrcmRegs, BusRegs, WkupRegs, DeviceRegs

LEMMA SharedClocksScript ==
    ASSUME NEW clock \in Clocks
    PROVE  Script(SharedClocksRun(clock), BusesWoken, {}, {}, {"L3S", "L3", "OCPWP_L3", "L4LS"})
<1>regs. {"L3S", "L3", "OCPWP_L3", "L4LS"} \subseteq PrcmRegs
  BY AllPrcmRegs DEF BusRegs, WkupRegs, DeviceRegs
<1>1. Justified({<<"L3S", "SW_WKUP">>}, [op |-> "await", reg |-> "L3S", flags |-> {"L3S_GCLK"}])
  BY DEF Justified, DomainClocks, ModuleDomain, OwnClock
<1>2. Script(AwaitAny("L3S", {"L3S_GCLK"}), {<<"L3S", "SW_WKUP">>}, {}, {}, {"L3S"})
  BY <1>1, <1>regs, AwaitLine DEF Fields, Clocks
<1>3. Justified({<<"L3", "SW_WKUP">>}, [op |-> "await", reg |-> "L3", flags |-> {"L3_GCLK"}])
  BY DEF Justified, DomainClocks, ModuleDomain, OwnClock
<1>4. Script(AwaitAny("L3", {"L3_GCLK"}), {<<"L3", "SW_WKUP">>}, {}, {}, {"L3"})
  BY <1>3, <1>regs, AwaitLine DEF Fields, Clocks
<1>5. Justified({<<"OCPWP_L3", "SW_WKUP">>}, [op |-> "await", reg |-> "OCPWP_L3",
                flags |-> {"OCPWP_L3_GCLK", "OCPWP_L4_GCLK"}])
  BY DEF Justified, DomainClocks, ModuleDomain, OwnClock
<1>6. Script(AwaitAny("OCPWP_L3", {"OCPWP_L3_GCLK", "OCPWP_L4_GCLK"}), {<<"OCPWP_L3", "SW_WKUP">>}, {}, {},
             {"OCPWP_L3"})
  BY <1>5, <1>regs, AwaitLine DEF Fields, Clocks
<1>7. Justified({<<"L4LS", "SW_WKUP">>}, [op |-> "await", reg |-> "L4LS", flags |-> {"L4LS_GCLK", clock}])
  BY DEF Justified, DomainClocks, ModuleDomain, OwnClock
<1>8. Script(AwaitAny("L4LS", {"L4LS_GCLK", clock}), {<<"L4LS", "SW_WKUP">>}, {}, {}, {"L4LS"})
  BY <1>7, <1>regs, AwaitLine DEF Fields, Clocks
<1> DEFINE c1 == AwaitAny("L3S", {"L3S_GCLK"})
           g1 == {}
           r1 == {}
           u1 == {"L3S"}
           c2 == c1 \o AwaitAny("L3", {"L3_GCLK"})
           u2 == u1 \cup {"L3"}
           c3 == c2 \o AwaitAny("OCPWP_L3", {"OCPWP_L3_GCLK", "OCPWP_L4_GCLK"})
           u3 == u2 \cup {"OCPWP_L3"}
           c4 == c3 \o AwaitAny("L4LS", {"L4LS_GCLK", clock})
           u4 == u3 \cup {"L4LS"}
<1> HIDE DEF c1, c2, c3, c4
<1>9. Script(c1, BusesWoken, g1, r1, u1)
  BY <1>2, ScriptWeaken DEF c1, BusesWoken
<1>10. Script(c2, BusesWoken, g1, r1, u2)
  <2>1. Script(c1 \o AwaitAny("L3", {"L3_GCLK"}), BusesWoken,
               g1 \cup {}, r1 \cup {}, u1 \cup {"L3"})
    BY <1>9, <1>4, ScriptConcat DEF BusesWoken
  <2> QED BY <2>1, ScriptWeaken DEF c2
<1>11. Script(c3, BusesWoken, g1, r1, u3)
  <2>1. Script(c2 \o AwaitAny("OCPWP_L3", {"OCPWP_L3_GCLK", "OCPWP_L4_GCLK"}), BusesWoken,
               g1 \cup {}, r1 \cup {}, u2 \cup {"OCPWP_L3"})
    BY <1>10, <1>6, ScriptConcat DEF BusesWoken
  <2> QED BY <2>1, ScriptWeaken DEF c3
<1>12. Script(c4, BusesWoken, g1, r1, u4)
  <2>1. Script(c3 \o AwaitAny("L4LS", {"L4LS_GCLK", clock}), BusesWoken,
               g1 \cup {}, r1 \cup {}, u3 \cup {"L4LS"})
    BY <1>11, <1>8, ScriptConcat DEF BusesWoken
  <2> QED BY <2>1, ScriptWeaken DEF c4
<1>e. c4 = SharedClocksRun(clock)
  BY DEF SharedClocksRun, c1, c2, c3, c4
<1> QED BY <1>12, <1>e

\* pll_setup_interconnect wakes the domains of the buses.

LEMMA InterconnectScript ==
    Script(pll_setup_interconnect, {},
           {<<"L3S", "SW_WKUP">>, <<"L3", "SW_WKUP">>, <<"OCPWP_L3", "SW_WKUP">>, <<"L4LS", "SW_WKUP">>,
           <<"L3_MODULE", "FUNC">>, <<"L3_INSTR", "FUNC">>},
           {"L3S", "L3", "L3_INSTR", "L3_MODULE", "OCPWP_L3", "L4LS", "L4LS_MODULE"},
           {"L3S", "L3", "L3_INSTR", "L3_MODULE", "OCPWP_L3", "L4LS", "L4LS_MODULE"})
<1>regs. {"L3S", "L3", "L3_INSTR", "L3_MODULE", "OCPWP_L3", "L4LS", "L4LS_MODULE"} \subseteq PrcmRegs
  BY AllPrcmRegs DEF BusRegs, WkupRegs, DeviceRegs
<1>1. Script(PutAndWait("L3S", "SW_WKUP"), {}, {<<"L3S", "SW_WKUP">>}, {"L3S"}, {"L3S"})
  BY <1>regs, PutAndWaitScript DEF Control
<1>2. Script(PutAndWait("L3", "SW_WKUP"), {}, {<<"L3", "SW_WKUP">>}, {"L3"}, {"L3"})
  BY <1>regs, PutAndWaitScript DEF Control
<1>3. Script(PutAndWait("L3_INSTR", "ENABLE"), {}, {<<"L3_INSTR", "ENABLE">>}, {"L3_INSTR"}, {"L3_INSTR"})
  BY <1>regs, PutAndWaitScript DEF Control
<1>4. Script(PutAndWait("L3_MODULE", "ENABLE"), {}, {<<"L3_MODULE", "ENABLE">>}, {"L3_MODULE"},
             {"L3_MODULE"})
  BY <1>regs, PutAndWaitScript DEF Control
<1>5. Script(PutAndWait("OCPWP_L3", "SW_WKUP"), {}, {<<"OCPWP_L3", "SW_WKUP">>}, {"OCPWP_L3"}, {"OCPWP_L3"})
  BY <1>regs, PutAndWaitScript DEF Control
<1>6. Script(PutAndWait("L4LS", "SW_WKUP"), {}, {<<"L4LS", "SW_WKUP">>}, {"L4LS"}, {"L4LS"})
  BY <1>regs, PutAndWaitScript DEF Control
<1>7. Script(PutAndWait("L4LS_MODULE", "ENABLE"), {}, {<<"L4LS_MODULE", "ENABLE">>}, {"L4LS_MODULE"},
             {"L4LS_MODULE"})
  BY <1>regs, PutAndWaitScript DEF Control
<1>8. Script(SharedClocksRun("TIMER2_GCLK"), BusesWoken, {}, {}, {"L3S", "L3", "OCPWP_L3", "L4LS"})
  BY SharedClocksScript DEF Clocks
<1>9. Justified({<<"L3_MODULE", "ENABLE">>, <<"L3", "SW_WKUP">>}, [op |-> "await", reg |-> "L3_MODULE",
                flags |-> {"FUNC"}])
  BY DEF Justified, DomainClocks, ModuleDomain, OwnClock
<1>10. Script(AwaitAny("L3_MODULE", {"FUNC"}), {<<"L3_MODULE", "ENABLE">>, <<"L3", "SW_WKUP">>},
              {<<"L3_MODULE", "FUNC">>}, {}, {"L3_MODULE"})
  BY <1>9, <1>regs, AwaitOneLine DEF Fields, Clocks
<1>11. Justified({<<"L3_INSTR", "ENABLE">>, <<"L3", "SW_WKUP">>}, [op |-> "await", reg |-> "L3_INSTR",
                 flags |-> {"FUNC"}])
  BY DEF Justified, DomainClocks, ModuleDomain, OwnClock
<1>12. Script(AwaitAny("L3_INSTR", {"FUNC"}), {<<"L3_INSTR", "ENABLE">>, <<"L3", "SW_WKUP">>},
              {<<"L3_INSTR", "FUNC">>}, {}, {"L3_INSTR"})
  BY <1>11, <1>regs, AwaitOneLine DEF Fields, Clocks
<1>13. Justified({<<"L3", "SW_WKUP">>}, [op |-> "await", reg |-> "L3", flags |-> {"L3_GCLK"}])
  BY DEF Justified, DomainClocks, ModuleDomain, OwnClock
<1>14. Script(AwaitAny("L3", {"L3_GCLK"}), {<<"L3", "SW_WKUP">>}, {}, {}, {"L3"})
  BY <1>13, <1>regs, AwaitLine DEF Fields, Clocks
<1>15. Justified({<<"OCPWP_L3", "SW_WKUP">>}, [op |-> "await", reg |-> "OCPWP_L3",
                 flags |-> {"OCPWP_L3_GCLK"}])
  BY DEF Justified, DomainClocks, ModuleDomain, OwnClock
<1>16. Script(AwaitAny("OCPWP_L3", {"OCPWP_L3_GCLK"}), {<<"OCPWP_L3", "SW_WKUP">>}, {}, {}, {"OCPWP_L3"})
  BY <1>15, <1>regs, AwaitLine DEF Fields, Clocks
<1>17. Justified({<<"L3S", "SW_WKUP">>}, [op |-> "await", reg |-> "L3S", flags |-> {"L3S_GCLK"}])
  BY DEF Justified, DomainClocks, ModuleDomain, OwnClock
<1>18. Script(AwaitAny("L3S", {"L3S_GCLK"}), {<<"L3S", "SW_WKUP">>}, {}, {}, {"L3S"})
  BY <1>17, <1>regs, AwaitLine DEF Fields, Clocks
<1> DEFINE c1 == PutAndWait("L3S", "SW_WKUP")
           g1 == {<<"L3S", "SW_WKUP">>}
           r1 == {"L3S"}
           u1 == {"L3S"}
           c2 == c1 \o PutAndWait("L3", "SW_WKUP")
           g2 == g1 \cup {<<"L3", "SW_WKUP">>}
           r2 == r1 \cup {"L3"}
           u2 == u1 \cup {"L3"}
           c3 == c2 \o PutAndWait("L3_INSTR", "ENABLE")
           g3 == g2 \cup {<<"L3_INSTR", "ENABLE">>}
           r3 == r2 \cup {"L3_INSTR"}
           u3 == u2 \cup {"L3_INSTR"}
           c4 == c3 \o PutAndWait("L3_MODULE", "ENABLE")
           g4 == g3 \cup {<<"L3_MODULE", "ENABLE">>}
           r4 == r3 \cup {"L3_MODULE"}
           u4 == u3 \cup {"L3_MODULE"}
           c5 == c4 \o PutAndWait("OCPWP_L3", "SW_WKUP")
           g5 == g4 \cup {<<"OCPWP_L3", "SW_WKUP">>}
           r5 == r4 \cup {"OCPWP_L3"}
           u5 == u4 \cup {"OCPWP_L3"}
           c6 == c5 \o PutAndWait("L4LS", "SW_WKUP")
           g6 == g5 \cup {<<"L4LS", "SW_WKUP">>}
           r6 == r5 \cup {"L4LS"}
           u6 == u5 \cup {"L4LS"}
           c7 == c6 \o PutAndWait("L4LS_MODULE", "ENABLE")
           g7 == g6 \cup {<<"L4LS_MODULE", "ENABLE">>}
           r7 == r6 \cup {"L4LS_MODULE"}
           u7 == u6 \cup {"L4LS_MODULE"}
           c8 == c7 \o SharedClocksRun("TIMER2_GCLK")
           c9 == c8 \o AwaitAny("L3_MODULE", {"FUNC"})
           g9 == g7 \cup {<<"L3_MODULE", "FUNC">>}
           c10 == c9 \o AwaitAny("L3_INSTR", {"FUNC"})
           g10 == g9 \cup {<<"L3_INSTR", "FUNC">>}
           c11 == c10 \o AwaitAny("L3", {"L3_GCLK"})
           c12 == c11 \o AwaitAny("OCPWP_L3", {"OCPWP_L3_GCLK"})
           c13 == c12 \o AwaitAny("L3S", {"L3S_GCLK"})
<1> HIDE DEF c1, c2, c3, c4, c5, c6, c7, c8, c9, c10, c11, c12, c13
<1>19. Script(c1, {}, g1, r1, u1)
  BY <1>1, ScriptWeaken DEF c1
<1>20. Script(c2, {}, g2, r2, u2)
  <2>1. Script(c1 \o PutAndWait("L3", "SW_WKUP"), {},
               g1 \cup {<<"L3", "SW_WKUP">>}, r1 \cup {"L3"}, u1 \cup {"L3"})
    BY <1>19, <1>2, ScriptConcat
  <2> QED BY <2>1, ScriptWeaken DEF c2
<1>21. Script(c3, {}, g3, r3, u3)
  <2>1. Script(c2 \o PutAndWait("L3_INSTR", "ENABLE"), {},
               g2 \cup {<<"L3_INSTR", "ENABLE">>}, r2 \cup {"L3_INSTR"}, u2 \cup {"L3_INSTR"})
    BY <1>20, <1>3, ScriptConcat
  <2> QED BY <2>1, ScriptWeaken DEF c3
<1>22. Script(c4, {}, g4, r4, u4)
  <2>1. Script(c3 \o PutAndWait("L3_MODULE", "ENABLE"), {},
               g3 \cup {<<"L3_MODULE", "ENABLE">>}, r3 \cup {"L3_MODULE"}, u3 \cup {"L3_MODULE"})
    BY <1>21, <1>4, ScriptConcat
  <2> QED BY <2>1, ScriptWeaken DEF c4
<1>23. Script(c5, {}, g5, r5, u5)
  <2>1. Script(c4 \o PutAndWait("OCPWP_L3", "SW_WKUP"), {},
               g4 \cup {<<"OCPWP_L3", "SW_WKUP">>}, r4 \cup {"OCPWP_L3"}, u4 \cup {"OCPWP_L3"})
    BY <1>22, <1>5, ScriptConcat
  <2> QED BY <2>1, ScriptWeaken DEF c5
<1>24. Script(c6, {}, g6, r6, u6)
  <2>1. Script(c5 \o PutAndWait("L4LS", "SW_WKUP"), {},
               g5 \cup {<<"L4LS", "SW_WKUP">>}, r5 \cup {"L4LS"}, u5 \cup {"L4LS"})
    BY <1>23, <1>6, ScriptConcat
  <2> QED BY <2>1, ScriptWeaken DEF c6
<1>25. Script(c7, {}, g7, r7, u7)
  <2>1. Script(c6 \o PutAndWait("L4LS_MODULE", "ENABLE"), {},
               g6 \cup {<<"L4LS_MODULE", "ENABLE">>}, r6 \cup {"L4LS_MODULE"}, u6 \cup {"L4LS_MODULE"})
    BY <1>24, <1>7, ScriptConcat
  <2> QED BY <2>1, ScriptWeaken DEF c7
<1>26. Script(c8, {}, g7, r7, u7)
  <2>1. Script(c7 \o SharedClocksRun("TIMER2_GCLK"), {},
               g7 \cup {}, r7 \cup {}, u7 \cup {"L3S", "L3", "OCPWP_L3", "L4LS"})
    BY <1>25, <1>8, ScriptConcat DEF BusesWoken
  <2> QED BY <2>1, ScriptWeaken DEF c8
<1>27. Script(c9, {}, g9, r7, u7)
  <2>1. Script(c8 \o AwaitAny("L3_MODULE", {"FUNC"}), {},
               g7 \cup {<<"L3_MODULE", "FUNC">>}, r7 \cup {}, u7 \cup {"L3_MODULE"})
    BY <1>26, <1>10, ScriptConcat
  <2> QED BY <2>1, ScriptWeaken DEF c9
<1>28. Script(c10, {}, g10, r7, u7)
  <2>1. Script(c9 \o AwaitAny("L3_INSTR", {"FUNC"}), {},
               g9 \cup {<<"L3_INSTR", "FUNC">>}, r7 \cup {}, u7 \cup {"L3_INSTR"})
    BY <1>27, <1>12, ScriptConcat
  <2> QED BY <2>1, ScriptWeaken DEF c10
<1>29. Script(c11, {}, g10, r7, u7)
  <2>1. Script(c10 \o AwaitAny("L3", {"L3_GCLK"}), {}, g10 \cup {}, r7 \cup {}, u7 \cup {"L3"})
    BY <1>28, <1>14, ScriptConcat
  <2> QED BY <2>1, ScriptWeaken DEF c11
<1>30. Script(c12, {}, g10, r7, u7)
  <2>1. Script(c11 \o AwaitAny("OCPWP_L3", {"OCPWP_L3_GCLK"}), {},
               g10 \cup {}, r7 \cup {}, u7 \cup {"OCPWP_L3"})
    BY <1>29, <1>16, ScriptConcat
  <2> QED BY <2>1, ScriptWeaken DEF c12
<1>31. Script(c13, {}, g10, r7, u7)
  <2>1. Script(c12 \o AwaitAny("L3S", {"L3S_GCLK"}), {}, g10 \cup {}, r7 \cup {}, u7 \cup {"L3S"})
    BY <1>30, <1>18, ScriptConcat
  <2> QED BY <2>1, ScriptWeaken DEF c13
<1>e. c13 = pll_setup_interconnect
  BY DEF pll_setup_interconnect, c1, c2, c3, c4, c5, c6, c7, c8, c9, c10, c11, c12, c13
<1> QED BY <1>31, <1>e, ScriptWeaken

\* pll_setup_wkup wakes the domain that the console is in.

LEMMA WkupScript ==
    Script(pll_setup_wkup, AlwaysOn,
           {<<"CONTROL", "FUNC">>, <<"UART0", "FUNC">>, <<"WKUP", "L4_WKUP_GCLK">>,
           <<"WKUP", "UART0_GFCLK">>},
           {}, {"CONTROL", "WKUP", "L3_AON", "UART0", "L4WKUP", "L4_WKUP_AON"})
<1>regs. {"CONTROL", "WKUP", "L3_AON", "UART0", "L4WKUP", "L4_WKUP_AON"} \subseteq PrcmRegs
  BY AllPrcmRegs DEF BusRegs, WkupRegs, DeviceRegs
<1>1. Script(OrAndWait("CONTROL", "ENABLE"), {}, {<<"CONTROL", "ENABLE">>}, {}, {"CONTROL"})
  BY <1>regs, OrAndWaitScript DEF Control
<1>2. Script(OrAndWait("WKUP", "SW_WKUP"), {}, {<<"WKUP", "SW_WKUP">>}, {}, {"WKUP"})
  BY <1>regs, OrAndWaitScript DEF Control
<1>3. Script(OrAndWait("L3_AON", "SW_WKUP"), {}, {<<"L3_AON", "SW_WKUP">>}, {}, {"L3_AON"})
  BY <1>regs, OrAndWaitScript DEF Control
<1>4. Script(OrAndWait("UART0", "ENABLE"), {}, {<<"UART0", "ENABLE">>}, {}, {"UART0"})
  BY <1>regs, OrAndWaitScript DEF Control
<1>5. Justified({<<"CONTROL", "ENABLE">>, <<"WKUP", "SW_WKUP">>}, [op |-> "await", reg |-> "CONTROL",
                flags |-> {"FUNC"}])
  BY DEF Justified, DomainClocks, ModuleDomain, OwnClock
<1>6. Script(AwaitAny("CONTROL", {"FUNC"}), {<<"CONTROL", "ENABLE">>, <<"WKUP", "SW_WKUP">>},
             {<<"CONTROL", "FUNC">>}, {}, {"CONTROL"})
  BY <1>5, <1>regs, AwaitOneLine DEF Fields, Clocks
<1>7. Justified({<<"L3_AON", "SW_WKUP">>}, [op |-> "await", reg |-> "L3_AON", flags |-> {"L3_AON_GCLK"}])
  BY DEF Justified, DomainClocks, ModuleDomain, OwnClock
<1>8. Script(AwaitAny("L3_AON", {"L3_AON_GCLK"}), {<<"L3_AON", "SW_WKUP">>}, {}, {}, {"L3_AON"})
  BY <1>7, <1>regs, AwaitLine DEF Fields, Clocks
<1>9. Justified({<<"L4WKUP", "FUNC">>}, [op |-> "await", reg |-> "L4WKUP", flags |-> {"FUNC"}])
  BY DEF Justified, DomainClocks, ModuleDomain, OwnClock
<1>10. Script(AwaitAny("L4WKUP", {"FUNC"}), {<<"L4WKUP", "FUNC">>}, {}, {}, {"L4WKUP"})
  BY <1>9, <1>regs, AwaitLine DEF Fields, Clocks
<1>11. Justified({<<"WKUP", "SW_WKUP">>}, [op |-> "await", reg |-> "WKUP", flags |-> {"L4_WKUP_GCLK"}])
  BY DEF Justified, DomainClocks, ModuleDomain, OwnClock
<1>12. Script(AwaitAny("WKUP", {"L4_WKUP_GCLK"}), {<<"WKUP", "SW_WKUP">>}, {<<"WKUP", "L4_WKUP_GCLK">>}, {},
              {"WKUP"})
  BY <1>11, <1>regs, AwaitOneLine DEF Fields, Clocks
<1>13. Justified({<<"L4_WKUP_AON", "L4_WKUP_AON_GCLK">>}, [op |-> "await", reg |-> "L4_WKUP_AON",
                 flags |-> {"L4_WKUP_AON_GCLK"}])
  BY DEF Justified, DomainClocks, ModuleDomain, OwnClock
<1>14. Script(AwaitAny("L4_WKUP_AON", {"L4_WKUP_AON_GCLK"}), {<<"L4_WKUP_AON", "L4_WKUP_AON_GCLK">>}, {},
              {}, {"L4_WKUP_AON"})
  BY <1>13, <1>regs, AwaitLine DEF Fields, Clocks
<1>15. Justified({<<"UART0", "ENABLE">>}, [op |-> "await", reg |-> "WKUP", flags |-> {"UART0_GFCLK"}])
  BY DEF Justified, DomainClocks, ModuleDomain, OwnClock
<1>16. Script(AwaitAny("WKUP", {"UART0_GFCLK"}), {<<"UART0", "ENABLE">>}, {<<"WKUP", "UART0_GFCLK">>}, {},
              {"WKUP"})
  BY <1>15, <1>regs, AwaitOneLine DEF Fields, Clocks
<1>17. Justified({<<"UART0", "ENABLE">>, <<"WKUP", "SW_WKUP">>}, [op |-> "await", reg |-> "UART0",
                 flags |-> {"FUNC"}])
  BY DEF Justified, DomainClocks, ModuleDomain, OwnClock
<1>18. Script(AwaitAny("UART0", {"FUNC"}), {<<"UART0", "ENABLE">>, <<"WKUP", "SW_WKUP">>},
              {<<"UART0", "FUNC">>}, {}, {"UART0"})
  BY <1>17, <1>regs, AwaitOneLine DEF Fields, Clocks
<1> DEFINE c1 == OrAndWait("CONTROL", "ENABLE")
           g1 == {<<"CONTROL", "ENABLE">>}
           r1 == {}
           u1 == {"CONTROL"}
           c2 == c1 \o OrAndWait("WKUP", "SW_WKUP")
           g2 == g1 \cup {<<"WKUP", "SW_WKUP">>}
           u2 == u1 \cup {"WKUP"}
           c3 == c2 \o OrAndWait("L3_AON", "SW_WKUP")
           g3 == g2 \cup {<<"L3_AON", "SW_WKUP">>}
           u3 == u2 \cup {"L3_AON"}
           c4 == c3 \o OrAndWait("UART0", "ENABLE")
           g4 == g3 \cup {<<"UART0", "ENABLE">>}
           u4 == u3 \cup {"UART0"}
           c5 == c4 \o AwaitAny("CONTROL", {"FUNC"})
           g5 == g4 \cup {<<"CONTROL", "FUNC">>}
           c6 == c5 \o AwaitAny("L3_AON", {"L3_AON_GCLK"})
           c7 == c6 \o AwaitAny("L4WKUP", {"FUNC"})
           u7 == u4 \cup {"L4WKUP"}
           c8 == c7 \o AwaitAny("WKUP", {"L4_WKUP_GCLK"})
           g8 == g5 \cup {<<"WKUP", "L4_WKUP_GCLK">>}
           c9 == c8 \o AwaitAny("L4_WKUP_AON", {"L4_WKUP_AON_GCLK"})
           u9 == u7 \cup {"L4_WKUP_AON"}
           c10 == c9 \o AwaitAny("WKUP", {"UART0_GFCLK"})
           g10 == g8 \cup {<<"WKUP", "UART0_GFCLK">>}
           c11 == c10 \o AwaitAny("UART0", {"FUNC"})
           g11 == g10 \cup {<<"UART0", "FUNC">>}
<1> HIDE DEF c1, c2, c3, c4, c5, c6, c7, c8, c9, c10, c11
<1>19. Script(c1, AlwaysOn, g1, r1, u1)
  BY <1>1, ScriptWeaken DEF c1, AlwaysOn
<1>20. Script(c2, AlwaysOn, g2, r1, u2)
  <2>1. Script(c1 \o OrAndWait("WKUP", "SW_WKUP"), AlwaysOn,
               g1 \cup {<<"WKUP", "SW_WKUP">>}, r1 \cup {}, u1 \cup {"WKUP"})
    BY <1>19, <1>2, ScriptConcat DEF AlwaysOn
  <2> QED BY <2>1, ScriptWeaken DEF c2
<1>21. Script(c3, AlwaysOn, g3, r1, u3)
  <2>1. Script(c2 \o OrAndWait("L3_AON", "SW_WKUP"), AlwaysOn,
               g2 \cup {<<"L3_AON", "SW_WKUP">>}, r1 \cup {}, u2 \cup {"L3_AON"})
    BY <1>20, <1>3, ScriptConcat DEF AlwaysOn
  <2> QED BY <2>1, ScriptWeaken DEF c3
<1>22. Script(c4, AlwaysOn, g4, r1, u4)
  <2>1. Script(c3 \o OrAndWait("UART0", "ENABLE"), AlwaysOn,
               g3 \cup {<<"UART0", "ENABLE">>}, r1 \cup {}, u3 \cup {"UART0"})
    BY <1>21, <1>4, ScriptConcat DEF AlwaysOn
  <2> QED BY <2>1, ScriptWeaken DEF c4
<1>23. Script(c5, AlwaysOn, g5, r1, u4)
  <2>1. Script(c4 \o AwaitAny("CONTROL", {"FUNC"}), AlwaysOn,
               g4 \cup {<<"CONTROL", "FUNC">>}, r1 \cup {}, u4 \cup {"CONTROL"})
    BY <1>22, <1>6, ScriptConcat DEF AlwaysOn
  <2> QED BY <2>1, ScriptWeaken DEF c5
<1>24. Script(c6, AlwaysOn, g5, r1, u4)
  <2>1. Script(c5 \o AwaitAny("L3_AON", {"L3_AON_GCLK"}), AlwaysOn,
               g5 \cup {}, r1 \cup {}, u4 \cup {"L3_AON"})
    BY <1>23, <1>8, ScriptConcat DEF AlwaysOn
  <2> QED BY <2>1, ScriptWeaken DEF c6
<1>25. Script(c7, AlwaysOn, g5, r1, u7)
  <2>1. Script(c6 \o AwaitAny("L4WKUP", {"FUNC"}), AlwaysOn,
               g5 \cup {}, r1 \cup {}, u4 \cup {"L4WKUP"})
    BY <1>24, <1>10, ScriptConcat DEF AlwaysOn
  <2> QED BY <2>1, ScriptWeaken DEF c7
<1>26. Script(c8, AlwaysOn, g8, r1, u7)
  <2>1. Script(c7 \o AwaitAny("WKUP", {"L4_WKUP_GCLK"}), AlwaysOn,
               g5 \cup {<<"WKUP", "L4_WKUP_GCLK">>}, r1 \cup {}, u7 \cup {"WKUP"})
    BY <1>25, <1>12, ScriptConcat DEF AlwaysOn
  <2> QED BY <2>1, ScriptWeaken DEF c8
<1>27. Script(c9, AlwaysOn, g8, r1, u9)
  <2>1. Script(c8 \o AwaitAny("L4_WKUP_AON", {"L4_WKUP_AON_GCLK"}), AlwaysOn,
               g8 \cup {}, r1 \cup {}, u7 \cup {"L4_WKUP_AON"})
    BY <1>26, <1>14, ScriptConcat DEF AlwaysOn
  <2> QED BY <2>1, ScriptWeaken DEF c9
<1>28. Script(c10, AlwaysOn, g10, r1, u9)
  <2>1. Script(c9 \o AwaitAny("WKUP", {"UART0_GFCLK"}), AlwaysOn,
               g8 \cup {<<"WKUP", "UART0_GFCLK">>}, r1 \cup {}, u9 \cup {"WKUP"})
    BY <1>27, <1>16, ScriptConcat DEF AlwaysOn
  <2> QED BY <2>1, ScriptWeaken DEF c10
<1>29. Script(c11, AlwaysOn, g11, r1, u9)
  <2>1. Script(c10 \o AwaitAny("UART0", {"FUNC"}), AlwaysOn,
               g10 \cup {<<"UART0", "FUNC">>}, r1 \cup {}, u9 \cup {"UART0"})
    BY <1>28, <1>18, ScriptConcat DEF AlwaysOn
  <2> QED BY <2>1, ScriptWeaken DEF c11
<1>e. c11 = pll_setup_wkup
  BY DEF pll_setup_wkup, c1, c2, c3, c4, c5, c6, c7, c8, c9, c10, c11
<1> QED BY <1>29, <1>e, ScriptWeaken

\* A timer is given its clock before its module is waited for.

LEMMA TimerClkScript ==
    ASSUME NEW module \in {"TIMER2", "TIMER3"}, NEW source, NEW clock,
           source = OwnClock[module][2], clock = OwnClock[module][1]
    PROVE  Script(TimerClkConfig(source, module, clock), BusesWoken,
           {<<module, "FUNC">>},
           {source}, {source, module, "L3S", "L3", "OCPWP_L3", "L4LS"})
<1>regs. {"L4LS"} \subseteq PrcmRegs
  BY AllPrcmRegs DEF BusRegs, WkupRegs, DeviceRegs
<1>own. \/ module = "TIMER2" /\ source = "CLKSEL_TIMER2" /\ clock = "TIMER2_GCLK"
        \/ module = "TIMER3" /\ source = "CLKSEL_TIMER3" /\ clock = "TIMER3_GCLK"
  <2>1. OwnClock["TIMER2"][1] = "TIMER2_GCLK" /\ OwnClock["TIMER2"][2] = "CLKSEL_TIMER2"
    BY DEF OwnClock
  <2>2. OwnClock["TIMER3"][1] = "TIMER3_GCLK" /\ OwnClock["TIMER3"][2] = "CLKSEL_TIMER3"
    BY DEF OwnClock
  <2> QED BY <2>1, <2>2
<1>regs2. source \in PrcmRegs /\ module \in PrcmRegs
  BY <1>own, AllPrcmRegs DEF DeviceRegs
<1>1. Script(Without(source, {"OSC", "OTHER"}), {}, {}, {source}, {source})
  BY <1>own, <1>regs2, <1>regs, WithoutLine DEF Control
<1>2. Script(OrAndWait(source, "OSC"), {}, {<<source, "OSC">>}, {}, {source})
  BY <1>own, <1>regs2, <1>regs, OrAndWaitScript DEF Control
<1>3. Script(OrAndWait(module, "ENABLE"), {}, {<<module, "ENABLE">>}, {}, {module})
  BY <1>own, <1>regs2, <1>regs, OrAndWaitScript DEF Control
<1>4. Justified({<<module, "ENABLE">>, <<"L4LS", "SW_WKUP">>, <<source, "OSC">>}, [op |-> "await",
                reg |-> module, flags |-> {"FUNC"}])
  BY <1>own, <1>regs2 DEF Justified, DomainClocks, ModuleDomain, OwnClock
<1>5. Script(AwaitAny(module, {"FUNC"}), {<<module, "ENABLE">>, <<"L4LS", "SW_WKUP">>, <<source, "OSC">>},
             {<<module, "FUNC">>}, {}, {module})
  BY <1>4, <1>own, <1>regs2, <1>regs, AwaitOneLine DEF Fields, Clocks
<1>6. Script(SharedClocksRun(clock), BusesWoken, {}, {}, {"L3S", "L3", "OCPWP_L3", "L4LS"})
  BY <1>own, <1>regs2, SharedClocksScript DEF Clocks
<1> DEFINE c1 == Without(source, {"OSC", "OTHER"})
           g1 == {}
           r1 == {source}
           u1 == {source}
           c2 == c1 \o OrAndWait(source, "OSC")
           g2 == g1 \cup {<<source, "OSC">>}
           c3 == c2 \o OrAndWait(module, "ENABLE")
           g3 == g2 \cup {<<module, "ENABLE">>}
           u3 == u1 \cup {module}
           c4 == c3 \o AwaitAny(module, {"FUNC"})
           g4 == g3 \cup {<<module, "FUNC">>}
           c5 == c4 \o SharedClocksRun(clock)
           u5 == u3 \cup {"L3S", "L3", "OCPWP_L3", "L4LS"}
<1> HIDE DEF c1, c2, c3, c4, c5
<1>7. Script(c1, BusesWoken, g1, r1, u1)
  BY <1>1, ScriptWeaken DEF c1, BusesWoken
<1>8. Script(c2, BusesWoken, g2, r1, u1)
  <2>1. Script(c1 \o OrAndWait(source, "OSC"), BusesWoken,
               g1 \cup {<<source, "OSC">>}, r1 \cup {}, u1 \cup {source})
    BY <1>7, <1>2, ScriptConcat DEF BusesWoken
  <2> QED BY <2>1, ScriptWeaken DEF c2
<1>9. Script(c3, BusesWoken, g3, r1, u3)
  <2>1. Script(c2 \o OrAndWait(module, "ENABLE"), BusesWoken,
               g2 \cup {<<module, "ENABLE">>}, r1 \cup {}, u1 \cup {module})
    BY <1>8, <1>3, ScriptConcat DEF BusesWoken
  <2> QED BY <2>1, ScriptWeaken DEF c3
<1>10. Script(c4, BusesWoken, g4, r1, u3)
  <2>1. Script(c3 \o AwaitAny(module, {"FUNC"}), BusesWoken,
               g3 \cup {<<module, "FUNC">>}, r1 \cup {}, u3 \cup {module})
    BY <1>9, <1>5, ScriptConcat DEF BusesWoken
  <2> QED BY <2>1, ScriptWeaken DEF c4
<1>11. Script(c5, BusesWoken, g4, r1, u5)
  <2>1. Script(c4 \o SharedClocksRun(clock), BusesWoken,
               g4 \cup {}, r1 \cup {}, u3 \cup {"L3S", "L3", "OCPWP_L3", "L4LS"})
    BY <1>10, <1>6, ScriptConcat DEF BusesWoken
  <2> QED BY <2>1, ScriptWeaken DEF c5
<1>e. c5 = TimerClkConfig(source, module, clock)
  BY DEF TimerClkConfig, c1, c2, c3, c4, c5
<1> QED BY <1>11, <1>e, ScriptWeaken

\* pll_setup_gpio asks for the debounce clock that it waits for.

LEMMA GpioScript ==
    Script(pll_setup_gpio, BusesWoken,
           {<<"GPIO1", "FUNC">>, <<"L4LS", "GPIO_1_GDBCLK">>},
           {}, {"GPIO1", "L4LS"})
<1>regs. {"GPIO1", "L4LS"} \subseteq PrcmRegs
  BY AllPrcmRegs DEF BusRegs, WkupRegs, DeviceRegs
<1>1. Script(OrAndWait("GPIO1", "ENABLE"), {}, {<<"GPIO1", "ENABLE">>}, {}, {"GPIO1"})
  BY <1>regs, OrAndWaitScript DEF Control
<1>2. Script(OrAndWait("GPIO1", "OPTFCLKEN"), {}, {<<"GPIO1", "OPTFCLKEN">>}, {}, {"GPIO1"})
  BY <1>regs, OrAndWaitScript DEF Control
<1>3. Justified({<<"GPIO1", "ENABLE">>, <<"L4LS", "SW_WKUP">>}, [op |-> "await", reg |-> "GPIO1",
                flags |-> {"FUNC"}])
  BY DEF Justified, DomainClocks, ModuleDomain, OwnClock
<1>4. Script(AwaitAny("GPIO1", {"FUNC"}), {<<"GPIO1", "ENABLE">>, <<"L4LS", "SW_WKUP">>},
             {<<"GPIO1", "FUNC">>}, {}, {"GPIO1"})
  BY <1>3, <1>regs, AwaitOneLine DEF Fields, Clocks
<1>5. Justified({<<"GPIO1", "ENABLE">>, <<"GPIO1", "OPTFCLKEN">>}, [op |-> "await", reg |-> "L4LS",
                flags |-> {"GPIO_1_GDBCLK"}])
  BY DEF Justified, DomainClocks, ModuleDomain, OwnClock
<1>6. Script(AwaitAny("L4LS", {"GPIO_1_GDBCLK"}), {<<"GPIO1", "ENABLE">>, <<"GPIO1", "OPTFCLKEN">>},
             {<<"L4LS", "GPIO_1_GDBCLK">>}, {}, {"L4LS"})
  BY <1>5, <1>regs, AwaitOneLine DEF Fields, Clocks
<1> DEFINE c1 == OrAndWait("GPIO1", "ENABLE")
           g1 == {<<"GPIO1", "ENABLE">>}
           r1 == {}
           u1 == {"GPIO1"}
           c2 == c1 \o OrAndWait("GPIO1", "OPTFCLKEN")
           g2 == g1 \cup {<<"GPIO1", "OPTFCLKEN">>}
           c3 == c2 \o AwaitAny("GPIO1", {"FUNC"})
           g3 == g2 \cup {<<"GPIO1", "FUNC">>}
           c4 == c3 \o AwaitAny("L4LS", {"GPIO_1_GDBCLK"})
           g4 == g3 \cup {<<"L4LS", "GPIO_1_GDBCLK">>}
           u4 == u1 \cup {"L4LS"}
<1> HIDE DEF c1, c2, c3, c4
<1>7. Script(c1, BusesWoken, g1, r1, u1)
  BY <1>1, ScriptWeaken DEF c1, BusesWoken
<1>8. Script(c2, BusesWoken, g2, r1, u1)
  <2>1. Script(c1 \o OrAndWait("GPIO1", "OPTFCLKEN"), BusesWoken,
               g1 \cup {<<"GPIO1", "OPTFCLKEN">>}, r1 \cup {}, u1 \cup {"GPIO1"})
    BY <1>7, <1>2, ScriptConcat DEF BusesWoken
  <2> QED BY <2>1, ScriptWeaken DEF c2
<1>9. Script(c3, BusesWoken, g3, r1, u1)
  <2>1. Script(c2 \o AwaitAny("GPIO1", {"FUNC"}), BusesWoken,
               g2 \cup {<<"GPIO1", "FUNC">>}, r1 \cup {}, u1 \cup {"GPIO1"})
    BY <1>8, <1>4, ScriptConcat DEF BusesWoken
  <2> QED BY <2>1, ScriptWeaken DEF c3
<1>10. Script(c4, BusesWoken, g4, r1, u4)
  <2>1. Script(c3 \o AwaitAny("L4LS", {"GPIO_1_GDBCLK"}), BusesWoken,
               g3 \cup {<<"L4LS", "GPIO_1_GDBCLK">>}, r1 \cup {}, u1 \cup {"L4LS"})
    BY <1>9, <1>6, ScriptConcat DEF BusesWoken
  <2> QED BY <2>1, ScriptWeaken DEF c4
<1>e. c4 = pll_setup_gpio
  BY DEF pll_setup_gpio, c1, c2, c3, c4
<1> QED BY <1>10, <1>e, ScriptWeaken

\* What the kernel and the servers find when pll_setup returns
DevicesReady == {<<"L3_MODULE", "FUNC">>, <<"L3_INSTR", "FUNC">>, <<"CONTROL", "FUNC">>,
<<"UART0", "FUNC">>,
                 <<"TIMER2", "FUNC">>, <<"GPIO1", "FUNC">>, <<"WKUP", "L4_WKUP_GCLK">>,
                 <<"WKUP", "UART0_GFCLK">>, <<"L4LS", "GPIO_1_GDBCLK">>}

LEMMA PllSetupScript ==
    Script(pll_setup, AlwaysOn, BusesWoken \cup DevicesReady, BusRegs \cup {"CLKSEL_TIMER2"}, PrcmRegs)
<1>1. Script(pll_setup_interconnect, {}, {<<"L3S", "SW_WKUP">>, <<"L3", "SW_WKUP">>,
             <<"OCPWP_L3", "SW_WKUP">>, <<"L4LS", "SW_WKUP">>, <<"L3_MODULE", "FUNC">>,
             <<"L3_INSTR", "FUNC">>},
             {"L3S", "L3", "L3_INSTR", "L3_MODULE", "OCPWP_L3", "L4LS", "L4LS_MODULE"},
             {"L3S", "L3", "L3_INSTR", "L3_MODULE", "OCPWP_L3", "L4LS", "L4LS_MODULE"})
  BY InterconnectScript
<1>2. Script(pll_setup_wkup, AlwaysOn, {<<"CONTROL", "FUNC">>, <<"UART0", "FUNC">>,
             <<"WKUP", "L4_WKUP_GCLK">>, <<"WKUP", "UART0_GFCLK">>}, {},
             {"CONTROL", "WKUP", "L3_AON", "UART0", "L4WKUP", "L4_WKUP_AON"})
  BY WkupScript
<1>3. Script(pll_setup_timers, BusesWoken, {<<"TIMER2", "FUNC">>}, {"CLKSEL_TIMER2"},
             {"CLKSEL_TIMER2", "TIMER2", "L3S", "L3", "OCPWP_L3", "L4LS"})
  BY TimerClkScript DEF pll_setup_timers, OwnClock
<1>4. Script(pll_setup_gpio, BusesWoken, {<<"GPIO1", "FUNC">>, <<"L4LS", "GPIO_1_GDBCLK">>}, {},
             {"GPIO1", "L4LS"})
  BY GpioScript
<1> DEFINE c1 == pll_setup_interconnect
           g1 == {<<"L3S", "SW_WKUP">>, <<"L3", "SW_WKUP">>, <<"OCPWP_L3", "SW_WKUP">>,
                  <<"L4LS", "SW_WKUP">>, <<"L3_MODULE", "FUNC">>, <<"L3_INSTR", "FUNC">>}
           r1 == {"L3S", "L3", "L3_INSTR", "L3_MODULE", "OCPWP_L3", "L4LS", "L4LS_MODULE"}
           u1 == {"L3S", "L3", "L3_INSTR", "L3_MODULE", "OCPWP_L3", "L4LS", "L4LS_MODULE"}
           c2 == c1 \o pll_setup_wkup
           g2 == g1 \cup {<<"CONTROL", "FUNC">>, <<"UART0", "FUNC">>, <<"WKUP", "L4_WKUP_GCLK">>,
                          <<"WKUP", "UART0_GFCLK">>}
           u2 == u1 \cup {"CONTROL", "WKUP", "L3_AON", "UART0", "L4WKUP", "L4_WKUP_AON"}
           c3 == c2 \o pll_setup_timers
           g3 == g2 \cup {<<"TIMER2", "FUNC">>}
           r3 == r1 \cup {"CLKSEL_TIMER2"}
           u3 == u2 \cup {"CLKSEL_TIMER2", "TIMER2", "L3S", "L3", "OCPWP_L3", "L4LS"}
           c4 == c3 \o pll_setup_gpio
           g4 == g3 \cup {<<"GPIO1", "FUNC">>, <<"L4LS", "GPIO_1_GDBCLK">>}
           u4 == u3 \cup {"GPIO1", "L4LS"}
<1> HIDE DEF c1, c2, c3, c4
<1>5. Script(c1, AlwaysOn, g1, r1, u1)
  BY <1>1, ScriptWeaken DEF c1, AlwaysOn
<1>6. Script(c2, AlwaysOn, g2, r1, u2)
  <2>1. Script(c1 \o pll_setup_wkup, AlwaysOn,
               g1 \cup {<<"CONTROL", "FUNC">>, <<"UART0", "FUNC">>, <<"WKUP", "L4_WKUP_GCLK">>,
               <<"WKUP", "UART0_GFCLK">>},
               r1 \cup {},
               u1 \cup {"CONTROL", "WKUP", "L3_AON", "UART0", "L4WKUP", "L4_WKUP_AON"})
    BY <1>5, <1>2, ScriptConcat DEF AlwaysOn
  <2> QED BY <2>1, ScriptWeaken DEF c2
<1>7. Script(c3, AlwaysOn, g3, r3, u3)
  <2>1. Script(c2 \o pll_setup_timers, AlwaysOn,
               g2 \cup {<<"TIMER2", "FUNC">>},
               r1 \cup {"CLKSEL_TIMER2"},
               u2 \cup {"CLKSEL_TIMER2", "TIMER2", "L3S", "L3", "OCPWP_L3", "L4LS"})
    BY <1>6, <1>3, ScriptConcat DEF AlwaysOn, BusesWoken
  <2> QED BY <2>1, ScriptWeaken DEF c3
<1>8. Script(c4, AlwaysOn, g4, r3, u4)
  <2>1. Script(c3 \o pll_setup_gpio, AlwaysOn,
               g3 \cup {<<"GPIO1", "FUNC">>, <<"L4LS", "GPIO_1_GDBCLK">>},
               r3 \cup {},
               u3 \cup {"GPIO1", "L4LS"})
    BY <1>7, <1>4, ScriptConcat DEF AlwaysOn, BusesWoken
  <2> QED BY <2>1, ScriptWeaken DEF c4
<1>e. c4 = pll_setup
  BY DEF pll_setup, c1, c2, c3, c4
<1>g. BusesWoken \cup DevicesReady \subseteq g4
  BY DEF BusesWoken, DevicesReady
<1>r. r3 \subseteq BusRegs \cup {"CLKSEL_TIMER2"}
  BY DEF BusRegs
<1>u. u4 \subseteq PrcmRegs
  BY AllPrcmRegs DEF BusRegs, WkupRegs, DeviceRegs
<1> QED BY <1>8, <1>e, <1>g, <1>r, <1>u, ScriptWeaken

\* The clock server's timer
LEMMA DMTimer3Script ==
    Script(DMTimer3ModuleClkConfig, BusesWoken, {<<"TIMER3", "FUNC">>}, {"CLKSEL_TIMER3"}, PrcmRegs)
<1>1. Script(DMTimer3ModuleClkConfig, BusesWoken, {<<"TIMER3", "FUNC">>}, {"CLKSEL_TIMER3"},
             {"CLKSEL_TIMER3", "TIMER3", "L3S", "L3", "OCPWP_L3", "L4LS"})
  BY TimerClkScript DEF DMTimer3ModuleClkConfig, OwnClock
<1>2. {"CLKSEL_TIMER3", "TIMER3", "L3S", "L3", "OCPWP_L3", "L4LS"} \subseteq PrcmRegs
  BY AllPrcmRegs DEF BusRegs, DeviceRegs
<1> QED BY <1>1, <1>2, ScriptWeaken

-----------------------------------------------------------------------------

\* The fields of S are in the registers.
Hold(S) == \A r \in PrcmRegs : \A f \in Fields : <<r, f>> \in S => f \in prcm[r]

\* What the script that runs starts from
From(S, G, R) == /\ Script(script, S, G, R, PrcmRegs)
                 /\ \A r \in R : \A f \in Fields : <<r, f>> \notin S
                 /\ Hold(S \cup GivenBefore(script, step))

\* The domain of a module that is ready runs, and so does a timer's clock.
ReadyRuns == \A m \in DOMAIN ModuleDomain : "FUNC" \in prcm[m] =>
    /\ DomainClocks[ModuleDomain[m]] \subseteq prcm[ModuleDomain[m]]
    /\ m \in {"TIMER2", "TIMER3"} => OwnClock[m][1] \in prcm[ModuleDomain[m]]

ClockTreeInv ==
    /\ DOMAIN prcm = PrcmRegs
    /\ step \in 1 .. Len(script) + 1
    /\ ReadyRuns
    /\ \/ /\ script = pll_setup
          /\ From(AlwaysOn, BusesWoken \cup DevicesReady, BusRegs \cup {"CLKSEL_TIMER2"})
       \/ /\ script = DMTimer3ModuleClkConfig
          /\ From(BusesWoken, {<<"TIMER3", "FUNC">>}, {"CLKSEL_TIMER3"})

LEMMA Tables ==
    /\ DOMAIN DomainClocks = {"L3S", "L3", "OCPWP_L3", "L4LS", "WKUP", "L3_AON"}
    /\ DOMAIN ModuleDomain = {"L3_INSTR", "L3_MODULE", "L4LS_MODULE", "CONTROL", "UART0", "TIMER2",
                              "TIMER3", "GPIO1"}
    /\ DOMAIN OwnClock = {"UART0", "TIMER2", "TIMER3", "GPIO1"}
    /\ \A m \in DOMAIN ModuleDomain : m \in PrcmRegs /\ ModuleDomain[m] \in DOMAIN DomainClocks
    /\ \A d \in DOMAIN DomainClocks : d \in PrcmRegs /\ DomainClocks[d] \subseteq Clocks
    /\ \A m \in DOMAIN OwnClock : /\ m \in DOMAIN ModuleDomain /\ OwnClock[m][1] \in Clocks
                                  /\ OwnClock[m][2] \in PrcmRegs /\ OwnClock[m][3] \in Control
    /\ OwnClock["TIMER2"][2] = "CLKSEL_TIMER2" /\ OwnClock["TIMER3"][2] = "CLKSEL_TIMER3"
    /\ OwnClock["TIMER2"][3] = "OSC" /\ OwnClock["TIMER3"][3] = "OSC"
<1>1. DOMAIN DomainClocks = {"L3S", "L3", "OCPWP_L3", "L4LS", "WKUP", "L3_AON"}
  BY DEF DomainClocks
<1>2. DOMAIN ModuleDomain = {"L3_INSTR", "L3_MODULE", "L4LS_MODULE", "CONTROL", "UART0", "TIMER2",
                             "TIMER3", "GPIO1"}
  BY DEF ModuleDomain
<1>3. DOMAIN OwnClock = {"UART0", "TIMER2", "TIMER3", "GPIO1"}
  BY DEF OwnClock
<1>4. \A m \in DOMAIN ModuleDomain : m \in PrcmRegs /\ ModuleDomain[m] \in DOMAIN DomainClocks
  BY <1>1, <1>2 DEF PrcmRegs, ModuleDomain
<1>5. \A d \in DOMAIN DomainClocks : d \in PrcmRegs /\ DomainClocks[d] \subseteq Clocks
  <2>1. \A d \in DOMAIN DomainClocks : d \in PrcmRegs
    BY DEF PrcmRegs
  <2>2. /\ DomainClocks["L3S"] \subseteq Clocks /\ DomainClocks["L3"] \subseteq Clocks
        /\ DomainClocks["OCPWP_L3"] \subseteq Clocks /\ DomainClocks["L4LS"] \subseteq Clocks
        /\ DomainClocks["WKUP"] \subseteq Clocks /\ DomainClocks["L3_AON"] \subseteq Clocks
    BY DEF DomainClocks, Clocks
  <2> QED BY <2>1, <2>2, <1>1
<1>6. OwnClock["UART0"] = <<"UART0_GFCLK", "UART0", "ENABLE">>
  BY DEF OwnClock
<1>7. OwnClock["TIMER2"] = <<"TIMER2_GCLK", "CLKSEL_TIMER2", "OSC">>
  BY DEF OwnClock
<1>8. OwnClock["TIMER3"] = <<"TIMER3_GCLK", "CLKSEL_TIMER3", "OSC">>
  BY DEF OwnClock
<1>9. OwnClock["GPIO1"] = <<"GPIO_1_GDBCLK", "GPIO1", "OPTFCLKEN">>
  BY DEF OwnClock
<1>10. \A m \in DOMAIN OwnClock : /\ m \in DOMAIN ModuleDomain /\ OwnClock[m][1] \in Clocks
                                  /\ OwnClock[m][2] \in PrcmRegs /\ OwnClock[m][3] \in Control
  <2>1. {"UART0", "GPIO1", "CLKSEL_TIMER2", "CLKSEL_TIMER3"} \subseteq PrcmRegs
    BY AllPrcmRegs DEF WkupRegs, DeviceRegs
  <2> QED BY <2>1, <1>2, <1>3, <1>6, <1>7, <1>8, <1>9 DEF Clocks, Control
<1> QED BY <1>1, <1>2, <1>3, <1>4, <1>5, <1>7, <1>8, <1>10

\* What a line waits for comes, if it is justified.
LEMMA JustifiedActs ==
    ASSUME NEW S, Hold(S), NEW e \in ScriptLines, Justified(S, e), e.flags \cap prcm[e.reg] = {}
    PROVE  PrcmMayAct
<1>0. e.reg \in PrcmRegs /\ e.flags \subseteq Fields
  BY DEF ScriptLines
<1>f. {"SW_WKUP", "ENABLE", "OSC"} \subseteq Fields
  BY DEF Fields, Control
<1>1. ASSUME NEW f \in e.flags, <<e.reg, f>> \in S PROVE FALSE
  BY <1>0, <1>1 DEF Hold
<1>2. CASE /\ e.reg \in DOMAIN DomainClocks /\ e.flags \cap DomainClocks[e.reg] # {}
           /\ <<e.reg, "SW_WKUP">> \in S
  <2>1. "SW_WKUP" \in prcm[e.reg]
    BY <1>0, <1>2, <1>f DEF Hold
  <2>2. ~ DomainClocks[e.reg] \subseteq prcm[e.reg]
    BY <1>2
  <2> QED BY <1>2, <2>1, <2>2 DEF PrcmMayAct, MayWake
<1>3. ASSUME NEW m \in DOMAIN OwnClock, e.reg = ModuleDomain[m], OwnClock[m][1] \in e.flags,
             <<m, "ENABLE">> \in S, <<OwnClock[m][2], OwnClock[m][3]>> \in S
      PROVE  PrcmMayAct
  <2>1. m \in PrcmRegs /\ OwnClock[m][2] \in PrcmRegs /\ OwnClock[m][3] \in Fields
    BY Tables DEF Fields
  <2>2. "ENABLE" \in prcm[m] /\ OwnClock[m][3] \in prcm[OwnClock[m][2]]
    BY <2>1, <1>3, <1>f DEF Hold
  <2>3. OwnClock[m][1] \notin prcm[ModuleDomain[m]]
    BY <1>3
  <2> QED BY <2>2, <2>3 DEF PrcmMayAct, MayStart
<1>4. CASE /\ e.reg \in DOMAIN ModuleDomain /\ "FUNC" \in e.flags
           /\ <<e.reg, "ENABLE">> \in S /\ <<ModuleDomain[e.reg], "SW_WKUP">> \in S
           /\ e.reg \in {"TIMER2", "TIMER3"} => <<OwnClock[e.reg][2], "OSC">> \in S
  <2> DEFINE d == ModuleDomain[e.reg]
  <2>1. d \in DOMAIN DomainClocks /\ d \in PrcmRegs
    BY <1>4, Tables
  <2>2. "ENABLE" \in prcm[e.reg] /\ "SW_WKUP" \in prcm[d] /\ "FUNC" \notin prcm[e.reg]
    BY <2>1, <1>0, <1>4, <1>f DEF Hold
  <2>3. CASE ~ DomainClocks[d] \subseteq prcm[d]
    BY <2>1, <2>2, <2>3 DEF PrcmMayAct, MayWake
  <2>4. CASE e.reg \in {"TIMER2", "TIMER3"} /\ OwnClock[e.reg][1] \notin prcm[d]
    <3>1. e.reg \in DOMAIN OwnClock /\ OwnClock[e.reg][3] = "OSC" /\ OwnClock[e.reg][2] \in PrcmRegs
      BY <2>4, Tables
    <3>2. "OSC" \in prcm[OwnClock[e.reg][2]]
      BY <3>1, <1>4, <2>4, <1>f DEF Hold
    <3> QED BY <3>1, <3>2, <2>2, <2>4 DEF PrcmMayAct, MayStart
  <2>5. CASE /\ DomainClocks[d] \subseteq prcm[d]
             /\ e.reg \in {"TIMER2", "TIMER3"} => OwnClock[e.reg][1] \in prcm[d]
    BY <2>2, <2>5, <1>4 DEF PrcmMayAct, MayAnswer
  <2> QED BY <2>3, <2>4, <2>5
<1> QED BY <1>1, <1>2, <1>3, <1>4 DEF Justified

\* A put keeps a clock and a FUNC, and what a line does not touch it leaves.
LEMMA LineKeeps ==
    ASSUME DOMAIN prcm = PrcmRegs, NEW e \in ScriptLines, Executes(e)
    PROVE  /\ DOMAIN prcm' = PrcmRegs
           /\ \A r \in PrcmRegs : r # e.reg => prcm'[r] = prcm[r]
           /\ \A f : f \notin Control => (f \in prcm'[e.reg] <=> f \in prcm[e.reg])
           /\ ~ Resets(e) => prcm[e.reg] \subseteq prcm'[e.reg]
           /\ \A f \in Sets(e) : f \in prcm'[e.reg]
<1>0. e.reg \in PrcmRegs /\ (e.op # "await" => e.flags \subseteq Control)
      /\ e.op \in {"put", "or", "without", "await"}
  BY DEF ScriptLines
<1>1. CASE e.op = "put" /\ prcm' = [prcm EXCEPT ![e.reg] = e.flags \cup Status(e.reg)]
  <2>1. prcm'[e.reg] = e.flags \cup Status(e.reg)
    BY <1>0, <1>1
  <2> QED BY <1>0, <1>1, <2>1 DEF Status, Control, Resets, Sets
<1>2. CASE e.op = "or" /\ prcm' = [prcm EXCEPT ![e.reg] = @ \cup e.flags]
  <2>1. prcm'[e.reg] = prcm[e.reg] \cup e.flags
    BY <1>0, <1>2
  <2> QED BY <1>0, <1>2, <2>1 DEF Resets, Sets
<1>3. CASE e.op = "without" /\ prcm' = [prcm EXCEPT ![e.reg] = @ \ e.flags]
  <2>1. prcm'[e.reg] = prcm[e.reg] \ e.flags
    BY <1>0, <1>3
  <2> QED BY <1>0, <1>3, <2>1 DEF Resets, Sets
<1>4. CASE e.op = "await" /\ e.flags \cap prcm[e.reg] # {} /\ prcm' = prcm
  BY <1>0, <1>4 DEF Resets, Sets
<1> QED BY <1>1, <1>2, <1>3, <1>4 DEF Executes

\* The clock module only adds, and a FUNC only where the module's domain runs.
LEMMA PrcmKeeps ==
    ASSUME DOMAIN prcm = PrcmRegs, ReadyRuns, Prcm
    PROVE  /\ DOMAIN prcm' = PrcmRegs
           /\ \A r \in PrcmRegs : prcm[r] \subseteq prcm'[r]
           /\ ReadyRuns'
           /\ UNCHANGED <<step, script>>
<1>0. UNCHANGED <<step, script>>
  BY DEF Prcm
<1>1. ASSUME NEW r \in PrcmRegs, NEW F, Add(r, F),
             "FUNC" \in F => r \in DOMAIN ModuleDomain /\ MayAnswer(r)
      PROVE  DOMAIN prcm' = PrcmRegs /\ (\A q \in PrcmRegs : prcm[q] \subseteq prcm'[q]) /\ ReadyRuns'
  <2>1. DOMAIN prcm' = PrcmRegs /\ prcm'[r] = prcm[r] \cup F /\ \A q \in PrcmRegs : q # r => prcm'[q] = prcm[q]
    BY <1>1 DEF Add
  <2>2. \A q \in PrcmRegs : prcm[q] \subseteq prcm'[q]
    BY <2>1
  <2>3. ASSUME NEW m \in DOMAIN ModuleDomain, "FUNC" \in prcm'[m]
        PROVE  /\ DomainClocks[ModuleDomain[m]] \subseteq prcm'[ModuleDomain[m]]
               /\ m \in {"TIMER2", "TIMER3"} => OwnClock[m][1] \in prcm'[ModuleDomain[m]]
    <3>1. m \in PrcmRegs /\ ModuleDomain[m] \in PrcmRegs
      BY Tables
    <3>2. /\ DomainClocks[ModuleDomain[m]] \subseteq prcm[ModuleDomain[m]]
          /\ m \in {"TIMER2", "TIMER3"} => OwnClock[m][1] \in prcm[ModuleDomain[m]]
      <4>1. CASE "FUNC" \in prcm[m]
        BY <4>1 DEF ReadyRuns
      <4>2. CASE "FUNC" \notin prcm[m]
        <5>1. m = r /\ "FUNC" \in F
          BY <4>2, <2>1, <2>3, <3>1
        <5> QED BY <5>1, <1>1 DEF MayAnswer
      <4> QED BY <4>1, <4>2
    <3> QED BY <2>2, <3>1, <3>2
  <2> QED BY <2>1, <2>2, <2>3 DEF ReadyRuns
<1>2. CASE DomainWakes
  <2>1. PICK d \in DOMAIN DomainClocks : Add(d, DomainClocks[d])
    BY <1>2 DEF DomainWakes
  <2>2. d \in PrcmRegs /\ "FUNC" \notin DomainClocks[d]
    BY Tables DEF Clocks
  <2> QED BY <2>1, <2>2, <1>1, <1>0
<1>3. CASE OwnClockStarts
  <2>1. PICK m \in DOMAIN OwnClock : Add(ModuleDomain[m], {OwnClock[m][1]})
    BY <1>3 DEF OwnClockStarts
  <2>2. ModuleDomain[m] \in PrcmRegs /\ "FUNC" \notin {OwnClock[m][1]}
    BY Tables DEF Clocks
  <2> QED BY <2>1, <2>2, <1>1, <1>0
<1>4. CASE ModuleReady
  <2>1. PICK m \in DOMAIN ModuleDomain : MayAnswer(m) /\ Add(m, {"FUNC"})
    BY <1>4 DEF ModuleReady
  <2>2. m \in PrcmRegs
    BY Tables
  <2> QED BY <2>1, <2>2, <1>1, <1>0
<1> QED BY <1>2, <1>3, <1>4 DEF Prcm

\* A script goes on from what it started from.
LEMMA FromKept ==
    ASSUME NEW S, NEW G, NEW R, From(S, G, R), step \in 1 .. Len(script),
           DOMAIN prcm = PrcmRegs, Processor
    PROVE  From(S, G, R)'
<1>0. script \in Seq(ScriptLines) /\ script' = script /\ step' = step + 1 /\ step \in Nat
      /\ script[step] \in ScriptLines /\ Executes(script[step])
  BY DEF From, Script, Processor
<1> DEFINE e == script[step]
<1>1. e \in ScriptLines /\ Executes(e) /\ e.reg \in PrcmRegs
  BY <1>0 DEF ScriptLines
<1>2. (Resets(e) => e.reg \in R) /\ Fresh(script)
  BY DEF From, Script
<1>3. /\ \A r \in PrcmRegs : r # e.reg => prcm'[r] = prcm[r]
      /\ ~ Resets(e) => prcm[e.reg] \subseteq prcm'[e.reg]
      /\ \A f \in Sets(e) : f \in prcm'[e.reg]
  BY <1>1, LineKeeps
<1> DEFINE Before == GivenBefore(script, step)
           After  == GivenBefore(script, step + 1)
<1>4. \A r, f : <<r, f>> \in After => <<r, f>> \in Before \/ (r = e.reg /\ f \in Sets(e))
  <2> SUFFICES ASSUME NEW r, NEW f, <<r, f>> \in After
               PROVE  <<r, f>> \in Before \/ (r = e.reg /\ f \in Sets(e))
    OBVIOUS
  <2>1. PICK j \in 1 .. (step + 1) - 1 : <<r, f>> \in {<<script[j].reg, g>> : g \in Sets(script[j])}
    BY DEF GivenBefore
  <2>2. r = script[j].reg /\ f \in Sets(script[j])
    BY <2>1
  <2>3. CASE j = step
    BY <2>2, <2>3
  <2>4. CASE j # step
    <3>1. j \in 1 .. step - 1
      BY <2>4, <1>0
    <3> QED BY <3>1, <2>1 DEF GivenBefore
  <2> QED BY <2>3, <2>4
<1>5. Resets(e) => \A r, f : <<r, f>> \in Before => r # e.reg
  <2> SUFFICES ASSUME Resets(e), NEW r, NEW f, <<r, f>> \in Before PROVE r # e.reg
    OBVIOUS
  <2>1. PICK j \in 1 .. step - 1 : <<r, f>> \in {<<script[j].reg, g>> : g \in Sets(script[j])}
    BY DEF GivenBefore
  <2>2. r = script[j].reg
    BY <2>1
  <2>3. j \in 1 .. Len(script) /\ j < step
    BY <1>0
  <2> QED BY <2>2, <2>3, <1>2 DEF Fresh
<1>6. Hold(S \cup Before) /\ \A r \in R : \A f \in Fields : <<r, f>> \notin S
  BY DEF From
<1>7. Hold(S \cup GivenBefore(script, step))'
  <2> SUFFICES ASSUME NEW r \in PrcmRegs, NEW f \in Fields, <<r, f>> \in S \cup GivenBefore(script', step')
               PROVE  f \in prcm'[r]
    BY DEF Hold
  <2>1. <<r, f>> \in S \cup Before \/ (r = e.reg /\ f \in Sets(e))
    BY <1>0, <1>4
  <2>2. CASE r = e.reg /\ f \in Sets(e)
    BY <2>2, <1>3
  <2>3. CASE <<r, f>> \in S \cup Before
    <3>1. f \in prcm[r]
      BY <2>3, <1>6 DEF Hold
    <3>2. Resets(e) => r # e.reg
      BY <2>3, <1>2, <1>5, <1>6
    <3> QED BY <3>1, <3>2, <1>3
  <2> QED BY <2>1, <2>2, <2>3
<1> QED BY <1>0, <1>6, <1>7 DEF From, Hold

LEMMA FromGrows ==
    ASSUME NEW S, NEW G, NEW R, From(S, G, R), UNCHANGED <<step, script>>,
           \A r \in PrcmRegs : prcm[r] \subseteq prcm'[r]
    PROVE  From(S, G, R)'
BY DEF From, Hold

\* A script that starts, starts from what holds.
LEMMA FromStart ==
    ASSUME NEW S, NEW G, NEW R, Script(script, S, G, R, PrcmRegs), step = 1,
           \A r \in R : \A f \in Fields : <<r, f>> \notin S, Hold(S)
    PROVE  From(S, G, R)
<1>1. GivenBefore(script, step) = {}
  BY DEF GivenBefore
<1> QED BY <1>1 DEF From

\* AlwaysOn and BusesWoken are about registers that the scripts do not reset.
LEMMA StartsKept ==
    /\ \A r \in BusRegs \cup {"CLKSEL_TIMER2"} : \A f \in Fields : <<r, f>> \notin AlwaysOn
    /\ \A r \in {"CLKSEL_TIMER3"} : \A f \in Fields : <<r, f>> \notin BusesWoken
BY DEF BusRegs, AlwaysOn, BusesWoken

LEMMA ClockTreeInitInv == ASSUME ClockTreeInit PROVE ClockTreeInv
<1>1. script = pll_setup /\ step = 1
  BY DEF ClockTreeInit
<1>2. PICK warm \in SUBSET {"L3", "L4LS", "WKUP"}, console \in BOOLEAN :
         prcm = [r \in PrcmRegs |->
                    IF r \in warm THEN {"SW_WKUP"} \cup DomainClocks[r]
                    ELSE IF r = "UART0" /\ console /\ "WKUP" \in warm THEN {"ENABLE", "FUNC"}
                    ELSE IF r = "L4WKUP" THEN {"FUNC"}
                    ELSE IF r = "L4_WKUP_AON" THEN {"L4_WKUP_AON_GCLK"}
                    ELSE IF r \in {"CLKSEL_TIMER2", "CLKSEL_TIMER3"} THEN {"OTHER"} ELSE {}]
  BY DEF ClockTreeInit
<1>3. DOMAIN prcm = PrcmRegs
  BY <1>2
<1>4. Script(script, AlwaysOn, BusesWoken \cup DevicesReady, BusRegs \cup {"CLKSEL_TIMER2"}, PrcmRegs)
  BY <1>1, PllSetupScript
<1>5. Hold(AlwaysOn)
  <2>1. {"L4WKUP", "L4_WKUP_AON"} \subseteq PrcmRegs
    BY AllPrcmRegs DEF WkupRegs
  <2>2. "FUNC" \in prcm["L4WKUP"] /\ "L4_WKUP_AON_GCLK" \in prcm["L4_WKUP_AON"]
    BY <1>2, <2>1
  <2> QED BY <2>2 DEF Hold, AlwaysOn
<1>6. From(AlwaysOn, BusesWoken \cup DevicesReady, BusRegs \cup {"CLKSEL_TIMER2"})
  BY <1>1, <1>4, <1>5, StartsKept, FromStart
<1>7. ReadyRuns
  <2> SUFFICES ASSUME NEW m \in DOMAIN ModuleDomain, "FUNC" \in prcm[m]
               PROVE  /\ DomainClocks[ModuleDomain[m]] \subseteq prcm[ModuleDomain[m]]
                      /\ m \in {"TIMER2", "TIMER3"} => OwnClock[m][1] \in prcm[ModuleDomain[m]]
    BY DEF ReadyRuns
  <2>1. m \in PrcmRegs /\ m \notin warm /\ m # "L4WKUP"
    BY Tables
  <2>2. m = "UART0" /\ "WKUP" \in warm
    BY <2>1, <1>2
  <2>3. ModuleDomain[m] = "WKUP" /\ "WKUP" \in PrcmRegs
    BY <2>2, AllPrcmRegs DEF ModuleDomain, WkupRegs
  <2>4. prcm["WKUP"] = {"SW_WKUP"} \cup DomainClocks["WKUP"]
    BY <1>2, <2>2, <2>3
  <2> QED BY <2>2, <2>3, <2>4
<1>8. step \in 1 .. Len(script) + 1
  <2>1. Len(script) \in Nat
    BY <1>4 DEF Script
  <2> QED BY <2>1, <1>1
<1> QED BY <1>1, <1>3, <1>6, <1>7, <1>8 DEF ClockTreeInv

LEMMA ClockTreeStep == ASSUME ClockTreeInv, ClockTreeNext PROVE ClockTreeInv'
<1>0. DOMAIN prcm = PrcmRegs /\ step \in 1 .. Len(script) + 1 /\ ReadyRuns
  BY DEF ClockTreeInv
<1> DEFINE First  == /\ script = pll_setup
                     /\ From(AlwaysOn, BusesWoken \cup DevicesReady, BusRegs \cup {"CLKSEL_TIMER2"})
           Second == /\ script = DMTimer3ModuleClkConfig
                     /\ From(BusesWoken, {<<"TIMER3", "FUNC">>}, {"CLKSEL_TIMER3"})
<1>1. First \/ Second
  BY DEF ClockTreeInv
<1>2. script \in Seq(ScriptLines)
  BY <1>1 DEF From, Script
<1>3. CASE Prcm
  <2>1. /\ DOMAIN prcm' = PrcmRegs
        /\ \A r \in PrcmRegs : prcm[r] \subseteq prcm'[r]
        /\ ReadyRuns'
        /\ UNCHANGED <<step, script>>
    BY <1>0, <1>3, PrcmKeeps
  <2>2. First \/ Second => (First \/ Second)'
    BY <2>1, FromGrows
  <2> QED BY <2>1, <2>2, <1>0, <1>1 DEF ClockTreeInv
<1>4. CASE Processor
  <2>1. step \in 1 .. Len(script) /\ step' = step + 1 /\ script' = script
    BY <1>0, <1>2, <1>4 DEF Processor, Finished
  <2>2. step' \in 1 .. Len(script') + 1
    BY <2>1, <1>2
  <2>3. First => First'
    BY <2>1, <1>0, <1>4, FromKept
  <2>4. Second => Second'
    BY <2>1, <1>0, <1>4, FromKept
  <2>5. script[step] \in ScriptLines /\ Executes(script[step])
    BY <2>1, <1>2, <1>4 DEF Processor
  <2>6. /\ DOMAIN prcm' = PrcmRegs
        /\ \A r \in PrcmRegs : r # script[step].reg => prcm'[r] = prcm[r]
        /\ \A f : f \notin Control => (f \in prcm'[script[step].reg] <=> f \in prcm[script[step].reg])
    BY <1>0, <2>5, LineKeeps
  <2>7. ASSUME NEW r \in PrcmRegs, NEW f, f \notin Control PROVE f \in prcm'[r] <=> f \in prcm[r]
    BY <2>6, <2>7
  <2>8. ReadyRuns'
    <3> SUFFICES ASSUME NEW m \in DOMAIN ModuleDomain, "FUNC" \in prcm'[m]
                 PROVE  /\ DomainClocks[ModuleDomain[m]] \subseteq prcm'[ModuleDomain[m]]
                        /\ m \in {"TIMER2", "TIMER3"} => OwnClock[m][1] \in prcm'[ModuleDomain[m]]
      BY DEF ReadyRuns
    <3>1. m \in PrcmRegs /\ ModuleDomain[m] \in PrcmRegs /\ DomainClocks[ModuleDomain[m]] \subseteq Clocks
      BY Tables
    <3>2. m \in {"TIMER2", "TIMER3"} => OwnClock[m][1] \in Clocks
      BY Tables
    <3>3. "FUNC" \notin Control /\ \A f \in Clocks : f \notin Control
      BY DEF Control, Clocks
    <3>4. "FUNC" \in prcm[m]
      BY <3>1, <3>3, <2>7
    <3>5. /\ DomainClocks[ModuleDomain[m]] \subseteq prcm[ModuleDomain[m]]
          /\ m \in {"TIMER2", "TIMER3"} => OwnClock[m][1] \in prcm[ModuleDomain[m]]
      BY <3>4, <1>0 DEF ReadyRuns
    <3> QED BY <3>1, <3>2, <3>3, <3>5, <2>7
  <2> QED BY <2>2, <2>3, <2>4, <2>6, <2>8, <1>1 DEF ClockTreeInv
<1>5. CASE clock_init_starts
  <2>1. /\ step > Len(script) /\ script = pll_setup
        /\ script' = DMTimer3ModuleClkConfig /\ step' = 1 /\ prcm' = prcm
    BY <1>5 DEF clock_init_starts, Finished
  <2>2. step = Len(script) + 1
    BY <2>1, <1>0, <1>2
  <2>3. Hold(BusesWoken)
    <3>1. CASE First
      <4>1. BusesWoken \subseteq Given(script)
        BY <3>1 DEF From, Script
      <4> QED BY <3>1, <4>1, <2>2 DEF From, Hold, Given
    <3>2. CASE Second
      BY <3>2 DEF From, Hold
    <3> QED BY <3>1, <3>2, <1>1
  <2>4. Script(script', BusesWoken, {<<"TIMER3", "FUNC">>}, {"CLKSEL_TIMER3"}, PrcmRegs)
    BY <2>1, DMTimer3Script
  <2>5. GivenBefore(script', step') = {}
    BY <2>1 DEF GivenBefore
  <2>6. Second'
    BY <2>1, <2>3, <2>4, <2>5, StartsKept DEF From, Hold
  <2>7. step' \in 1 .. Len(script') + 1
    <3>1. Len(script') \in Nat
      BY <2>4 DEF Script
    <3> QED BY <3>1, <2>1
  <2>8. ReadyRuns'
    BY <2>1, <1>0 DEF ReadyRuns
  <2> QED BY <2>1, <2>6, <2>7, <2>8, <1>0 DEF ClockTreeInv
<1> QED BY <1>3, <1>4, <1>5 DEF ClockTreeNext

LEMMA ClockTreeInvStrong == ASSUME ClockTreeInv PROVE ClocksComeUp
<1>0. step \in 1 .. Len(script) + 1 /\ ReadyRuns
  BY DEF ClockTreeInv
<1>1. PICK S, G, R : From(S, G, R)
  BY DEF ClockTreeInv
<1>2. script \in Seq(ScriptLines) /\ Justifies(S, script) /\ Hold(S \cup GivenBefore(script, step))
  BY <1>1 DEF From, Script
<1>3. Waits => PrcmMayAct
  <2> SUFFICES ASSUME Waits PROVE PrcmMayAct
    OBVIOUS
  <2>1. step \in 1 .. Len(script)
    BY <1>0, <1>2 DEF Waits, Finished
  <2>2. script[step] \in ScriptLines /\ script[step].flags \cap prcm[script[step].reg] = {}
        /\ script[step].op = "await"
    BY <2>1, <1>2 DEF Waits
  <2>3. Justified(S \cup GivenBefore(script, step), script[step])
    BY <2>1, <2>2, <1>2 DEF Justifies
  <2> QED BY <2>2, <2>3, <1>2, JustifiedActs
<1>4. ASSUME Finished, NEW H, NEW T, NEW Q, Script(script, T, H, Q, PrcmRegs)
      PROVE  Hold(H)
  <2>1. step = Len(script) + 1
    BY <1>0, <1>2, <1>4 DEF Finished
  <2>2. H \subseteq GivenBefore(script, step)
    BY <1>4, <2>1 DEF Script, Given
  <2> QED BY <2>2, <1>2 DEF Hold
<1>f. "FUNC" \in Fields /\ Clocks \subseteq Fields
  BY DEF Fields
<1>m. /\ ModuleDomain["TIMER2"] = "L4LS" /\ ModuleDomain["TIMER3"] = "L4LS"
      /\ OwnClock["TIMER2"][1] = "TIMER2_GCLK" /\ OwnClock["TIMER3"][1] = "TIMER3_GCLK"
      /\ "L4LS_GCLK" \in DomainClocks["L4LS"]
  BY DEF ModuleDomain, OwnClock, DomainClocks
<1>t. \A m \in {"TIMER2", "TIMER3"} : "FUNC" \in prcm[m] =>
         "L4LS_GCLK" \in prcm["L4LS"] /\ OwnClock[m][1] \in prcm["L4LS"]
  BY <1>0, <1>m, Tables DEF ReadyRuns
<1>5. ASSUME Finished, script = pll_setup
      PROVE  /\ Functional({"UART0", "TIMER2", "GPIO1", "L3_MODULE", "L3_INSTR", "CONTROL"})
             /\ {"L4LS_GCLK", "TIMER2_GCLK", "GPIO_1_GDBCLK"} \subseteq prcm["L4LS"]
             /\ {"L4_WKUP_GCLK", "UART0_GFCLK"} \subseteq prcm["WKUP"]
  <2>1. Hold(BusesWoken \cup DevicesReady)
    BY <1>4, <1>5, PllSetupScript
  <2>2. {"UART0", "TIMER2", "GPIO1", "L3_MODULE", "L3_INSTR", "CONTROL", "WKUP", "L4LS"} \subseteq PrcmRegs
    BY AllPrcmRegs DEF BusRegs, WkupRegs, DeviceRegs
  <2>3. \A r \in {"UART0", "TIMER2", "GPIO1", "L3_MODULE", "L3_INSTR", "CONTROL"} : "FUNC" \in prcm[r]
    BY <2>1, <2>2, <1>f DEF Hold, DevicesReady
  <2>4. {"L4_WKUP_GCLK", "UART0_GFCLK", "GPIO_1_GDBCLK"} \subseteq Fields
    BY <1>f DEF Clocks
  <2>5. {"L4_WKUP_GCLK", "UART0_GFCLK"} \subseteq prcm["WKUP"] /\ "GPIO_1_GDBCLK" \in prcm["L4LS"]
    BY <2>1, <2>2, <2>4 DEF Hold, DevicesReady
  <2>6. "L4LS_GCLK" \in prcm["L4LS"] /\ "TIMER2_GCLK" \in prcm["L4LS"]
    BY <2>3, <1>t, <1>m
  <2> QED BY <2>3, <2>5, <2>6 DEF Functional
<1>6. ASSUME Finished, script = DMTimer3ModuleClkConfig
      PROVE  Functional({"TIMER3"}) /\ {"L4LS_GCLK", "TIMER3_GCLK"} \subseteq prcm["L4LS"]
  <2>1. Hold({<<"TIMER3", "FUNC">>})
    BY <1>4, <1>6, DMTimer3Script
  <2>2. "TIMER3" \in PrcmRegs
    BY AllPrcmRegs DEF DeviceRegs
  <2>3. "FUNC" \in prcm["TIMER3"]
    BY <2>1, <2>2, <1>f DEF Hold
  <2>4. "L4LS_GCLK" \in prcm["L4LS"] /\ "TIMER3_GCLK" \in prcm["L4LS"]
    BY <2>3, <1>t, <1>m
  <2> QED BY <2>3, <2>4 DEF Functional
<1> QED BY <1>3, <1>5, <1>6 DEF ClocksComeUp

\* Wherever the boot loader left the clock module, no loop of pll_setup or of
\* DMTimer3ModuleClkConfig waits for a clock that was not asked for, and the
\* devices are ready, with their clocks, when each of the two returns.
THEOREM ClocksDoComeUp == ClockTreeSpec => []ClocksComeUp
<1>1. ClockTreeInit => ClockTreeInv
  BY ClockTreeInitInv
<1>2. ClockTreeInv /\ [ClockTreeNext]_clkTreeVars => ClockTreeInv'
  <2>1. ASSUME ClockTreeInv, UNCHANGED clkTreeVars PROVE ClockTreeInv'
    BY <2>1 DEF clkTreeVars, ClockTreeInv, From, Hold, ReadyRuns
  <2> QED BY <2>1, ClockTreeStep
<1>3. ClockTreeInv => ClocksComeUp
  BY ClockTreeInvStrong
<1> QED BY <1>1, <1>2, <1>3, PTL DEF ClockTreeSpec
=============================================================================
