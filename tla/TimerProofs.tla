---------------------------- MODULE TimerProofs -----------------------------
(* The interrupt controller and the timer do what the calls of their drivers *)
(* ask.                                                                      *)
EXTENDS Intc, DMTimer, SequenceTheorems, TLAPS

-----------------------------------------------------------------------------
(* The interrupt controller *)

BankRange == 0 .. Banks - 1
BitRange  == 0 .. BankBits - 1
BankSets  == [BankRange -> SUBSET BitRange]

IntcRegs == [MIR : BankSets, ISR : BankSets,
             ILR : [Irq -> [prio : Int, fiq : BOOLEAN]],
             SYSCONFIG : SUBSET {"AUTOIDLE"}, PROTECTION : SUBSET {"PROTECTION"},
             IDLE : SUBSET {"TURBO", "FUNCIDLE"}, THRESHOLD : Int]

Flags == SUBSET {"I", "F"}

IntcTypes ==
    /\ intc \in IntcRegs
    /\ latched \in Irq \cup {NoneIn}
    /\ cpsr \in Flags
    /\ at \in {"user", "kernel", "irq", "masked", "served", "resetting", "over"}
    /\ awaiting \subseteq owned
    /\ owned \subseteq Irq
    /\ nested \in Seq(Flags)

\* Where the handling of an IRQ is, and which IRQs are unmasked there
Handling ==
    /\ at \in {"user", "kernel", "resetting"} =>
          Unmasked = awaiting /\ (latched # NoneIn => latched \in awaiting)
    /\ at \in {"irq", "masked"} => latched = cur
    /\ at \in {"irq", "masked", "served"} => cur \in awaiting
    /\ at = "irq" => Unmasked = awaiting
    /\ at \in {"masked", "served"} => Unmasked = awaiting \ {cur}
    /\ at = "served" => (latched # NoneIn => latched \in awaiting \ {cur})

\* IRQs are off in the kernel, until its first task runs or in what comes
\* back to that: nobody awaits an IRQ yet.
EarlyKernel == (at = "kernel" /\ nested = << >> /\ "I" \notin cpsr) \/ (nested # << >> /\ "I" \notin nested[1])

Off ==
    /\ at = "user" => "I" \notin cpsr
    /\ at \in {"irq", "masked", "served"} => "I" \in cpsr
    /\ at # "kernel" => nested = << >>
    /\ nested # << >> => "I" \in cpsr /\ (\A n \in 2 .. Len(nested) : "I" \in nested[n])
    /\ EarlyKernel => awaiting = {}

SetExact ==
    at # "over" =>
          set = [autoidle |-> "AUTOIDLE" \in intc.SYSCONFIG,
                 protection |-> intc.PROTECTION # {},
                 turbo |-> "TURBO" \in intc.IDLE, funcidle |-> "FUNCIDLE" \in intc.IDLE,
                 threshold |-> IntPriorityThresholdGet,
                 soft |-> {i \in Irq : Bit(i) \in intc.ISR[Bank(i)]}]

IntcInv == IntcTypes /\ Handling /\ Off /\ SetExact

-----------------------------------------------------------------------------
\* Register and bit of a number, in whatever base
LEMMA DivMod ==
    ASSUME NEW b \in Nat \ {0}, NEW i \in Int
    PROVE  /\ i \div b \in Int /\ i % b \in 0 .. b - 1
           /\ i = b * (i \div b) + (i % b)
OBVIOUS

LEMMA BankBitFacts ==
    ASSUME IntcAssumption
    PROVE  /\ \A i \in Irq : Bank(i) \in BankRange /\ Bit(i) \in BitRange
           /\ \A i, j \in Irq : Bank(i) = Bank(j) /\ Bit(i) = Bit(j) => i = j
<1>1. Banks \in Nat \ {0} /\ BankBits \in Nat \ {0}
  BY DEF IntcAssumption
<1>2. ASSUME NEW i \in Irq
      PROVE  /\ i \in Int /\ Bank(i) \in Int /\ Bit(i) \in 0 .. BankBits - 1
             /\ i = BankBits * Bank(i) + Bit(i)
  BY <1>1, DivMod DEF Irq, Bank, Bit
<1>3. ASSUME NEW i \in Irq
      PROVE  Bank(i) \in BankRange /\ Bit(i) \in BitRange
  <2>1. 0 <= i /\ i < Banks * BankBits
    BY <1>1 DEF Irq
  <2>2. PICK q \in Int, r \in 0 .. BankBits - 1 :
           q = Bank(i) /\ r = Bit(i) /\ i = BankBits * q + r
    BY <1>2
  <2>3. BankBits * q < Banks * BankBits /\ 0 < BankBits * (q + 1)
    BY <1>1, <1>2, <2>1, <2>2
  <2>4. q < Banks /\ q >= 0
    BY <1>1, <2>3
  <2> QED BY <1>1, <2>2, <2>4 DEF BankRange, BitRange
<1>4. ASSUME NEW i \in Irq, NEW j \in Irq, Bank(i) = Bank(j), Bit(i) = Bit(j)
      PROVE  i = j
  BY <1>2, <1>4
<1> QED BY <1>3, <1>4

-----------------------------------------------------------------------------
\* What the functions of interrupt.c change in the registers
SameBits(r) == r.SYSCONFIG = intc.SYSCONFIG /\ r.PROTECTION = intc.PROTECTION
               /\ r.IDLE = intc.IDLE /\ r.THRESHOLD = intc.THRESHOLD
UnmaskedIn(r) == {i \in Irq : Bit(i) \notin r.MIR[Bank(i)]}
SoftIn(r) == {i \in Irq : Bit(i) \in r.ISR[Bank(i)]}

LEMMA SetInBank ==
    ASSUME IntcAssumption, NEW m \in BankSets, NEW i \in Irq
    PROVE  /\ [m EXCEPT ![Bank(i)] = @ \cup {Bit(i)}] \in BankSets
           /\ [m EXCEPT ![Bank(i)] = @ \ {Bit(i)}] \in BankSets
           /\ \A j \in Irq :
                 /\ (Bit(j) \in [m EXCEPT ![Bank(i)] = @ \cup {Bit(i)}][Bank(j)]) <=> (j = i \/ Bit(j) \in m[Bank(j)])
                 /\ (Bit(j) \in [m EXCEPT ![Bank(i)] = @ \ {Bit(i)}][Bank(j)]) <=> (j # i /\ Bit(j) \in m[Bank(j)])
<1>1. Bank(i) \in BankRange /\ Bit(i) \in BitRange
  BY BankBitFacts
<1>2. /\ [m EXCEPT ![Bank(i)] = @ \cup {Bit(i)}] \in BankSets
      /\ [m EXCEPT ![Bank(i)] = @ \ {Bit(i)}] \in BankSets
  BY <1>1 DEF BankSets
<1>3. ASSUME NEW j \in Irq
      PROVE  /\ (Bit(j) \in [m EXCEPT ![Bank(i)] = @ \cup {Bit(i)}][Bank(j)]) <=> (j = i \/ Bit(j) \in m[Bank(j)])
             /\ (Bit(j) \in [m EXCEPT ![Bank(i)] = @ \ {Bit(i)}][Bank(j)]) <=> (j # i /\ Bit(j) \in m[Bank(j)])
  <2>1. Bank(j) \in BankRange /\ (Bank(i) = Bank(j) /\ Bit(i) = Bit(j) => i = j)
    BY BankBitFacts
  <2> QED BY <1>1, <2>1 DEF BankSets
<1> QED BY <1>2, <1>3

LEMMA EnableFacts ==
    ASSUME IntcAssumption, intc \in IntcRegs, NEW i \in Irq
    PROVE  /\ IntSystemEnable(i) \in IntcRegs /\ IntSystemDisable(i) \in IntcRegs
           /\ SameBits(IntSystemEnable(i)) /\ SameBits(IntSystemDisable(i))
           /\ IntSystemEnable(i).ISR = intc.ISR /\ IntSystemDisable(i).ISR = intc.ISR
           /\ UnmaskedIn(IntSystemEnable(i)) = Unmasked \cup {i}
           /\ UnmaskedIn(IntSystemDisable(i)) = Unmasked \ {i}
<1>1. intc.MIR \in BankSets
  BY DEF IntcRegs
<1>2. /\ IntSystemEnable(i).MIR = [intc.MIR EXCEPT ![Bank(i)] = @ \ {Bit(i)}]
      /\ IntSystemDisable(i).MIR = [intc.MIR EXCEPT ![Bank(i)] = @ \cup {Bit(i)}]
  BY DEF IntcRegs, IntSystemEnable, IntSystemDisable
<1>3. UnmaskedIn(IntSystemEnable(i)) = Unmasked \cup {i}
  BY <1>1, <1>2, SetInBank DEF UnmaskedIn, Unmasked
<1>4. UnmaskedIn(IntSystemDisable(i)) = Unmasked \ {i}
  BY <1>1, <1>2, SetInBank DEF UnmaskedIn, Unmasked
<1>5. IntSystemEnable(i) \in IntcRegs /\ IntSystemDisable(i) \in IntcRegs
  BY <1>1, SetInBank DEF IntcRegs, IntSystemEnable, IntSystemDisable
<1>6. /\ SameBits(IntSystemEnable(i)) /\ SameBits(IntSystemDisable(i))
      /\ IntSystemEnable(i).ISR = intc.ISR /\ IntSystemDisable(i).ISR = intc.ISR
  BY DEF SameBits, IntcRegs, IntSystemEnable, IntSystemDisable
<1> QED BY <1>3, <1>4, <1>5, <1>6

LEMMA SoftFacts ==
    ASSUME IntcAssumption, intc \in IntcRegs, NEW i \in Irq
    PROVE  /\ IntSoftwareIntSet(i) \in IntcRegs /\ IntSoftwareIntClear(i) \in IntcRegs
           /\ SameBits(IntSoftwareIntSet(i)) /\ SameBits(IntSoftwareIntClear(i))
           /\ IntSoftwareIntSet(i).MIR = intc.MIR /\ IntSoftwareIntClear(i).MIR = intc.MIR
           /\ SoftIn(IntSoftwareIntSet(i)) = SoftIn(intc) \cup {i}
           /\ SoftIn(IntSoftwareIntClear(i)) = SoftIn(intc) \ {i}
<1>1. intc.ISR \in BankSets
  BY DEF IntcRegs
<1>2. /\ IntSoftwareIntClear(i).ISR = [intc.ISR EXCEPT ![Bank(i)] = @ \ {Bit(i)}]
      /\ IntSoftwareIntSet(i).ISR = [intc.ISR EXCEPT ![Bank(i)] = @ \cup {Bit(i)}]
  BY DEF IntcRegs, IntSoftwareIntSet, IntSoftwareIntClear
<1>3. SoftIn(IntSoftwareIntSet(i)) = SoftIn(intc) \cup {i}
  BY <1>1, <1>2, SetInBank DEF SoftIn
<1>4. SoftIn(IntSoftwareIntClear(i)) = SoftIn(intc) \ {i}
  BY <1>1, <1>2, SetInBank DEF SoftIn
<1>5. IntSoftwareIntSet(i) \in IntcRegs /\ IntSoftwareIntClear(i) \in IntcRegs
  BY <1>1, SetInBank DEF IntcRegs, IntSoftwareIntSet, IntSoftwareIntClear
<1>6. /\ SameBits(IntSoftwareIntSet(i)) /\ SameBits(IntSoftwareIntClear(i))
      /\ IntSoftwareIntSet(i).MIR = intc.MIR /\ IntSoftwareIntClear(i).MIR = intc.MIR
  BY DEF SameBits, IntcRegs, IntSoftwareIntSet, IntSoftwareIntClear
<1> QED BY <1>3, <1>4, <1>5, <1>6

LEMMA PriorityFacts ==
    ASSUME IntcAssumption, intc \in IntcRegs, NEW i \in Irq
    PROVE  LET r == IntPrioritySet(i, 1, "IRQ") IN
           r \in IntcRegs /\ SameBits(r) /\ r.MIR = intc.MIR /\ r.ISR = intc.ISR
<1>1. [prio |-> 1, fiq |-> "IRQ" = "FIQ"] \in [prio : Int, fiq : BOOLEAN]
  OBVIOUS
<1>2. IntPrioritySet(i, 1, "IRQ") = [intc EXCEPT !.ILR = [@ EXCEPT ![i] = [prio |-> 1, fiq |-> "IRQ" = "FIQ"]]]
  BY DEF IntPrioritySet
<1> DEFINE e == [prio |-> 1, fiq |-> "IRQ" = "FIQ"]
<1> HIDE DEF e
<1>3. IntPrioritySet(i, 1, "IRQ") = [intc EXCEPT !.ILR = [@ EXCEPT ![i] = e]] /\ e \in [prio : Int, fiq : BOOLEAN]
  BY <1>1, <1>2 DEF e
<1> QED BY <1>3 DEF IntcRegs, SameBits

\* What the other calls should have come to, from its parts
SetOf(a, p, t, f, h, s) == [autoidle |-> a, protection |-> p, turbo |-> t, funcidle |-> f,
                            threshold |-> h, soft |-> s]
Meant(r) == SetOf("AUTOIDLE" \in r.SYSCONFIG, r.PROTECTION # {}, "TURBO" \in r.IDLE,
                  "FUNCIDLE" \in r.IDLE, r.THRESHOLD, SoftIn(r))

LEMMA MeantSame ==
    ASSUME NEW r, SameBits(r), SoftIn(r) = SoftIn(intc)
    PROVE  Meant(r) = Meant(intc)
BY Zenon DEF SameBits, Meant

LEMMA ExactMeant == SetExact <=> (at # "over" => set = Meant(intc))
<1>1. Meant(intc) = [autoidle |-> "AUTOIDLE" \in intc.SYSCONFIG,
                 protection |-> intc.PROTECTION # {},
                 turbo |-> "TURBO" \in intc.IDLE, funcidle |-> "FUNCIDLE" \in intc.IDLE,
                 threshold |-> IntPriorityThresholdGet,
                 soft |-> {i \in Irq : Bit(i) \in intc.ISR[Bank(i)]}]
  BY Zenon DEF Meant, SetOf, SoftIn, IntPriorityThresholdGet
<1> QED BY <1>1, Zenon DEF SetExact

\* What one of the other calls changes in the registers
LEMMA FlagFacts ==
    ASSUME intc \in IntcRegs, NEW r,
           \E x \in SUBSET {"AUTOIDLE"}, p \in SUBSET {"PROTECTION"},
              t \in SUBSET {"TURBO", "FUNCIDLE"}, h \in Int :
                r = [intc EXCEPT !.SYSCONFIG = x, !.PROTECTION = p, !.IDLE = t, !.THRESHOLD = h]
    PROVE  r \in IntcRegs /\ r.MIR = intc.MIR /\ SoftIn(r) = SoftIn(intc)
<1>1. r \in IntcRegs /\ r.MIR = intc.MIR /\ r.ISR = intc.ISR
  BY DEF IntcRegs
<1> QED BY <1>1 DEF SoftIn

LEMMA OtherCallExact ==
    ASSUME IntcAssumption, IntcInv, OtherCall
    PROVE  intc' \in IntcRegs /\ intc'.MIR = intc.MIR /\ set' = Meant(intc')
<1>1. intc \in IntcRegs /\ at = "kernel" /\ set = Meant(intc) /\ owned \subseteq Irq
  <2>1. at = "kernel"
    BY DEF OtherCall, Configure
  <2> QED BY <2>1, ExactMeant DEF IntcInv, IntcTypes
<1> DEFINE a == "AUTOIDLE" \in intc.SYSCONFIG
           p == intc.PROTECTION # {}
           t == "TURBO" \in intc.IDLE
           f == "FUNCIDLE" \in intc.IDLE
           h == intc.THRESHOLD
           s == SoftIn(intc)
<1>2. set = SetOf(a, p, t, f, h, s)
  BY <1>1, Zenon DEF Meant
<1>3. Meant(intc') = SetOf("AUTOIDLE" \in intc'.SYSCONFIG, intc'.PROTECTION # {}, "TURBO" \in intc'.IDLE,
                  "FUNCIDLE" \in intc'.IDLE, intc'.THRESHOLD, SoftIn(intc'))
  BY Zenon DEF Meant
<1>4. \A x : /\ [set EXCEPT !.autoidle = x] = SetOf(x, p, t, f, h, s)
             /\ [set EXCEPT !.protection = x] = SetOf(a, x, t, f, h, s)
             /\ [set EXCEPT !.turbo = x] = SetOf(a, p, x, f, h, s)
             /\ [set EXCEPT !.funcidle = x] = SetOf(a, p, t, x, h, s)
             /\ [set EXCEPT !.threshold = x] = SetOf(a, p, t, f, x, s)
             /\ [set EXCEPT !.soft = x] = SetOf(a, p, t, f, h, x)
             /\ set.soft = s
  <2> HIDE DEF a, p, t, f, h, s
  <2> TAKE x
  <2> QED BY <1>2 DEF SetOf
<1>5. CASE Configure(IntIfClkFreeRunSet, [set EXCEPT !.autoidle = FALSE])
  <2>1. /\ intc' = [intc EXCEPT !.SYSCONFIG = intc.SYSCONFIG \ {"AUTOIDLE"}, !.PROTECTION = intc.PROTECTION,
                               !.IDLE = intc.IDLE, !.THRESHOLD = intc.THRESHOLD]
        /\ intc'.SYSCONFIG = intc.SYSCONFIG \ {"AUTOIDLE"} /\ intc'.PROTECTION = intc.PROTECTION
        /\ intc'.IDLE = intc.IDLE /\ intc'.THRESHOLD = intc.THRESHOLD
    BY <1>1, <1>5 DEF Configure, IntcRegs, IntIfClkFreeRunSet
  <2>2. intc' \in IntcRegs /\ intc'.MIR = intc.MIR /\ SoftIn(intc') = SoftIn(intc)
    BY <1>1, <2>1, FlagFacts DEF IntcRegs
  <2>3. ("AUTOIDLE" \in intc'.SYSCONFIG) = FALSE
    BY <2>1
  <2>4. set' = [set EXCEPT !.autoidle = FALSE]
    BY <1>5, Zenon DEF Configure
  <2>5. (intc'.PROTECTION # {}) = p /\ ("TURBO" \in intc'.IDLE) = t
        /\ ("FUNCIDLE" \in intc'.IDLE) = f /\ intc'.THRESHOLD = h
    BY <2>1, Zenon
  <2>6. set' = SetOf(FALSE, p, t, f, h, s)
    BY <1>4, <2>4, Zenon
  <2>7. Meant(intc') = SetOf(FALSE, p, t, f, h, s)
    BY <1>3, <2>2, <2>3, <2>5, Zenon
  <2> QED BY <2>2, <2>6, <2>7, Zenon
<1>6. CASE Configure(IntIfClkAutoGateSet, [set EXCEPT !.autoidle = TRUE])
  <2>1. /\ intc' = [intc EXCEPT !.SYSCONFIG = intc.SYSCONFIG \cup {"AUTOIDLE"}, !.PROTECTION = intc.PROTECTION,
                               !.IDLE = intc.IDLE, !.THRESHOLD = intc.THRESHOLD]
        /\ intc'.SYSCONFIG = intc.SYSCONFIG \cup {"AUTOIDLE"} /\ intc'.PROTECTION = intc.PROTECTION
        /\ intc'.IDLE = intc.IDLE /\ intc'.THRESHOLD = intc.THRESHOLD
    BY <1>1, <1>6 DEF Configure, IntcRegs, IntIfClkAutoGateSet
  <2>2. intc' \in IntcRegs /\ intc'.MIR = intc.MIR /\ SoftIn(intc') = SoftIn(intc)
    BY <1>1, <2>1, FlagFacts DEF IntcRegs
  <2>3. ("AUTOIDLE" \in intc'.SYSCONFIG) = TRUE
    BY <2>1
  <2>4. set' = [set EXCEPT !.autoidle = TRUE]
    BY <1>6, Zenon DEF Configure
  <2>5. (intc'.PROTECTION # {}) = p /\ ("TURBO" \in intc'.IDLE) = t
        /\ ("FUNCIDLE" \in intc'.IDLE) = f /\ intc'.THRESHOLD = h
    BY <2>1, Zenon
  <2>6. set' = SetOf(TRUE, p, t, f, h, s)
    BY <1>4, <2>4, Zenon
  <2>7. Meant(intc') = SetOf(TRUE, p, t, f, h, s)
    BY <1>3, <2>2, <2>3, <2>5, Zenon
  <2> QED BY <2>2, <2>6, <2>7, Zenon
<1>7. CASE Configure(IntProtectionEnable, [set EXCEPT !.protection = TRUE])
  <2>1. /\ intc' = [intc EXCEPT !.SYSCONFIG = intc.SYSCONFIG, !.PROTECTION = {"PROTECTION"},
                               !.IDLE = intc.IDLE, !.THRESHOLD = intc.THRESHOLD]
        /\ intc'.SYSCONFIG = intc.SYSCONFIG /\ intc'.PROTECTION = {"PROTECTION"}
        /\ intc'.IDLE = intc.IDLE /\ intc'.THRESHOLD = intc.THRESHOLD
    BY <1>1, <1>7 DEF Configure, IntcRegs, IntProtectionEnable
  <2>2. intc' \in IntcRegs /\ intc'.MIR = intc.MIR /\ SoftIn(intc') = SoftIn(intc)
    BY <1>1, <2>1, FlagFacts DEF IntcRegs
  <2>3. (intc'.PROTECTION # {}) = TRUE
    BY <2>1
  <2>4. set' = [set EXCEPT !.protection = TRUE]
    BY <1>7, Zenon DEF Configure
  <2>5. ("AUTOIDLE" \in intc'.SYSCONFIG) = a /\ ("TURBO" \in intc'.IDLE) = t
        /\ ("FUNCIDLE" \in intc'.IDLE) = f /\ intc'.THRESHOLD = h
    BY <2>1, Zenon
  <2>6. set' = SetOf(a, TRUE, t, f, h, s)
    BY <1>4, <2>4, Zenon
  <2>7. Meant(intc') = SetOf(a, TRUE, t, f, h, s)
    BY <1>3, <2>2, <2>3, <2>5, Zenon
  <2> QED BY <2>2, <2>6, <2>7, Zenon
<1>8. CASE Configure(IntProtectionDisable, [set EXCEPT !.protection = FALSE])
  <2>1. /\ intc' = [intc EXCEPT !.SYSCONFIG = intc.SYSCONFIG, !.PROTECTION = intc.PROTECTION \ {"PROTECTION"},
                               !.IDLE = intc.IDLE, !.THRESHOLD = intc.THRESHOLD]
        /\ intc'.SYSCONFIG = intc.SYSCONFIG /\ intc'.PROTECTION = intc.PROTECTION \ {"PROTECTION"}
        /\ intc'.IDLE = intc.IDLE /\ intc'.THRESHOLD = intc.THRESHOLD
    BY <1>1, <1>8 DEF Configure, IntcRegs, IntProtectionDisable
  <2>2. intc' \in IntcRegs /\ intc'.MIR = intc.MIR /\ SoftIn(intc') = SoftIn(intc)
    BY <1>1, <2>1, FlagFacts DEF IntcRegs
  <2>3. (intc'.PROTECTION # {}) = FALSE
    BY <2>1, <1>1 DEF IntcRegs
  <2>4. set' = [set EXCEPT !.protection = FALSE]
    BY <1>8, Zenon DEF Configure
  <2>5. ("AUTOIDLE" \in intc'.SYSCONFIG) = a /\ ("TURBO" \in intc'.IDLE) = t
        /\ ("FUNCIDLE" \in intc'.IDLE) = f /\ intc'.THRESHOLD = h
    BY <2>1, Zenon
  <2>6. set' = SetOf(a, FALSE, t, f, h, s)
    BY <1>4, <2>4, Zenon
  <2>7. Meant(intc') = SetOf(a, FALSE, t, f, h, s)
    BY <1>3, <2>2, <2>3, <2>5, Zenon
  <2> QED BY <2>2, <2>6, <2>7, Zenon
<1>9. CASE Configure(IntSyncClkFreeRunSet, [set EXCEPT !.turbo = FALSE])
  <2>1. /\ intc' = [intc EXCEPT !.SYSCONFIG = intc.SYSCONFIG, !.PROTECTION = intc.PROTECTION,
                               !.IDLE = intc.IDLE \ {"TURBO"}, !.THRESHOLD = intc.THRESHOLD]
        /\ intc'.SYSCONFIG = intc.SYSCONFIG /\ intc'.PROTECTION = intc.PROTECTION
        /\ intc'.IDLE = intc.IDLE \ {"TURBO"} /\ intc'.THRESHOLD = intc.THRESHOLD
    BY <1>1, <1>9 DEF Configure, IntcRegs, IntSyncClkFreeRunSet
  <2>2. intc' \in IntcRegs /\ intc'.MIR = intc.MIR /\ SoftIn(intc') = SoftIn(intc)
    BY <1>1, <2>1, FlagFacts DEF IntcRegs
  <2>3. ("TURBO" \in intc'.IDLE) = FALSE
    BY <2>1
  <2>4. set' = [set EXCEPT !.turbo = FALSE]
    BY <1>9, Zenon DEF Configure
  <2>5. /\ ("AUTOIDLE" \in intc'.SYSCONFIG) = a
        /\ (intc'.PROTECTION # {}) = p
        /\ ("FUNCIDLE" \in intc'.IDLE) = f
        /\ intc'.THRESHOLD = h
    BY <2>1
  <2>6. set' = SetOf(a, p, FALSE, f, h, s)
    BY <1>4, <2>4, Zenon
  <2>7. Meant(intc') = SetOf(a, p, FALSE, f, h, s)
    BY <1>3, <2>2, <2>3, <2>5, Zenon
  <2> QED BY <2>2, <2>6, <2>7, Zenon
<1>10. CASE Configure(IntSyncClkAutoGateSet, [set EXCEPT !.turbo = TRUE])
  <2>1. /\ intc' = [intc EXCEPT !.SYSCONFIG = intc.SYSCONFIG, !.PROTECTION = intc.PROTECTION,
                               !.IDLE = intc.IDLE \cup {"TURBO"}, !.THRESHOLD = intc.THRESHOLD]
        /\ intc'.SYSCONFIG = intc.SYSCONFIG /\ intc'.PROTECTION = intc.PROTECTION
        /\ intc'.IDLE = intc.IDLE \cup {"TURBO"} /\ intc'.THRESHOLD = intc.THRESHOLD
    BY <1>1, <1>10 DEF Configure, IntcRegs, IntSyncClkAutoGateSet
  <2>2. intc' \in IntcRegs /\ intc'.MIR = intc.MIR /\ SoftIn(intc') = SoftIn(intc)
    BY <1>1, <2>1, FlagFacts DEF IntcRegs
  <2>3. ("TURBO" \in intc'.IDLE) = TRUE
    BY <2>1
  <2>4. set' = [set EXCEPT !.turbo = TRUE]
    BY <1>10, Zenon DEF Configure
  <2>5. /\ ("AUTOIDLE" \in intc'.SYSCONFIG) = a
        /\ (intc'.PROTECTION # {}) = p
        /\ ("FUNCIDLE" \in intc'.IDLE) = f
        /\ intc'.THRESHOLD = h
    BY <2>1
  <2>6. set' = SetOf(a, p, TRUE, f, h, s)
    BY <1>4, <2>4, Zenon
  <2>7. Meant(intc') = SetOf(a, p, TRUE, f, h, s)
    BY <1>3, <2>2, <2>3, <2>5, Zenon
  <2> QED BY <2>2, <2>6, <2>7, Zenon
<1>11. CASE Configure(IntFuncClkFreeRunSet, [set EXCEPT !.funcidle = TRUE])
  <2>1. /\ intc' = [intc EXCEPT !.SYSCONFIG = intc.SYSCONFIG, !.PROTECTION = intc.PROTECTION,
                               !.IDLE = intc.IDLE \cup {"FUNCIDLE"}, !.THRESHOLD = intc.THRESHOLD]
        /\ intc'.SYSCONFIG = intc.SYSCONFIG /\ intc'.PROTECTION = intc.PROTECTION
        /\ intc'.IDLE = intc.IDLE \cup {"FUNCIDLE"} /\ intc'.THRESHOLD = intc.THRESHOLD
    BY <1>1, <1>11 DEF Configure, IntcRegs, IntFuncClkFreeRunSet
  <2>2. intc' \in IntcRegs /\ intc'.MIR = intc.MIR /\ SoftIn(intc') = SoftIn(intc)
    BY <1>1, <2>1, FlagFacts DEF IntcRegs
  <2>3. ("FUNCIDLE" \in intc'.IDLE) = TRUE
    BY <2>1
  <2>4. set' = [set EXCEPT !.funcidle = TRUE]
    BY <1>11, Zenon DEF Configure
  <2>5. /\ ("AUTOIDLE" \in intc'.SYSCONFIG) = a
        /\ (intc'.PROTECTION # {}) = p
        /\ ("TURBO" \in intc'.IDLE) = t
        /\ intc'.THRESHOLD = h
    BY <2>1
  <2>6. set' = SetOf(a, p, t, TRUE, h, s)
    BY <1>4, <2>4, Zenon
  <2>7. Meant(intc') = SetOf(a, p, t, TRUE, h, s)
    BY <1>3, <2>2, <2>3, <2>5, Zenon
  <2> QED BY <2>2, <2>6, <2>7, Zenon
<1>12. CASE Configure(IntFuncClkAutoGateSet, [set EXCEPT !.funcidle = FALSE])
  <2>1. /\ intc' = [intc EXCEPT !.SYSCONFIG = intc.SYSCONFIG, !.PROTECTION = intc.PROTECTION,
                               !.IDLE = intc.IDLE \ {"FUNCIDLE"}, !.THRESHOLD = intc.THRESHOLD]
        /\ intc'.SYSCONFIG = intc.SYSCONFIG /\ intc'.PROTECTION = intc.PROTECTION
        /\ intc'.IDLE = intc.IDLE \ {"FUNCIDLE"} /\ intc'.THRESHOLD = intc.THRESHOLD
    BY <1>1, <1>12 DEF Configure, IntcRegs, IntFuncClkAutoGateSet
  <2>2. intc' \in IntcRegs /\ intc'.MIR = intc.MIR /\ SoftIn(intc') = SoftIn(intc)
    BY <1>1, <2>1, FlagFacts DEF IntcRegs
  <2>3. ("FUNCIDLE" \in intc'.IDLE) = FALSE
    BY <2>1
  <2>4. set' = [set EXCEPT !.funcidle = FALSE]
    BY <1>12, Zenon DEF Configure
  <2>5. /\ ("AUTOIDLE" \in intc'.SYSCONFIG) = a
        /\ (intc'.PROTECTION # {}) = p
        /\ ("TURBO" \in intc'.IDLE) = t
        /\ intc'.THRESHOLD = h
    BY <2>1
  <2>6. set' = SetOf(a, p, t, FALSE, h, s)
    BY <1>4, <2>4, Zenon
  <2>7. Meant(intc') = SetOf(a, p, t, FALSE, h, s)
    BY <1>3, <2>2, <2>3, <2>5, Zenon
  <2> QED BY <2>2, <2>6, <2>7, Zenon
<1>13. ASSUME NEW k \in {2, 255},
              Configure(IntPriorityThresholdSet(k), [set EXCEPT !.threshold = k])
      PROVE  intc' \in IntcRegs /\ intc'.MIR = intc.MIR /\ set' = Meant(intc')
  <2>1. /\ intc' = [intc EXCEPT !.SYSCONFIG = intc.SYSCONFIG, !.PROTECTION = intc.PROTECTION,
                               !.IDLE = intc.IDLE, !.THRESHOLD = k]
        /\ intc'.SYSCONFIG = intc.SYSCONFIG /\ intc'.PROTECTION = intc.PROTECTION
        /\ intc'.IDLE = intc.IDLE /\ intc'.THRESHOLD = k
    BY <1>1, <1>13 DEF Configure, IntcRegs, IntPriorityThresholdSet
  <2>2. intc' \in IntcRegs /\ intc'.MIR = intc.MIR /\ SoftIn(intc') = SoftIn(intc)
    <3>1. k \in Int
      OBVIOUS
    <3> QED BY <1>1, <2>1, <3>1, FlagFacts, ZenonT(40) DEF IntcRegs
  <2>3. set' = [set EXCEPT !.threshold = k]
    BY <1>13, Zenon DEF Configure
  <2> QED BY <1>3, <1>4, <2>1, <2>2, <2>3, ZenonT(40)
<1>14. ASSUME NEW i \in owned, Configure(IntSoftwareIntSet(i), [set EXCEPT !.soft = @ \cup {i}])
      PROVE  intc' \in IntcRegs /\ intc'.MIR = intc.MIR /\ set' = Meant(intc')
  <2>1. intc' = IntSoftwareIntSet(i) /\ set' = [set EXCEPT !.soft = set.soft \cup {i}]
    BY <1>14, Zenon DEF Configure
  <2>2. /\ intc' \in IntcRegs /\ intc'.MIR = intc.MIR /\ SoftIn(intc') = SoftIn(intc) \cup {i}
        /\ intc'.SYSCONFIG = intc.SYSCONFIG /\ intc'.PROTECTION = intc.PROTECTION
        /\ intc'.IDLE = intc.IDLE /\ intc'.THRESHOLD = intc.THRESHOLD
    BY <1>1, <2>1, SoftFacts DEF SameBits
  <2>3. set' = SetOf(a, p, t, f, h, s \cup {i})
    BY <1>4, <2>1, Zenon
  <2>4. Meant(intc') = SetOf(a, p, t, f, h, s \cup {i})
    BY <1>3, <2>2, Zenon
  <2> QED BY <2>2, <2>3, <2>4, Zenon
<1>15. ASSUME NEW i \in owned, Configure(IntSoftwareIntClear(i), [set EXCEPT !.soft = @ \ {i}])
      PROVE  intc' \in IntcRegs /\ intc'.MIR = intc.MIR /\ set' = Meant(intc')
  <2>1. intc' = IntSoftwareIntClear(i) /\ set' = [set EXCEPT !.soft = set.soft \ {i}]
    BY <1>15, Zenon DEF Configure
  <2>2. /\ intc' \in IntcRegs /\ intc'.MIR = intc.MIR /\ SoftIn(intc') = SoftIn(intc) \ {i}
        /\ intc'.SYSCONFIG = intc.SYSCONFIG /\ intc'.PROTECTION = intc.PROTECTION
        /\ intc'.IDLE = intc.IDLE /\ intc'.THRESHOLD = intc.THRESHOLD
    BY <1>1, <2>1, SoftFacts DEF SameBits
  <2>3. set' = SetOf(a, p, t, f, h, s \ {i})
    BY <1>4, <2>1, Zenon
  <2>4. Meant(intc') = SetOf(a, p, t, f, h, s \ {i})
    BY <1>3, <2>2, Zenon
  <2> QED BY <2>2, <2>3, <2>4, Zenon
<1> QED BY <1>5, <1>6, <1>7, <1>8, <1>9, <1>10, <1>11, <1>12, <1>13, <1>14, <1>15, Zenon DEF OtherCall

-----------------------------------------------------------------------------
\* The initial states, and what one action after the other keeps of the invariant
LEMMA ResetFacts ==
    ASSUME IntcAssumption
    PROVE  IntAINTCInit \in IntcRegs /\ UnmaskedIn(IntAINTCInit) = {}
           /\ SoftIn(IntAINTCInit) = {}
<1>1. IntAINTCInit = IntcReset
  <2> DEFINE e == [i \in Irq |-> [prio |-> 0, fiq |-> FALSE]]
             m == [b \in 0 .. Banks - 1 |-> 0 .. BankBits - 1]
             z == [b \in 0 .. Banks - 1 |-> {}]
  <2>1. IntcReset = [MIR |-> m, ISR |-> z, ILR |-> e, SYSCONFIG |-> {}, PROTECTION |-> {},
                     IDLE |-> {}, THRESHOLD |-> 255]
    BY DEF IntcReset
  <2> HIDE DEF e, m, z
  <2> QED BY <2>1 DEF IntAINTCInit
<1>2. /\ IntcReset.MIR = [b \in BankRange |-> BitRange]
      /\ IntcReset.ISR = [b \in BankRange |-> {}]
  BY DEF IntcReset, BankRange, BitRange
<1>3. IntcReset \in IntcRegs
  <2>1. [prio |-> 0, fiq |-> FALSE] \in [prio : Int, fiq : BOOLEAN]
    OBVIOUS
  <2>2. [i \in Irq |-> [prio |-> 0, fiq |-> FALSE]] \in [Irq -> [prio : Int, fiq : BOOLEAN]]
    BY <2>1, Zenon
  <2>3. IntcReset.MIR \in BankSets /\ IntcReset.ISR \in BankSets
    BY <1>2 DEF BankSets
  <2> DEFINE e == [i \in Irq |-> [prio |-> 0, fiq |-> FALSE]]
             m == [b \in BankRange |-> BitRange]
             z == [b \in BankRange |-> {}]
  <2>4. IntcReset = [MIR |-> m, ISR |-> z, ILR |-> e, SYSCONFIG |-> {}, PROTECTION |-> {},
                     IDLE |-> {}, THRESHOLD |-> 255]
    BY DEF IntcReset, BankRange, BitRange
  <2>5. e \in [Irq -> [prio : Int, fiq : BOOLEAN]] /\ m \in BankSets /\ z \in BankSets
    BY <2>2, <2>3, <1>2
  <2> HIDE DEF e, m, z
  <2> QED BY <2>4, <2>5 DEF IntcRegs
<1>4. UnmaskedIn(IntcReset) = {} /\ SoftIn(IntcReset) = {}
  BY <1>2, BankBitFacts DEF UnmaskedIn, SoftIn
<1> QED BY <1>1, <1>3, <1>4

LEMMA IntcInitInv == ASSUME IntcAssumption, IntcInit PROVE IntcInv
<1>1. IntcTypes
  BY ResetFacts DEF IntcInit, IntcTypes, Flags
<1>2. Unmasked = {}
  BY ResetFacts, Zenon DEF IntcInit, Unmasked, UnmaskedIn
<1>3. Handling
  BY <1>2, Zenon DEF IntcInit, Handling
<1>4. Off
  BY DEF IntcInit, Off, EarlyKernel
<1>5. set = Meant(intc)
  <2>1. /\ ("AUTOIDLE" \in IntAINTCInit.SYSCONFIG) = FALSE /\ (IntAINTCInit.PROTECTION # {}) = FALSE
        /\ ("TURBO" \in IntAINTCInit.IDLE) = FALSE /\ ("FUNCIDLE" \in IntAINTCInit.IDLE) = FALSE
        /\ IntAINTCInit.THRESHOLD = 255
    BY DEF IntAINTCInit, IntcReset
  <2> QED BY <2>1, ResetFacts, Zenon DEF IntcInit, Meant, SetOf
<1> QED BY <1>1, <1>3, <1>4, <1>5, ExactMeant, Zenon DEF IntcInv

\* Most actions leave the registers and what was asked of them as they are.
LEMMA SameRegisters ==
    ASSUME IntcInv, intc' = intc, set' = set, at' = "over" \/ at # "over"
    PROVE  intc' \in IntcRegs /\ Unmasked' = Unmasked /\ SetExact'
<1>1. intc' \in IntcRegs /\ Unmasked' = Unmasked
  BY Zenon DEF IntcInv, IntcTypes, Unmasked
<1>2. Meant(intc') = Meant(intc) /\ (at # "over" => set = Meant(intc))
  BY ExactMeant, Zenon DEF IntcInv
<1>3. SetExact' <=> (at' # "over" => set' = Meant(intc'))
  BY Zenon DEF SetExact, Meant, SetOf, SoftIn, IntPriorityThresholdGet
<1> QED BY <1>1, <1>2, <1>3, Zenon

\* The registers again after a step that changes masks or priorities only
LEMMA SameMeaning ==
    ASSUME IntcInv, at # "over", intc' \in IntcRegs, SameBits(intc'), SoftIn(intc') = SoftIn(intc),
           set' = set
    PROVE  SetExact'
<1>1. Meant(intc') = Meant(intc) /\ set = Meant(intc)
  BY MeantSame, ExactMeant, Zenon DEF IntcInv
<1>2. SetExact' <=> (at' # "over" => set' = Meant(intc'))
  BY Zenon DEF SetExact, Meant, SetOf, SoftIn, IntPriorityThresholdGet
<1> QED BY <1>1, <1>2, Zenon

LEMMA IntcStep == ASSUME IntcAssumption, IntcInv, IntcNext PROVE IntcInv'
<1>1. NoneIn \notin Irq /\ Unmasked \subseteq Irq
  BY DEF NoneIn, Irq, Unmasked
<1>2. IntcTypes /\ Handling /\ Off
  BY DEF IntcInv
<1>3. ASSUME NEW r, intc' = r PROVE Unmasked' = UnmaskedIn(r)
  BY <1>3, Zenon DEF Unmasked, UnmaskedIn
<1>4. CASE Sort
  <2>1. intc' \in IntcRegs /\ Unmasked' = Unmasked /\ SetExact'
    BY <1>4, SameRegisters DEF Sort
  <2>2. PICK i \in Unmasked : latched = NoneIn /\ latched' = i
    BY <1>4 DEF Sort, Eligible
  <2>3. IntcTypes' /\ Handling' /\ Off'
    <3>1. UNCHANGED <<cpsr, at, cur, awaiting, owned, nested>>
      BY <1>4 DEF Sort
    <3>2. IntcTypes'
      BY <1>1, <1>2, <2>1, <2>2, <3>1 DEF IntcTypes
    <3>3. Handling'
      BY <1>1, <1>2, <2>1, <2>2, <3>1 DEF IntcTypes, Handling
    <3>4. Off'
      BY <1>2, <3>1, Zenon DEF Off, EarlyKernel
    <3> QED BY <3>2, <3>3, <3>4
  <2> QED BY <2>1, <2>3, Zenon DEF IntcInv
<1>5. CASE Raise
  <2>1. intc' \in IntcRegs /\ Unmasked' = Unmasked /\ SetExact'
    BY <1>5, SameRegisters DEF Raise
  <2>2. UNCHANGED <<cpsr, at, cur, awaiting, owned, nested, latched>>
    BY <1>5 DEF Raise
  <2>3. IntcTypes' /\ Handling' /\ Off'
    BY <1>2, <2>1, <2>2, Zenon DEF IntcTypes, Handling, Off, EarlyKernel
  <2> QED BY <2>1, <2>3, Zenon DEF IntcInv
<1>6. CASE ToUser
  <2>1. intc' \in IntcRegs /\ Unmasked' = Unmasked /\ SetExact'
    BY <1>6, SameRegisters DEF ToUser
  <2>2. /\ at = "kernel" /\ nested = << >> /\ at' = "user" /\ cpsr' = cpsr \ {"I"}
        /\ UNCHANGED <<cur, awaiting, owned, nested, latched>>
    BY <1>6 DEF ToUser, CPUirqe
  <2>3. IntcTypes' /\ Handling' /\ Off'
    BY <1>2, <2>1, <2>2 DEF IntcTypes, Handling, Off, EarlyKernel, Flags
  <2> QED BY <2>1, <2>3, Zenon DEF IntcInv
<1>7. CASE Trap
  <2>1. intc' \in IntcRegs /\ Unmasked' = Unmasked /\ SetExact'
    BY <1>7, SameRegisters DEF Trap
  <2>2. /\ at = "user" /\ at' = "kernel" /\ cpsr' = cpsr \cup {"I"}
        /\ UNCHANGED <<cur, awaiting, owned, nested, latched>>
    BY <1>7 DEF Trap, CPUirqd
  <2>3. IntcTypes' /\ Handling' /\ Off'
    BY <1>2, <2>1, <2>2 DEF IntcTypes, Handling, Off, EarlyKernel, Flags
  <2> QED BY <2>1, <2>3, Zenon DEF IntcInv
<1>8. CASE Register
  <2>1. PICK i \in Irq : /\ at = "kernel" /\ "I" \in cpsr /\ nested = << >>
                         /\ intc' = IntPrioritySet(i, 1, "IRQ") /\ owned' = owned \cup {i}
                         /\ UNCHANGED <<latched, cpsr, at, cur, awaiting, nested, set>>
    BY <1>8 DEF Register
  <2>2. /\ intc' \in IntcRegs /\ SameBits(intc') /\ intc'.MIR = intc.MIR /\ intc'.ISR = intc.ISR
    BY <1>2, <2>1, PriorityFacts DEF IntcTypes
  <2>3. Unmasked' = Unmasked /\ SoftIn(intc') = SoftIn(intc)
    BY <2>2, Zenon DEF Unmasked, SoftIn
  <2>4. SetExact'
    BY <2>1, <2>2, <2>3, SameMeaning
  <2>5. IntcTypes' /\ Handling' /\ Off'
    BY <1>2, <2>1, <2>2, <2>3 DEF IntcTypes, Handling, Off, EarlyKernel
  <2> QED BY <2>4, <2>5, Zenon DEF IntcInv
<1>9. CASE Await
  <2>1. PICK i \in owned : /\ at = "kernel" /\ "I" \in cpsr /\ nested = << >>
                           /\ intc' = IntSystemEnable(i) /\ awaiting' = awaiting \cup {i}
                           /\ UNCHANGED <<latched, cpsr, at, cur, owned, nested, set>>
    BY <1>9 DEF Await
  <2>2. i \in Irq
    BY <1>2, <2>1 DEF IntcTypes
  <2>3. /\ intc' \in IntcRegs /\ SameBits(intc') /\ intc'.ISR = intc.ISR
        /\ UnmaskedIn(intc') = Unmasked \cup {i}
    BY <1>2, <2>1, <2>2, EnableFacts DEF IntcTypes
  <2>4. Unmasked' = Unmasked \cup {i} /\ SoftIn(intc') = SoftIn(intc)
    BY <1>3, <2>3, Zenon DEF SoftIn
  <2>5. SetExact'
    BY <2>1, <2>3, <2>4, SameMeaning
  <2>6. IntcTypes' /\ Handling' /\ Off'
    BY <1>2, <2>1, <2>2, <2>3, <2>4 DEF IntcTypes, Handling, Off, EarlyKernel
  <2> QED BY <2>5, <2>6, Zenon DEF IntcInv
<1>10. CASE Unregister
  <2>1. PICK i \in owned \ awaiting :
                           /\ at = "kernel" /\ "I" \in cpsr /\ nested = << >>
                           /\ intc' = IntSystemDisable(i) /\ owned' = owned \ {i}
                           /\ UNCHANGED <<latched, cpsr, at, cur, awaiting, nested, set>>
    BY <1>10 DEF Unregister
  <2>2. i \in Irq
    BY <1>2, <2>1 DEF IntcTypes
  <2>3. /\ intc' \in IntcRegs /\ SameBits(intc') /\ intc'.ISR = intc.ISR
        /\ UnmaskedIn(intc') = Unmasked \ {i}
    BY <1>2, <2>1, <2>2, EnableFacts DEF IntcTypes
  <2>4. Unmasked' = Unmasked \ {i} /\ SoftIn(intc') = SoftIn(intc)
    BY <1>3, <2>3, Zenon DEF SoftIn
  <2>5. SetExact'
    BY <2>1, <2>3, <2>4, SameMeaning
  <2>6. IntcTypes' /\ Handling' /\ Off'
    BY <1>2, <2>1, <2>2, <2>3, <2>4 DEF IntcTypes, Handling, Off, EarlyKernel
  <2> QED BY <2>5, <2>6, Zenon DEF IntcInv
<1>11. CASE TakeIrq
  <2>1. intc' \in IntcRegs /\ Unmasked' = Unmasked /\ SetExact'
    BY <1>11, SameRegisters DEF TakeIrq
  <2>2. /\ at = "user" /\ latched # NoneIn /\ at' = "irq" /\ cpsr' = cpsr \cup {"I"}
        /\ cur' = latched
        /\ UNCHANGED <<awaiting, owned, nested, latched>>
    BY <1>11 DEF TakeIrq, CPUirqd, IntActiveIrqNumGet
  <2>3. IntcTypes' /\ Handling' /\ Off'
    BY <1>2, <2>1, <2>2 DEF IntcTypes, Handling, Off, EarlyKernel, Flags
  <2> QED BY <2>1, <2>3, Zenon DEF IntcInv
<1>12. CASE MaskAndAcknowledge
  <2>1. UNCHANGED <<cpsr, cur, awaiting, owned, nested, set>>
    BY <1>12 DEF MaskAndAcknowledge
  <2>2. CASE at = "irq" /\ intc' = IntSystemDisable(cur) /\ at' = "masked" /\ latched' = latched
    <3>1. cur \in Irq
      BY <1>2, <2>2 DEF IntcTypes, Handling
    <3>2. /\ intc' \in IntcRegs /\ SameBits(intc') /\ intc'.ISR = intc.ISR
          /\ UnmaskedIn(intc') = Unmasked \ {cur}
      BY <1>2, <2>2, <3>1, EnableFacts DEF IntcTypes
    <3>3. Unmasked' = Unmasked \ {cur} /\ SoftIn(intc') = SoftIn(intc)
      BY <1>3, <3>2, Zenon DEF SoftIn
    <3>4. SetExact'
      BY <2>1, <2>2, <3>2, <3>3, SameMeaning
    <3>5. IntcTypes' /\ Handling' /\ Off'
      BY <1>2, <2>1, <2>2, <3>2, <3>3 DEF IntcTypes, Handling, Off, EarlyKernel
    <3> QED BY <3>4, <3>5, Zenon DEF IntcInv
  <2>3. CASE at = "masked" /\ latched' = NoneIn /\ intc' = intc /\ at' = "served"
    <3>1. intc' \in IntcRegs /\ Unmasked' = Unmasked /\ SetExact'
      BY <2>1, <2>3, SameRegisters
    <3>2. IntcTypes' /\ Handling' /\ Off'
      BY <1>2, <2>1, <2>3, <3>1 DEF IntcTypes, Handling, Off, EarlyKernel
    <3> QED BY <3>1, <3>2, Zenon DEF IntcInv
  <2> QED BY <1>12, <2>2, <2>3 DEF MaskAndAcknowledge
<1>13. CASE Woken
  <2>1. intc' \in IntcRegs /\ Unmasked' = Unmasked /\ SetExact'
    BY <1>13, SameRegisters DEF Woken
  <2>2. /\ at = "served" /\ at' = "kernel" /\ awaiting' = awaiting \ {cur}
        /\ UNCHANGED <<cpsr, cur, owned, nested, latched>>
    BY <1>13 DEF Woken
  <2>3. IntcTypes' /\ Handling' /\ Off'
    BY <1>2, <2>1, <2>2 DEF IntcTypes, Handling, Off, EarlyKernel
  <2> QED BY <2>1, <2>3, Zenon DEF IntcInv
<1>14. CASE intr_reset
  <2>1. CASE /\ at = "kernel" /\ nested = << >> /\ at' = "resetting" /\ cpsr' = CPUirqe
             /\ UNCHANGED <<intc, lines, latched, cur, awaiting, owned, nested, set, intcCalls>>
    <3>1. intc' \in IntcRegs /\ Unmasked' = Unmasked /\ SetExact'
      BY <2>1, SameRegisters
    <3>2. IntcTypes' /\ Handling' /\ Off'
      BY <1>2, <2>1, <3>1 DEF IntcTypes, Handling, Off, EarlyKernel, Flags, CPUirqe
    <3> QED BY <3>1, <3>2, Zenon DEF IntcInv
  <2>2. CASE /\ at = "resetting" /\ at' = "over" /\ intc' = IntAINTCInit /\ latched' = NoneIn
             /\ UNCHANGED <<lines, cpsr, cur, awaiting, owned, nested, set, intcCalls>>
    <3>1. IntcTypes' /\ Handling' /\ Off'
      BY <1>2, <2>2, ResetFacts DEF IntcTypes, Handling, Off, EarlyKernel
    <3>2. SetExact'
      BY <2>2 DEF SetExact
    <3> QED BY <3>1, <3>2, Zenon DEF IntcInv
  <2> QED BY <1>14, <2>1, <2>2 DEF intr_reset
<1>15. CASE OtherCall
  <2>1. intc' \in IntcRegs /\ intc'.MIR = intc.MIR /\ set' = Meant(intc')
    BY <1>15, OtherCallExact
  <2>2. Unmasked' = Unmasked
    BY <2>1, Zenon DEF Unmasked
  <2>3. UNCHANGED <<latched, cpsr, at, cur, awaiting, owned, nested>>
    BY <1>15, Zenon DEF OtherCall, Configure
  <2>4. SetExact'
    BY <2>1, Zenon DEF SetExact, Meant, SetOf, SoftIn, IntPriorityThresholdGet
  <2>5. IntcTypes' /\ Handling' /\ Off'
    BY <1>2, <2>1, <2>2, <2>3, Zenon DEF IntcTypes, Handling, Off, EarlyKernel
  <2> QED BY <2>4, <2>5, Zenon DEF IntcInv
<1>16. CASE Section
  <2>1. intc' \in IntcRegs /\ Unmasked' = Unmasked /\ SetExact'
    BY <1>16, SameRegisters DEF Section
  <2>2. at = "kernel" /\ UNCHANGED <<latched, at, cur, awaiting, owned>>
    BY <1>16 DEF Section
  <2>3. CASE nested' = Append(nested, CPUIntStatus) /\ cpsr' = CPUirqd
    <3>1. IntcTypes'
      BY <1>2, <2>1, <2>2, <2>3 DEF IntcTypes, Flags, CPUIntStatus, CPUirqd
    <3>2. Handling'
      BY <1>2, <2>1, <2>2, Zenon DEF Handling
    <3>3. /\ Len(nested') = Len(nested) + 1 /\ nested'[Len(nested) + 1] = cpsr
          /\ \A n \in 1 .. Len(nested) : nested'[n] = nested[n]
      BY <1>2, <2>3 DEF IntcTypes, CPUIntStatus
    <3>4. Off'
      BY <1>2, <2>2, <2>3, <3>3 DEF IntcTypes, Off, EarlyKernel, CPUirqd
    <3> QED BY <2>1, <3>1, <3>2, <3>4, Zenon DEF IntcInv
  <2>4. CASE /\ nested # << >> /\ cpsr' = IntEnable(nested[Len(nested)])
             /\ nested' = SubSeq(nested, 1, Len(nested) - 1)
    <3>1. /\ Len(nested) \in Nat \ {0} /\ nested[Len(nested)] \in Flags /\ nested' \in Seq(Flags)
          /\ Len(nested') = Len(nested) - 1
          /\ \A n \in 1 .. Len(nested) - 1 : nested'[n] = nested[n]
      <4>1. nested \in Seq(Flags) /\ Len(nested) \in Nat
        BY <1>2 DEF IntcTypes
      <4>2. Len(nested) # 0
        BY <2>4, <4>1
      <4>3. Len(nested) - 1 \in Nat /\ Len(nested) - 1 <= Len(nested)
        BY <4>1, <4>2
      <4>4. nested' \in Seq(Flags) /\ Len(nested') = Len(nested) - 1
        <5>1. \A n \in 1 .. Len(nested) - 1 : nested[n] \in Flags
          BY <4>1, <4>3
        <5>2. nested' \in Seq(Flags)
          BY <2>4, <4>1, <4>3, <5>1, SubSeqProperties
        <5>3. PICK k \in Nat : k = Len(nested) - 1 /\ nested' = SubSeq(nested, 1, k)
          BY <2>4, <4>3
        <5>4. Len(SubSeq(nested, 1, k)) = IF 1 <= k THEN k - 1 + 1 ELSE 0
          BY <4>1, <5>1, <5>3, SubSeqProperties
        <5>5. Len(nested') = Len(nested) - 1
          BY <5>3, <5>4
        <5> QED BY <5>2, <5>5
      <4>5. \A n \in 1 .. Len(nested) - 1 : nested'[n] = nested[n]
        BY <2>4, <4>1, <4>3, SubSeqProperties
      <4> QED BY <4>1, <4>2, <4>4, <4>5
    <3>2. IntcTypes'
      BY <1>2, <2>1, <2>2, <2>4, <3>1 DEF IntcTypes, Flags, IntEnable, CPUirqe
    <3>3. Handling'
      BY <1>2, <2>1, <2>2, Zenon DEF Handling
    <3>4. Off'
      BY <1>2, <2>2, <2>4, <3>1 DEF IntcTypes, Off, EarlyKernel, IntEnable, CPUirqe
    <3> QED BY <2>1, <3>2, <3>3, <3>4, Zenon DEF IntcInv
  <2> QED BY <1>16, <2>3, <2>4 DEF Section
<1>17. CASE MasterFiq
  <2>1. intc' \in IntcRegs /\ Unmasked' = Unmasked /\ SetExact'
    BY <1>17, SameRegisters DEF MasterFiq
  <2>2. /\ at = "kernel" /\ nested = << >> /\ (cpsr' = cpsr \cup {"F"} \/ cpsr' = cpsr \ {"F"})
        /\ UNCHANGED <<latched, at, cur, awaiting, owned, nested>>
    BY <1>17 DEF MasterFiq, CPUfiqe, CPUfiqd
  <2>3. IntcTypes' /\ Handling' /\ Off'
    BY <1>2, <2>1, <2>2 DEF IntcTypes, Handling, Off, EarlyKernel, Flags
  <2> QED BY <2>1, <2>3, Zenon DEF IntcInv
<1> QED BY <1>4, <1>5, <1>6, <1>7, <1>8, <1>9, <1>10, <1>11, <1>12, <1>13, <1>14, <1>15,
           <1>16, <1>17, Zenon DEF IntcNext

LEMMA IntcStutter == ASSUME IntcInv, UNCHANGED intcVars PROVE IntcInv'
<1>1. intc' = intc /\ set' = set /\ UNCHANGED <<latched, cpsr, at, cur, awaiting, owned, nested>>
  BY DEF intcVars
<1>2. intc' \in IntcRegs /\ Unmasked' = Unmasked /\ SetExact'
  BY <1>1, SameRegisters
<1>3. IntcTypes' /\ Handling' /\ Off'
  BY <1>1, <1>2, Zenon DEF IntcInv, IntcTypes, Handling, Off, EarlyKernel
<1> QED BY <1>2, <1>3, Zenon DEF IntcInv

-----------------------------------------------------------------------------
\* The registers are as the calls set them, the masks and the nesting agree with
\* who handles what, and each IRQ that is on is awaited.
THEOREM IntcCorrect == ASSUME IntcAssumption PROVE IntcSpec => []IntcInv
<1>1. IntcInit => IntcInv
  BY IntcInitInv
<1>2. IntcInv /\ [IntcNext]_intcVars => IntcInv'
  BY IntcStep, IntcStutter
<1> QED BY <1>1, <1>2, PTL DEF IntcSpec

\* An IRQ that reaches evt_acknowledge has a task that waits for it, whatever
\* other IRQs come, spuriously or not, while one is handled.
THEOREM WaitersFound == ASSUME IntcAssumption PROVE IntcSpec => []IrqsFindWaiters
<1>1. IntcInv => IrqsFindWaiters
  <2> SUFFICES ASSUME IntcInv PROVE IrqsFindWaiters
    OBVIOUS
  <2>1. IntcTypes /\ Handling /\ Off
    BY DEF IntcInv
  <2>2. /\ at = "irq" => cur \in awaiting
        /\ at \in {"user", "kernel", "irq"} => Unmasked = awaiting
        /\ at = "user" /\ latched # NoneIn => latched \in awaiting
    BY <2>1 DEF Handling
  <2>3. ASSUME at \in {"kernel", "irq", "masked", "served"}, "I" \notin cpsr PROVE latched = NoneIn
    <3>1. EarlyKernel
      BY <2>1, <2>3 DEF Off, EarlyKernel
    <3>2. at = "kernel" /\ awaiting = {}
      BY <2>1, <2>3, <3>1 DEF Off, EarlyKernel
    <3> QED BY <2>1, <3>2 DEF Handling
  <2> QED BY <2>2, <2>3 DEF IrqsFindWaiters
<1> QED BY <1>1, IntcCorrect, PTL

\* Priorities, masks and system settings of the controller are what the calls
\* asked for, and IRQs stay off until the outermost section is left.
THEOREM CallsAsAsked == ASSUME IntcAssumption PROVE IntcSpec => []IntcAsAsked
<1>1. IntcInv => IntcAsAsked
  BY Zenon DEF IntcInv, Off, SetExact, IntcAsAsked
<1> QED BY <1>1, IntcCorrect, PTL

-----------------------------------------------------------------------------
(* The timer *)

TclrBits == {"ST", "AR", "CE", "GPO", "PRE"} \cup PTV
Values == 0 .. TimerModulus - 1
TmrRegs == [TCLR : SUBSET TclrBits, TCRR : Values, TLDR : Values, TMAR : Values,
            RAW : SUBSET IntFlags, IRQENABLE : SUBSET IntFlags, TSICR : SUBSET {"SFT"}]

\* The accesses that the driver makes, and what they may write where
DmAccess ==
    [reg : {"TCLR"}, op : {"set", "clear"}, bits : SUBSET TclrBits, atomic : {FALSE}]
    \cup [reg : {"TCLR"}, op : {"put"}, bits : SUBSET TclrBits, atomic : {TRUE}]
    \cup [reg : {"TSICR"}, op : {"set", "clear"}, bits : SUBSET {"SFT"}, atomic : {FALSE}]
    \cup [reg : {"RAW", "IRQENABLE"}, op : {"set", "clear"}, bits : SUBSET IntFlags, atomic : {TRUE}]
    \cup [reg : {"TCRR", "TLDR", "TMAR"}, op : {"put"}, bits : Values, atomic : {TRUE}]

\* What the timer is after an access
Do(t, a) == [t EXCEPT ![a.reg] = Result(a, t[a.reg])]

\* An access that may start the timer, and one that does not mind that it runs
Starts(a) == a.reg = "TCLR" /\ (a.op = "put" \/ (a.op = "set" /\ "ST" \in a.bits))
Harmless(a) == \/ a.reg \in {"TLDR", "TMAR", "RAW", "IRQENABLE", "TSICR"}
               \/ a.reg = "TCLR" /\ a.op = "clear" /\ a.bits = {"ST"}

\* A timer that is stopped is not started before the last access of a call,
\* and one that runs is not configured.
SoundJob(s) == s \in Seq(DmAccess) /\ \A i \in 1 .. Len(s) - 1 : ~ Starts(s[i])
Runnable(s) == \A i \in 1 .. Len(s) : Harmless(s[i])

TmrTypes ==
    /\ tmr \in TmrRegs /\ kept \in TmrRegs
    /\ use \in {"clock", "debug", "any", "nobody"}
    /\ phase \in Nat /\ clocks \in Nat

\* A register that is loaded has changed since at most where the store does
\* not mind.
HeldSound ==
    held # << >> => /\ job # << >> /\ ~ Head(job).atomic
                    /\ Result(Head(job), held[1]) = Result(Head(job), tmr[Head(job).reg])

JobInv == /\ TmrTypes /\ HeldSound
          /\ SoundJob(job)
          /\ ~ Stopped => Runnable(job)

\* For any caller: what the rest of its call makes of the timer is wanted
After(t, s) ==
    IF Len(s) = 0 THEN t
    ELSE IF Len(s) = 1 THEN Do(t, s[1])
    ELSE IF Len(s) = 2 THEN Do(Do(t, s[1]), s[2])
    ELSE IF Len(s) = 3 THEN Do(Do(Do(t, s[1]), s[2]), s[3])
    ELSE IF Len(s) = 4 THEN Do(Do(Do(Do(t, s[1]), s[2]), s[3]), s[4])
    ELSE Do(Do(Do(Do(Do(t, s[1]), s[2]), s[3]), s[4]), s[5])

AnyInv == use = "any" => /\ Len(job) <= 5 /\ (~ Stopped => Len(job) <= 2)
                         /\ wanted = Meaning(After(tmr, job))

\* What is left of s once k of its accesses are made
Rest(s, k) == Len(job) = Len(s) - k /\ \A i \in 1 .. Len(job) : job[i] = s[k + i]

\* The clock server's timer while it is set up, and when it runs
ClockStarting(k) ==
    /\ Stopped /\ phase = 0 /\ Rest(StartClock, k)
    /\ k >= 2 => "PRE" \notin tmr.TCLR
    /\ k >= 3 => tmr.TCRR = reloadValue
    /\ k >= 4 => tmr.TLDR = reloadValue
    /\ k >= 6 => "AR" \in tmr.TCLR

ClockRunning ==
    /\ "ST" \in tmr.TCLR /\ "AR" \in tmr.TCLR /\ "PRE" \notin tmr.TCLR /\ phase = 0
    /\ tmr.TLDR = reloadValue /\ clocks \in 0 .. ClocksPerMs - 1
    /\ tmr.TCRR = reloadValue + clocks
    /\ \A i \in 1 .. Len(job) : job[i].reg \in {"RAW", "IRQENABLE"}

ClockInv == use = "clock" => ClockRunning \/ \E k \in 0 .. 7 : ClockStarting(k)

\* The debug timer likewise
DebugStarting(k) ==
    /\ Stopped /\ phase = 0 /\ Rest(dbg_tmr_reset, k)
    /\ k >= 2 => tmr.TCRR = 0
    /\ k >= 3 => tmr.TLDR = 0
    /\ k >= 5 => "AR" \in tmr.TCLR
    /\ k = 6 => tmr.TCLR \cap PTV = {}
    /\ k >= 7 => tmr.TCLR \cap (PTV \cup {"PRE"}) = DivBy8

DebugRunning ==
    /\ "ST" \in tmr.TCLR /\ "AR" \in tmr.TCLR /\ tmr.TCLR \cap (PTV \cup {"PRE"}) = DivBy8
    /\ job = << >> /\ tmr.TLDR = 0 /\ phase \in 0 .. 7 /\ clocks = 8 * tmr.TCRR + phase

DebugInv == use = "debug" => DebugRunning \/ \E k \in 0 .. 7 : DebugStarting(k)

TmrInv == JobInv /\ AnyInv /\ ClockInv /\ DebugInv

-----------------------------------------------------------------------------
(* The timer: accesses *)

\* An access writes what its register may hold, and starts the timer only if
\* it is one that may.
LEMMA DoTypes ==
    ASSUME NEW t \in TmrRegs, NEW a \in DmAccess
    PROVE  /\ Do(t, a) \in TmrRegs
           /\ "ST" \in Do(t, a).TCLR => "ST" \in t.TCLR \/ Starts(a)
<1>1. CASE a.reg = "TCLR"
  <2>1. Do(t, a) = [t EXCEPT !.TCLR = Result(a, t.TCLR)]
    BY <1>1 DEF Do
  <2>2. a.op \in {"set", "clear", "put"} /\ a.bits \subseteq TclrBits /\ t.TCLR \subseteq TclrBits
    BY <1>1 DEF DmAccess, TmrRegs
  <2>3. Result(a, t.TCLR) \subseteq TclrBits
    BY <2>2 DEF Result
  <2>4. "ST" \in Result(a, t.TCLR) => "ST" \in t.TCLR \/ Starts(a)
    BY <1>1, <2>2 DEF Result, Starts
  <2> QED BY <2>1, <2>3, <2>4 DEF TmrRegs
<1>2. CASE a.reg \in {"RAW", "IRQENABLE", "TSICR"}
  BY <1>2 DEF Do, DmAccess, TmrRegs, Result
<1>3. CASE a.reg \in {"TCRR", "TLDR", "TMAR"}
  BY <1>3 DEF Do, DmAccess, TmrRegs, Result
<1> QED BY <1>1, <1>2, <1>3 DEF DmAccess

\* A call of each length
LEMMA AfterAt ==
    ASSUME NEW t, NEW s
    PROVE  /\ Len(s) = 0 => After(t, s) = t
           /\ Len(s) = 1 => After(t, s) = Do(t, s[1])
           /\ Len(s) = 2 => After(t, s) = Do(Do(t, s[1]), s[2])
           /\ Len(s) = 3 => After(t, s) = Do(Do(Do(t, s[1]), s[2]), s[3])
           /\ Len(s) = 4 => After(t, s) = Do(Do(Do(Do(t, s[1]), s[2]), s[3]), s[4])
           /\ Len(s) = 5 => After(t, s) = Do(Do(Do(Do(Do(t, s[1]), s[2]), s[3]), s[4]), s[5])
BY DEF After

\* What is left of a call after its first access
LEMMA AfterFirst ==
    ASSUME NEW t, NEW s, s \in Seq(DmAccess), s # << >>
    PROVE  /\ Tail(s) \in Seq(DmAccess) /\ Len(Tail(s)) = Len(s) - 1
           /\ \A i \in 1 .. Len(Tail(s)) : Tail(s)[i] = s[i + 1]
           /\ Head(s) = s[1] /\ s[1] \in DmAccess /\ Len(s) \in Nat \ {0}
           /\ Len(s) <= 5 => After(t, s) = After(Do(t, Head(s)), Tail(s))
<1>1. /\ Tail(s) \in Seq(DmAccess) /\ Len(Tail(s)) = Len(s) - 1
      /\ \A i \in 1 .. Len(Tail(s)) : Tail(s)[i] = s[i + 1]
      /\ Head(s) = s[1] /\ s[1] \in DmAccess /\ Len(s) \in Nat \ {0}
  OBVIOUS
<1>2. ASSUME Len(s) <= 5 PROVE After(t, s) = After(Do(t, Head(s)), Tail(s))
  <2>1. Len(s) \in {1, 2, 3, 4, 5}
    BY <1>1, <1>2
  <2>2. /\ (Len(s) = 2 \/ Len(s) = 3 \/ Len(s) = 4 \/ Len(s) = 5) => Tail(s)[1] = s[2]
        /\ (Len(s) = 3 \/ Len(s) = 4 \/ Len(s) = 5) => Tail(s)[2] = s[3]
        /\ (Len(s) = 4 \/ Len(s) = 5) => Tail(s)[3] = s[4]
        /\ Len(s) = 5 => Tail(s)[4] = s[5]
    BY <1>1
  <2>3. /\ Len(s) = 1 => Len(Tail(s)) = 0
        /\ Len(s) = 2 => Len(Tail(s)) = 1
        /\ Len(s) = 3 => Len(Tail(s)) = 2
        /\ Len(s) = 4 => Len(Tail(s)) = 3
        /\ Len(s) = 5 => Len(Tail(s)) = 4
    BY <1>1
  <2> DEFINE u == Do(t, Head(s))
             r == Tail(s)
  <2>4. u = Do(t, s[1])
    BY <1>1
  <2>5. /\ Len(r) = 0 => After(u, r) = u
        /\ Len(r) = 1 => After(u, r) = Do(u, r[1])
        /\ Len(r) = 2 => After(u, r) = Do(Do(u, r[1]), r[2])
        /\ Len(r) = 3 => After(u, r) = Do(Do(Do(u, r[1]), r[2]), r[3])
        /\ Len(r) = 4 => After(u, r) = Do(Do(Do(Do(u, r[1]), r[2]), r[3]), r[4])
    <3> HIDE DEF u, r
    <3> QED BY AfterAt, Zenon
  <2> HIDE DEF u
  <2>6. CASE Len(s) = 1
    <3>1. After(t, s) = u BY <2>4, <2>6, AfterAt, Zenon
    <3>2. After(u, Tail(s)) = u BY <2>3, <2>5, <2>6, Zenon
    <3> QED BY <3>1, <3>2 DEF u
  <2>7. CASE Len(s) = 2
    <3>1. After(t, s) = Do(u, s[2]) BY <2>4, <2>7, AfterAt, Zenon
    <3>2. After(u, Tail(s)) = Do(u, s[2]) BY <2>2, <2>3, <2>5, <2>7, Zenon
    <3> QED BY <3>1, <3>2 DEF u
  <2>8. CASE Len(s) = 3
    <3>1. After(t, s) = Do(Do(u, s[2]), s[3]) BY <2>4, <2>8, AfterAt, Zenon
    <3>2. Len(Tail(s)) = 2 /\ Tail(s)[1] = s[2] /\ Tail(s)[2] = s[3] BY <2>2, <2>3, <2>8, Zenon
    <3>3. After(u, Tail(s)) = Do(Do(u, s[2]), s[3]) BY <3>2, <2>5, Zenon
    <3> QED BY <3>1, <3>3 DEF u
  <2>9. CASE Len(s) = 4
    <3>1. After(t, s) = Do(Do(Do(u, s[2]), s[3]), s[4]) BY <2>4, <2>9, AfterAt, Zenon
    <3>2. Len(Tail(s)) = 3 /\ Tail(s)[1] = s[2] /\ Tail(s)[2] = s[3] /\ Tail(s)[3] = s[4]
      BY <2>2, <2>3, <2>9, Zenon
    <3>3. After(u, Tail(s)) = Do(Do(Do(u, s[2]), s[3]), s[4]) BY <3>2, <2>5, Zenon
    <3> QED BY <3>1, <3>3 DEF u
  <2>10. CASE Len(s) = 5
    <3>1. After(t, s) = Do(Do(Do(Do(u, s[2]), s[3]), s[4]), s[5]) BY <2>4, <2>10, AfterAt, Zenon
    <3>2. Len(Tail(s)) = 4 /\ Tail(s)[1] = s[2] /\ Tail(s)[2] = s[3] /\ Tail(s)[3] = s[4] /\ Tail(s)[4] = s[5]
      BY <2>2, <2>3, <2>10, Zenon
    <3>3. After(u, Tail(s)) = Do(Do(Do(Do(u, s[2]), s[3]), s[4]), s[5]) BY <3>2, <2>5, Zenon
    <3> QED BY <3>1, <3>3 DEF u
  <2> QED BY <2>1, <2>6, <2>7, <2>8, <2>9, <2>10
<1> QED BY <1>1, <1>2

\* A timer one count later, that may have stopped, and the calls it can be in
\* the middle of
Moved(t, u, once, n) ==
    /\ u.TCLR = (IF once THEN t.TCLR \ {"ST"} ELSE t.TCLR)
    /\ u.TCRR = n /\ u.TLDR = t.TLDR /\ u.TMAR = t.TMAR
    /\ u.IRQENABLE = t.IRQENABLE /\ u.TSICR = t.TSICR

LEMMA MovedDo ==
    ASSUME NEW t \in TmrRegs, NEW u \in TmrRegs, NEW once \in BOOLEAN, NEW n, Moved(t, u, once, n),
           NEW a \in DmAccess, Harmless(a)
    PROVE  Moved(Do(t, a), Do(u, a), once, n) /\ Do(t, a).TCRR = t.TCRR
<1>1. CASE a.reg = "TCLR"
  <2>1. /\ Do(t, a) = [t EXCEPT !.TCLR = Result(a, t.TCLR)]
        /\ Do(u, a) = [u EXCEPT !.TCLR = Result(a, u.TCLR)]
    BY <1>1 DEF Do
  <2>2. a.op = "clear" /\ a.bits = {"ST"}
    BY <1>1 DEF Harmless
  <2>3. Result(a, t.TCLR) = t.TCLR \ {"ST"} /\ Result(a, u.TCLR) = u.TCLR \ {"ST"}
    BY <2>2 DEF Result
  <2>4. u.TCLR \ {"ST"} = t.TCLR \ {"ST"}
    BY DEF Moved
  <2> QED BY <2>1, <2>3, <2>4 DEF Moved, TmrRegs
<1>2. CASE a.reg \in {"TLDR", "TMAR"}
  <2>1. \A x : Result(a, x) = a.bits
    BY <1>2 DEF DmAccess, Result
  <2> QED BY <1>2, <2>1 DEF Do, Moved, TmrRegs
<1>3. CASE a.reg \in {"RAW", "IRQENABLE", "TSICR"}
  BY <1>3 DEF Do, Moved, TmrRegs
<1> QED BY <1>1, <1>2, <1>3 DEF Harmless

LEMMA MovedAfter ==
    ASSUME NEW t \in TmrRegs, NEW u \in TmrRegs, NEW once \in BOOLEAN, NEW n, Moved(t, u, once, n),
           NEW s \in Seq(DmAccess), Len(s) <= 2, Runnable(s)
    PROVE  Moved(After(t, s), After(u, s), once, n) /\ After(t, s).TCRR = t.TCRR
<1>1. Len(s) = 0 \/ Len(s) = 1 \/ Len(s) = 2
  <2> DEFINE len == Len(s)
  <2>1. len \in Nat /\ len <= 2
    OBVIOUS
  <2> HIDE DEF len
  <2>2. len = 0 \/ len = 1 \/ len = 2
    BY <2>1
  <2> QED BY <2>2 DEF len
<1>2. CASE Len(s) = 0 BY <1>2 DEF After
<1>3. CASE Len(s) = 1
  <2>1. s[1] \in DmAccess /\ Harmless(s[1]) BY <1>3 DEF Runnable
  <2> QED BY <1>3, <2>1, MovedDo DEF After
<1>4. CASE Len(s) = 2
  <2>1. s[1] \in DmAccess /\ Harmless(s[1]) /\ s[2] \in DmAccess /\ Harmless(s[2])
    BY <1>4 DEF Runnable
  <2>2. Moved(Do(t, s[1]), Do(u, s[1]), once, n) /\ Do(t, s[1]).TCRR = t.TCRR
    BY <2>1, MovedDo
  <2>3. Do(t, s[1]) \in TmrRegs /\ Do(u, s[1]) \in TmrRegs
    BY <2>1, DoTypes
  <2>4. Moved(Do(Do(t, s[1]), s[2]), Do(Do(u, s[1]), s[2]), once, n) /\ Do(Do(t, s[1]), s[2]).TCRR = Do(t, s[1]).TCRR
    BY <2>1, <2>2, <2>3, MovedDo
  <2> QED BY <1>4, <2>2, <2>4 DEF After
<1> QED BY <1>1, <1>2, <1>3, <1>4

-----------------------------------------------------------------------------
(* The timer: what a call comes to *)

\* The meaning of the registers, from its parts
MeaningOf(c, l, m, r, o, d, g, e, x) ==
    [count |-> c, reload |-> l, compare |-> m, running |-> r, mode |-> o,
     divisor |-> d, gpo |-> g, enabled |-> e, sft |-> x]

LEMMA MeaningIs ==
    ASSUME NEW t
    PROVE  Meaning(t) = MeaningOf(t.TCRR, t.TLDR, t.TMAR, "ST" \in t.TCLR, t.TCLR \cap {"AR", "CE"},
                                  Divisor(t.TCLR), t.TCLR \cap {"GPO"}, t.IRQENABLE, t.TSICR)
BY Zenon DEF Meaning, MeaningOf

LEMMA MeaningExcept ==
    ASSUME NEW c, NEW l, NEW m, NEW r, NEW o, NEW d, NEW g, NEW e, NEW x, NEW y
    PROVE  LET w == MeaningOf(c, l, m, r, o, d, g, e, x) IN
           /\ [w EXCEPT !.count = y] = MeaningOf(y, l, m, r, o, d, g, e, x)
           /\ [w EXCEPT !.reload = y] = MeaningOf(c, y, m, r, o, d, g, e, x)
           /\ [w EXCEPT !.compare = y] = MeaningOf(c, l, y, r, o, d, g, e, x)
           /\ [w EXCEPT !.running = y] = MeaningOf(c, l, m, y, o, d, g, e, x)
           /\ [w EXCEPT !.mode = y] = MeaningOf(c, l, m, r, y, d, g, e, x)
           /\ [w EXCEPT !.divisor = y] = MeaningOf(c, l, m, r, o, y, g, e, x)
           /\ [w EXCEPT !.gpo = y] = MeaningOf(c, l, m, r, o, d, y, e, x)
           /\ [w EXCEPT !.enabled = y] = MeaningOf(c, l, m, r, o, d, g, y, x)
           /\ [w EXCEPT !.sft = y] = MeaningOf(c, l, m, r, o, d, g, e, y)
           /\ w.count = c /\ w.running = r /\ w.enabled = e
BY DEF MeaningOf

Prescaler == PTV \cup {"PRE"}

LEMMA DivisorSame ==
    ASSUME NEW c, NEW d, c \cap Prescaler = d \cap Prescaler
    PROVE  Divisor(c) = Divisor(d)
<1>1. /\ "PRE" \in c <=> "PRE" \in d
      /\ "PTV0" \in c <=> "PTV0" \in d
      /\ "PTV1" \in c <=> "PTV1" \in d
      /\ "PTV2" \in c <=> "PTV2" \in d
  BY DEF Prescaler, PTV
<1> QED BY <1>1 DEF Divisor

\* What a call that changes the control register comes to
LEMMA ControlMeaning ==
    ASSUME NEW t \in TmrRegs, NEW c, NEW u, u = [t EXCEPT !.TCLR = c]
    PROVE  Meaning(u) = MeaningOf(t.TCRR, t.TLDR, t.TMAR, "ST" \in c, c \cap {"AR", "CE"},
                                  Divisor(c), c \cap {"GPO"}, t.IRQENABLE, t.TSICR)
<1>1. /\ u.TCLR = c /\ u.TCRR = t.TCRR /\ u.TLDR = t.TLDR /\ u.TMAR = t.TMAR
      /\ u.IRQENABLE = t.IRQENABLE /\ u.TSICR = t.TSICR
  BY DEF TmrRegs
<1> QED BY <1>1, MeaningIs, Zenon

\* One that changes other registers
LEMMA OtherMeaning ==
    ASSUME NEW u, NEW t, u.TCLR = t.TCLR
    PROVE  Meaning(u) = MeaningOf(u.TCRR, u.TLDR, u.TMAR, "ST" \in t.TCLR, t.TCLR \cap {"AR", "CE"},
                                  Divisor(t.TCLR), t.TCLR \cap {"GPO"}, u.IRQENABLE, u.TSICR)
BY MeaningIs, Zenon

\* Calls of one and of two accesses
LEMMA OneAccess ==
    ASSUME NEW t, NEW a \in DmAccess
    PROVE  /\ SoundJob(<<a>>) /\ Len(<<a>>) = 1 /\ After(t, <<a>>) = Do(t, a)
           /\ Harmless(a) => Runnable(<<a>>)
<1>1. Len(<<a>>) = 1 /\ <<a>>[1] = a /\ <<a>> \in Seq(DmAccess)
  OBVIOUS
<1>2. After(t, <<a>>) = Do(t, a)
  BY <1>1, AfterAt
<1> QED BY <1>1, <1>2 DEF SoundJob, Runnable

LEMMA TwoAccesses ==
    ASSUME NEW t, NEW a \in DmAccess, NEW b \in DmAccess, ~ Starts(a)
    PROVE  /\ SoundJob(<<a, b>>) /\ Len(<<a, b>>) = 2 /\ After(t, <<a, b>>) = Do(Do(t, a), b)
           /\ Harmless(a) /\ Harmless(b) => Runnable(<<a, b>>)
<1>1. Len(<<a, b>>) = 2 /\ <<a, b>>[1] = a /\ <<a, b>>[2] = b /\ <<a, b>> \in Seq(DmAccess)
  OBVIOUS
<1>2. After(t, <<a, b>>) = Do(Do(t, a), b)
  BY <1>1, AfterAt
<1>3. SoundJob(<<a, b>>)
  BY <1>1 DEF SoundJob
<1>4. Harmless(a) /\ Harmless(b) => Runnable(<<a, b>>)
  BY <1>1 DEF Runnable
<1> QED BY <1>1, <1>2, <1>3, <1>4

\* A call that fits the state it is made in
Sound(s, m) ==
    /\ SoundJob(s) /\ Len(s) <= 5
    /\ ~ Stopped => Runnable(s) /\ Len(s) <= 2
    /\ m = Meaning(After(tmr, s))

\* What its callers know when no call is going on
Idle == TmrTypes /\ use = "any" /\ wanted = Meaning(tmr)

LEMMA IdleHere == ASSUME TmrInv, use = "any", job = << >> PROVE Idle
<1>1. After(tmr, job) = tmr
  BY DEF After
<1> QED BY <1>1 DEF TmrInv, AnyInv, JobInv, Idle

\* A field of the control register programmed in a stopped timer
LEMMA ProgramOk ==
    ASSUME Idle, NEW field \in SUBSET TclrBits, NEW value \in SUBSET field, "ST" \notin field, Stopped
    PROVE  LET s == Programmed("TCLR", field, value)
               c == (tmr.TCLR \ field) \cup value
           IN /\ SoundJob(s) /\ Len(s) <= 5
              /\ Meaning(After(tmr, s)) =
                    MeaningOf(tmr.TCRR, tmr.TLDR, tmr.TMAR, "ST" \in c, c \cap {"AR", "CE"},
                              Divisor(c), c \cap {"GPO"}, tmr.IRQENABLE, tmr.TSICR)
<1> DEFINE a == AndNot("TCLR", field)
           b == Or("TCLR", value \cap field)
           c == (tmr.TCLR \ field) \cup value
<1>1. tmr \in TmrRegs /\ value \cap field = value
  BY DEF Idle, TmrTypes
<1>2. a \in DmAccess /\ b \in DmAccess /\ ~ Starts(a)
  BY <1>1 DEF DmAccess, AndNot, Or, Starts
<1>3. Do(tmr, a) = [tmr EXCEPT !.TCLR = tmr.TCLR \ field]
  BY DEF Do, AndNot, Result
<1>4. Do(Do(tmr, a), b) = [tmr EXCEPT !.TCLR = c]
  <2> DEFINE u == Do(tmr, a)
  <2>1. u = [tmr EXCEPT !.TCLR = tmr.TCLR \ field] /\ u.TCLR = tmr.TCLR \ field
    BY <1>1, <1>3 DEF TmrRegs
  <2>2. Do(u, b) = [u EXCEPT !.TCLR = u.TCLR \cup (value \cap field)]
    BY DEF Do, Or, Result
  <2> HIDE DEF u
  <2>3. Do(u, b) = [tmr EXCEPT !.TCLR = (tmr.TCLR \ field) \cup value]
    BY <1>1, <2>1, <2>2
  <2> QED BY <2>3 DEF u
<1>5. Programmed("TCLR", field, value) = <<a, b>>
  BY DEF Programmed
<1> HIDE DEF a, b, c
<1>6. After(tmr, <<a, b>>) = Do(Do(tmr, a), b) /\ SoundJob(<<a, b>>) /\ Len(<<a, b>>) = 2
  BY <1>2, TwoAccesses
<1>7. Meaning(Do(Do(tmr, a), b)) =
                    MeaningOf(tmr.TCRR, tmr.TLDR, tmr.TMAR, "ST" \in c, c \cap {"AR", "CE"},
                              Divisor(c), c \cap {"GPO"}, tmr.IRQENABLE, tmr.TSICR)
  BY <1>1, <1>4, ControlMeaning
<1>8. Len(<<a, b>>) <= 5
  BY <1>6
<1> QED BY <1>5, <1>6, <1>7, <1>8, Zenon DEF c

\* One access to the control register
LEMMA ControlOk ==
    ASSUME Idle, NEW a \in DmAccess, a.reg = "TCLR", a.op \in {"set", "clear"},
           Stopped \/ Harmless(a)
    PROVE  LET c == Result(a, tmr.TCLR)
           IN Sound(<<a>>, MeaningOf(tmr.TCRR, tmr.TLDR, tmr.TMAR, "ST" \in c, c \cap {"AR", "CE"},
                              Divisor(c), c \cap {"GPO"}, tmr.IRQENABLE, tmr.TSICR))
<1> DEFINE c == Result(a, tmr.TCLR)
<1>1. Do(tmr, a) = [tmr EXCEPT !.TCLR = c] /\ tmr \in TmrRegs
  BY DEF Do, Idle, TmrTypes
<1>2. /\ SoundJob(<<a>>) /\ Len(<<a>>) = 1 /\ After(tmr, <<a>>) = Do(tmr, a)
      /\ Harmless(a) => Runnable(<<a>>)
  BY OneAccess
<1> HIDE DEF c
<1>3. Meaning(Do(tmr, a)) = MeaningOf(tmr.TCRR, tmr.TLDR, tmr.TMAR, "ST" \in c, c \cap {"AR", "CE"},
                              Divisor(c), c \cap {"GPO"}, tmr.IRQENABLE, tmr.TSICR)
  BY <1>1, ControlMeaning
<1>4. Len(<<a>>) <= 5 /\ Len(<<a>>) <= 2
  BY <1>2
<1> QED BY <1>2, <1>3, <1>4, Zenon DEF Sound, c

\* One access to another register
LEMMA OtherOk ==
    ASSUME Idle, NEW a \in DmAccess, a.reg # "TCLR", Stopped \/ Harmless(a)
    PROVE  LET u == Do(tmr, a)
           IN Sound(<<a>>, MeaningOf(u.TCRR, u.TLDR, u.TMAR, "ST" \in tmr.TCLR, tmr.TCLR \cap {"AR", "CE"},
                              Divisor(tmr.TCLR), tmr.TCLR \cap {"GPO"}, u.IRQENABLE, u.TSICR))
<1> DEFINE u == Do(tmr, a)
<1>1. u.TCLR = tmr.TCLR
  BY DEF Do, Idle, TmrTypes, TmrRegs
<1>2. /\ SoundJob(<<a>>) /\ Len(<<a>>) = 1 /\ After(tmr, <<a>>) = u
      /\ Harmless(a) => Runnable(<<a>>)
  BY OneAccess
<1> HIDE DEF u
<1>3. Meaning(u) = MeaningOf(u.TCRR, u.TLDR, u.TMAR, "ST" \in tmr.TCLR, tmr.TCLR \cap {"AR", "CE"},
                              Divisor(tmr.TCLR), tmr.TCLR \cap {"GPO"}, u.IRQENABLE, u.TSICR)
  BY <1>1, OtherMeaning
<1>4. Len(<<a>>) <= 5 /\ Len(<<a>>) <= 2
  BY <1>2
<1> QED BY <1>2, <1>3, <1>4, Zenon DEF Sound, u

\* The parts of what is wanted when no call is going on
LEMMA IdleWanted ==
    ASSUME Idle
    PROVE  /\ wanted = MeaningOf(tmr.TCRR, tmr.TLDR, tmr.TMAR, "ST" \in tmr.TCLR, tmr.TCLR \cap {"AR", "CE"},
                                 Divisor(tmr.TCLR), tmr.TCLR \cap {"GPO"}, tmr.IRQENABLE, tmr.TSICR)
           /\ tmr \in TmrRegs
BY MeaningIs, Zenon DEF Idle, TmrTypes

LEMMA WantedExcept ==
    ASSUME Idle, NEW y
    PROVE  LET l == tmr.TLDR
               m == tmr.TMAR
               r == "ST" \in tmr.TCLR
               o == tmr.TCLR \cap {"AR", "CE"}
               d == Divisor(tmr.TCLR)
               g == tmr.TCLR \cap {"GPO"}
               e == tmr.IRQENABLE
               x == tmr.TSICR
               c == tmr.TCRR
           IN /\ [wanted EXCEPT !.count = y] = MeaningOf(y, l, m, r, o, d, g, e, x)
              /\ [wanted EXCEPT !.reload = y] = MeaningOf(c, y, m, r, o, d, g, e, x)
              /\ [wanted EXCEPT !.compare = y] = MeaningOf(c, l, y, r, o, d, g, e, x)
              /\ [wanted EXCEPT !.running = y] = MeaningOf(c, l, m, y, o, d, g, e, x)
              /\ [wanted EXCEPT !.mode = y] = MeaningOf(c, l, m, r, y, d, g, e, x)
              /\ [wanted EXCEPT !.divisor = y] = MeaningOf(c, l, m, r, o, y, g, e, x)
              /\ [wanted EXCEPT !.gpo = y] = MeaningOf(c, l, m, r, o, d, y, e, x)
              /\ [wanted EXCEPT !.enabled = y] = MeaningOf(c, l, m, r, o, d, g, y, x)
              /\ [wanted EXCEPT !.sft = y] = MeaningOf(c, l, m, r, o, d, g, e, y)
              /\ wanted.enabled = e
<1> DEFINE l == tmr.TLDR
           m == tmr.TMAR
           r == "ST" \in tmr.TCLR
           o == tmr.TCLR \cap {"AR", "CE"}
           d == Divisor(tmr.TCLR)
           g == tmr.TCLR \cap {"GPO"}
           e == tmr.IRQENABLE
           x == tmr.TSICR
           c == tmr.TCRR
<1>1. wanted = MeaningOf(c, l, m, r, o, d, g, e, x)
  BY IdleWanted
<1>2. /\ [wanted EXCEPT !.count = y] = MeaningOf(y, l, m, r, o, d, g, e, x)
      /\ [wanted EXCEPT !.reload = y] = MeaningOf(c, y, m, r, o, d, g, e, x)
      /\ [wanted EXCEPT !.compare = y] = MeaningOf(c, l, y, r, o, d, g, e, x)
      /\ [wanted EXCEPT !.running = y] = MeaningOf(c, l, m, y, o, d, g, e, x)
      /\ [wanted EXCEPT !.mode = y] = MeaningOf(c, l, m, r, y, d, g, e, x)
      /\ [wanted EXCEPT !.divisor = y] = MeaningOf(c, l, m, r, o, y, g, e, x)
      /\ [wanted EXCEPT !.gpo = y] = MeaningOf(c, l, m, r, o, d, y, e, x)
      /\ [wanted EXCEPT !.enabled = y] = MeaningOf(c, l, m, r, o, d, g, y, x)
      /\ [wanted EXCEPT !.sft = y] = MeaningOf(c, l, m, r, o, d, g, e, y)
      /\ wanted.enabled = e
  <2> HIDE DEF c, l, m, r, o, d, g, e, x
  <2> QED BY <1>1 DEF MeaningOf
<1> QED BY <1>2

LEMMA EnableOk == ASSUME Idle, Stopped PROVE Sound(DMTimerEnable, [wanted EXCEPT !.running = TRUE])
<1> DEFINE a == Or("TCLR", {"ST"})
           c == tmr.TCLR \cup {"ST"}
<1>1. a \in DmAccess /\ a.reg = "TCLR" /\ a.op = "set"
  BY DEF Or, DmAccess, TclrBits
<1>2. Result(a, tmr.TCLR) = c
  BY DEF Or, Result
<1>3. ("ST" \in c) = TRUE /\ c \cap {"AR", "CE"} = tmr.TCLR \cap {"AR", "CE"} /\ c \cap {"GPO"} = tmr.TCLR \cap {"GPO"}
      /\ c \cap Prescaler = tmr.TCLR \cap Prescaler
  BY DEF Prescaler, PTV
<1>4. DMTimerEnable = <<a>>
  BY DEF DMTimerEnable
<1> HIDE DEF a, c
<1>5. Divisor(c) = Divisor(tmr.TCLR)
  BY <1>3, DivisorSame, Zenon
<1>6. Sound(<<a>>, MeaningOf(tmr.TCRR, tmr.TLDR, tmr.TMAR, "ST" \in c, c \cap {"AR", "CE"},
                              Divisor(c), c \cap {"GPO"}, tmr.IRQENABLE, tmr.TSICR))
  BY <1>1, <1>2, ControlOk
<1> QED BY <1>3, <1>4, <1>5, <1>6, IdleWanted, WantedExcept, Zenon

LEMMA DisableOk == ASSUME Idle PROVE Sound(DMTimerDisable, [wanted EXCEPT !.running = FALSE])
<1> DEFINE a == AndNot("TCLR", {"ST"})
           c == tmr.TCLR \ {"ST"}
<1>1. a \in DmAccess /\ a.reg = "TCLR" /\ a.op = "clear" /\ Harmless(a)
  BY DEF AndNot, DmAccess, TclrBits, Harmless
<1>2. Result(a, tmr.TCLR) = c
  BY DEF AndNot, Result
<1>3. ("ST" \in c) = FALSE /\ c \cap {"AR", "CE"} = tmr.TCLR \cap {"AR", "CE"} /\ c \cap {"GPO"} = tmr.TCLR \cap {"GPO"}
      /\ c \cap Prescaler = tmr.TCLR \cap Prescaler
  BY DEF Prescaler, PTV
<1>4. DMTimerDisable = <<a>>
  BY DEF DMTimerDisable
<1> HIDE DEF a, c
<1>5. Divisor(c) = Divisor(tmr.TCLR)
  BY <1>3, DivisorSame, Zenon
<1>6. Sound(<<a>>, MeaningOf(tmr.TCRR, tmr.TLDR, tmr.TMAR, "ST" \in c, c \cap {"AR", "CE"},
                              Divisor(c), c \cap {"GPO"}, tmr.IRQENABLE, tmr.TSICR))
  BY <1>1, <1>2, ControlOk
<1> QED BY <1>3, <1>4, <1>5, <1>6, IdleWanted, WantedExcept, Zenon

LEMMA PreScalerOffOk ==
    ASSUME Idle, Stopped PROVE Sound(DMTimerPreScalerClkDisable, [wanted EXCEPT !.divisor = 1])
<1> DEFINE a == AndNot("TCLR", {"PRE"})
           c == tmr.TCLR \ {"PRE"}
<1>1. a \in DmAccess /\ a.reg = "TCLR" /\ a.op = "clear"
  BY DEF AndNot, DmAccess, TclrBits, Harmless
<1>2. Result(a, tmr.TCLR) = c
  BY DEF AndNot, Result
<1>3. ("ST" \in c <=> "ST" \in tmr.TCLR) /\ c \cap {"AR", "CE"} = tmr.TCLR \cap {"AR", "CE"}
      /\ c \cap {"GPO"} = tmr.TCLR \cap {"GPO"}
  OBVIOUS
<1>4. DMTimerPreScalerClkDisable = <<a>>
  BY DEF DMTimerPreScalerClkDisable
<1>5. Divisor(c) = 1
  BY DEF Divisor
<1> HIDE DEF a, c
<1>6. Sound(<<a>>, MeaningOf(tmr.TCRR, tmr.TLDR, tmr.TMAR, "ST" \in c, c \cap {"AR", "CE"},
                              Divisor(c), c \cap {"GPO"}, tmr.IRQENABLE, tmr.TSICR))
  BY <1>1, <1>2, ControlOk
<1>7. ("ST" \in c) = ("ST" \in tmr.TCLR)
  BY DEF c
<1> QED BY <1>3, <1>4, <1>5, <1>6, <1>7, IdleWanted, WantedExcept, Zenon

LEMMA ModeOk ==
    ASSUME Idle, Stopped, NEW mode \in SUBSET {"AR", "CE"}
    PROVE  Sound(DMTimerModeConfigure(mode), [wanted EXCEPT !.mode = mode])
<1> DEFINE s == Programmed("TCLR", {"AR", "CE"}, mode)
           c == (tmr.TCLR \ {"AR", "CE"}) \cup mode
<1>1. {"AR", "CE"} \in SUBSET TclrBits /\ "ST" \notin {"AR", "CE"}
  BY DEF TclrBits
<1>2. /\ SoundJob(s) /\ Len(s) <= 5
      /\ Meaning(After(tmr, s)) =
                    MeaningOf(tmr.TCRR, tmr.TLDR, tmr.TMAR, "ST" \in c, c \cap {"AR", "CE"},
                              Divisor(c), c \cap {"GPO"}, tmr.IRQENABLE, tmr.TSICR)
  BY <1>1, ProgramOk
<1>3. ("ST" \in c <=> "ST" \in tmr.TCLR) /\ c \cap {"AR", "CE"} = mode
      /\ c \cap {"GPO"} = tmr.TCLR \cap {"GPO"} /\ c \cap Prescaler = tmr.TCLR \cap Prescaler
  BY DEF Prescaler, PTV
<1>4. DMTimerModeConfigure(mode) = s
  BY DEF DMTimerModeConfigure
<1> HIDE DEF c, s
<1>5. Divisor(c) = Divisor(tmr.TCLR)
  BY <1>3, DivisorSame, Zenon
<1>6. ("ST" \in c) = ("ST" \in tmr.TCLR)
  BY DEF c
<1> QED BY <1>2, <1>3, <1>4, <1>5, <1>6, IdleWanted, WantedExcept, ZenonT(40) DEF Sound

LEMMA GpoOk ==
    ASSUME Idle, Stopped, NEW gpo \in SUBSET {"GPO"}
    PROVE  Sound(DMTimerGPOConfigure(gpo), [wanted EXCEPT !.gpo = gpo])
<1> DEFINE s == Programmed("TCLR", {"GPO"}, gpo)
           c == (tmr.TCLR \ {"GPO"}) \cup gpo
<1>1. {"GPO"} \in SUBSET TclrBits /\ "ST" \notin {"GPO"}
  BY DEF TclrBits
<1>2. /\ SoundJob(s) /\ Len(s) <= 5
      /\ Meaning(After(tmr, s)) =
                    MeaningOf(tmr.TCRR, tmr.TLDR, tmr.TMAR, "ST" \in c, c \cap {"AR", "CE"},
                              Divisor(c), c \cap {"GPO"}, tmr.IRQENABLE, tmr.TSICR)
  BY <1>1, ProgramOk
<1>3. ("ST" \in c <=> "ST" \in tmr.TCLR) /\ c \cap {"AR", "CE"} = tmr.TCLR \cap {"AR", "CE"}
      /\ c \cap {"GPO"} = gpo /\ c \cap Prescaler = tmr.TCLR \cap Prescaler
  BY DEF Prescaler, PTV
<1>4. DMTimerGPOConfigure(gpo) = s
  BY DEF DMTimerGPOConfigure
<1> HIDE DEF c, s
<1>5. Divisor(c) = Divisor(tmr.TCLR)
  BY <1>3, DivisorSame, Zenon
<1>6. ("ST" \in c) = ("ST" \in tmr.TCLR)
  BY DEF c
<1> QED BY <1>2, <1>3, <1>4, <1>5, <1>6, IdleWanted, WantedExcept, ZenonT(40) DEF Sound

LEMMA PreScalerOk ==
    ASSUME Idle, Stopped, NEW ptv \in {{"PRE"}, {"PTV0", "PRE"}}
    PROVE  Sound(DMTimerPreScalerClkEnable(ptv), [wanted EXCEPT !.divisor = Divisor(ptv)])
<1> DEFINE a == AndNot("TCLR", PTV)
           b == Or("TCLR", ptv \cap (PTV \cup {"PRE"}))
           c == (tmr.TCLR \ PTV) \cup ptv
<1>1. tmr \in TmrRegs /\ ptv \cap (PTV \cup {"PRE"}) = ptv
  BY DEF Idle, TmrTypes, PTV
<1>2. a \in DmAccess /\ b \in DmAccess /\ ~ Starts(a)
  BY <1>1 DEF DmAccess, AndNot, Or, Starts, TclrBits
<1>3. Do(Do(tmr, a), b) = [tmr EXCEPT !.TCLR = c]
  <2> DEFINE u == Do(tmr, a)
  <2>1. u = [tmr EXCEPT !.TCLR = tmr.TCLR \ PTV] /\ u.TCLR = tmr.TCLR \ PTV
    BY <1>1 DEF Do, AndNot, Result, TmrRegs
  <2>2. Do(u, b) = [u EXCEPT !.TCLR = u.TCLR \cup ptv]
    BY <1>1 DEF Do, Or, Result
  <2> HIDE DEF u
  <2>3. Do(u, b) = [tmr EXCEPT !.TCLR = (tmr.TCLR \ PTV) \cup ptv]
    BY <1>1, <2>1, <2>2
  <2> QED BY <2>3 DEF u
<1>4. DMTimerPreScalerClkEnable(ptv) = <<a, b>>
  BY DEF DMTimerPreScalerClkEnable
<1>5. ("ST" \in c <=> "ST" \in tmr.TCLR) /\ c \cap {"AR", "CE"} = tmr.TCLR \cap {"AR", "CE"}
      /\ c \cap {"GPO"} = tmr.TCLR \cap {"GPO"} /\ c \cap Prescaler = ptv \cap Prescaler
  BY DEF Prescaler, PTV
<1> HIDE DEF a, b, c
<1>6. After(tmr, <<a, b>>) = Do(Do(tmr, a), b) /\ SoundJob(<<a, b>>) /\ Len(<<a, b>>) = 2
  BY <1>2, TwoAccesses
<1>7. Meaning(Do(Do(tmr, a), b)) =
                    MeaningOf(tmr.TCRR, tmr.TLDR, tmr.TMAR, "ST" \in c, c \cap {"AR", "CE"},
                              Divisor(c), c \cap {"GPO"}, tmr.IRQENABLE, tmr.TSICR)
  BY <1>1, <1>3, ControlMeaning
<1>8. Len(<<a, b>>) <= 5
  BY <1>6
<1>9. Divisor(c) = Divisor(ptv)
  BY <1>5, DivisorSame, Zenon
<1>10. ("ST" \in c) = ("ST" \in tmr.TCLR)
  BY DEF c, PTV
<1> QED BY <1>4, <1>5, <1>6, <1>7, <1>8, <1>9, <1>10, IdleWanted, WantedExcept, ZenonT(40) DEF Sound

\* A counter register, or the flags that raise the interrupt
LEMMA PutOk ==
    ASSUME Idle, NEW n \in Values
    PROVE  /\ Stopped => Sound(<<Put("TCRR", n)>>, [wanted EXCEPT !.count = n])
           /\ Sound(DMTimerReloadSet(n), [wanted EXCEPT !.reload = n])
           /\ Sound(DMTimerCompareSet(n), [wanted EXCEPT !.compare = n])
<1>1. tmr \in TmrRegs
  BY IdleWanted
<1>2. ASSUME Stopped PROVE Sound(<<Put("TCRR", n)>>, [wanted EXCEPT !.count = n])
  <2> DEFINE a == Put("TCRR", n)
             u == Do(tmr, a)
  <2>1. a \in DmAccess /\ a.reg # "TCLR"
    BY DEF Put, DmAccess
  <2>2. u = [tmr EXCEPT !.TCRR = n]
    BY DEF Do, Put, Result
  <2>3. /\ u.TCRR = n /\ u.TLDR = tmr.TLDR /\ u.TMAR = tmr.TMAR
        /\ u.IRQENABLE = tmr.IRQENABLE /\ u.TSICR = tmr.TSICR
    BY <1>1, <2>2 DEF TmrRegs
  <2> HIDE DEF a, u
  <2>4. Sound(<<a>>, MeaningOf(u.TCRR, u.TLDR, u.TMAR, "ST" \in tmr.TCLR, tmr.TCLR \cap {"AR", "CE"},
                              Divisor(tmr.TCLR), tmr.TCLR \cap {"GPO"}, u.IRQENABLE, u.TSICR))
    BY <1>2, <2>1, OtherOk DEF u
  <2>5. Sound(<<a>>, [wanted EXCEPT !.count = n])
    BY <2>3, <2>4, IdleWanted, WantedExcept, Zenon
  <2> QED BY <2>5 DEF a
<1>3. Sound(DMTimerReloadSet(n), [wanted EXCEPT !.reload = n])
  <2> DEFINE a == Put("TLDR", n)
             u == Do(tmr, a)
  <2>1. a \in DmAccess /\ a.reg # "TCLR" /\ Harmless(a)
    BY DEF Put, DmAccess, Harmless
  <2>2. u = [tmr EXCEPT !.TLDR = n]
    BY DEF Do, Put, Result
  <2>3. /\ u.TCRR = tmr.TCRR /\ u.TLDR = n /\ u.TMAR = tmr.TMAR
        /\ u.IRQENABLE = tmr.IRQENABLE /\ u.TSICR = tmr.TSICR
    BY <1>1, <2>2 DEF TmrRegs
  <2> HIDE DEF a, u
  <2>4. Sound(<<a>>, MeaningOf(u.TCRR, u.TLDR, u.TMAR, "ST" \in tmr.TCLR, tmr.TCLR \cap {"AR", "CE"},
                              Divisor(tmr.TCLR), tmr.TCLR \cap {"GPO"}, u.IRQENABLE, u.TSICR))
    BY <2>1, OtherOk DEF u
  <2>5. Sound(<<a>>, [wanted EXCEPT !.reload = n])
    BY <2>3, <2>4, IdleWanted, WantedExcept, Zenon
  <2> QED BY <2>5 DEF a, DMTimerReloadSet
<1>4. Sound(DMTimerCompareSet(n), [wanted EXCEPT !.compare = n])
  <2> DEFINE a == Put("TMAR", n)
             u == Do(tmr, a)
  <2>1. a \in DmAccess /\ a.reg # "TCLR" /\ Harmless(a)
    BY DEF Put, DmAccess, Harmless
  <2>2. u = [tmr EXCEPT !.TMAR = n]
    BY DEF Do, Put, Result
  <2>3. /\ u.TCRR = tmr.TCRR /\ u.TLDR = tmr.TLDR /\ u.TMAR = n
        /\ u.IRQENABLE = tmr.IRQENABLE /\ u.TSICR = tmr.TSICR
    BY <1>1, <2>2 DEF TmrRegs
  <2> HIDE DEF a, u
  <2>4. Sound(<<a>>, MeaningOf(u.TCRR, u.TLDR, u.TMAR, "ST" \in tmr.TCLR, tmr.TCLR \cap {"AR", "CE"},
                              Divisor(tmr.TCLR), tmr.TCLR \cap {"GPO"}, u.IRQENABLE, u.TSICR))
    BY <2>1, OtherOk DEF u
  <2>5. Sound(<<a>>, [wanted EXCEPT !.compare = n])
    BY <2>3, <2>4, IdleWanted, WantedExcept, Zenon
  <2> QED BY <2>5 DEF a, DMTimerCompareSet
<1> QED BY <1>2, <1>3, <1>4

LEMMA FlagsOk ==
    ASSUME Idle, NEW flags \in SUBSET IntFlags
    PROVE  /\ Sound(DMTimerIntEnable(flags), [wanted EXCEPT !.enabled = @ \cup flags])
           /\ Sound(DMTimerIntDisable(flags), [wanted EXCEPT !.enabled = @ \ flags])
           /\ Sound(DMTimerIntRawStatusSet(flags), wanted)
           /\ Sound(DMTimerIntStatusClear(flags), wanted)
<1>1. tmr \in TmrRegs /\ wanted.enabled = tmr.IRQENABLE /\ flags \cap IntFlags = flags
  BY IdleWanted, WantedExcept
<1>2. ASSUME NEW a \in DmAccess, a.reg = "IRQENABLE"
      PROVE  Sound(<<a>>, [wanted EXCEPT !.enabled = Result(a, tmr.IRQENABLE)])
  <2> DEFINE u == Do(tmr, a)
             e == Result(a, tmr.IRQENABLE)
  <2>1. a.reg # "TCLR" /\ Harmless(a)
    BY <1>2 DEF Harmless
  <2>2. u = [tmr EXCEPT !.IRQENABLE = e]
    BY <1>2 DEF Do
  <2> HIDE DEF e
  <2>3. /\ u.TCRR = tmr.TCRR /\ u.TLDR = tmr.TLDR /\ u.TMAR = tmr.TMAR
        /\ u.IRQENABLE = e /\ u.TSICR = tmr.TSICR
    BY <1>1, <2>2 DEF TmrRegs
  <2> HIDE DEF u
  <2>4. Sound(<<a>>, MeaningOf(u.TCRR, u.TLDR, u.TMAR, "ST" \in tmr.TCLR, tmr.TCLR \cap {"AR", "CE"},
                              Divisor(tmr.TCLR), tmr.TCLR \cap {"GPO"}, u.IRQENABLE, u.TSICR))
    BY <2>1, OtherOk DEF u
  <2>5. Sound(<<a>>, [wanted EXCEPT !.enabled = e])
    BY <2>3, <2>4, IdleWanted, WantedExcept, Zenon
  <2> QED BY <2>5 DEF e
<1>3. ASSUME NEW a \in DmAccess, a.reg = "RAW"
      PROVE  Sound(<<a>>, wanted)
  <2> DEFINE u == Do(tmr, a)
  <2>1. a.reg # "TCLR" /\ Harmless(a)
    BY <1>3 DEF Harmless
  <2>2. /\ u.TCRR = tmr.TCRR /\ u.TLDR = tmr.TLDR /\ u.TMAR = tmr.TMAR
        /\ u.IRQENABLE = tmr.IRQENABLE /\ u.TSICR = tmr.TSICR
    BY <1>1, <1>3 DEF TmrRegs, Do
  <2> HIDE DEF u
  <2>3. Sound(<<a>>, MeaningOf(u.TCRR, u.TLDR, u.TMAR, "ST" \in tmr.TCLR, tmr.TCLR \cap {"AR", "CE"},
                              Divisor(tmr.TCLR), tmr.TCLR \cap {"GPO"}, u.IRQENABLE, u.TSICR))
    BY <2>1, OtherOk DEF u
  <2> QED BY <2>2, <2>3, IdleWanted, Zenon
<1>4. /\ Set("IRQENABLE", flags) \in DmAccess /\ Clear("IRQENABLE", flags) \in DmAccess
      /\ Set("RAW", flags) \in DmAccess /\ Clear("RAW", flags) \in DmAccess
      /\ Set("IRQENABLE", flags).reg = "IRQENABLE" /\ Clear("IRQENABLE", flags).reg = "IRQENABLE"
      /\ Set("RAW", flags).reg = "RAW" /\ Clear("RAW", flags).reg = "RAW"
  BY DEF Set, Clear, DmAccess
<1>5. /\ Result(Set("IRQENABLE", flags), tmr.IRQENABLE) = wanted.enabled \cup flags
      /\ Result(Clear("IRQENABLE", flags), tmr.IRQENABLE) = wanted.enabled \ flags
  BY <1>1 DEF Set, Clear, Result
<1>6. /\ DMTimerIntEnable(flags) = <<Set("IRQENABLE", flags)>>
      /\ DMTimerIntDisable(flags) = <<Clear("IRQENABLE", flags)>>
      /\ DMTimerIntRawStatusSet(flags) = <<Set("RAW", flags)>>
      /\ DMTimerIntStatusClear(flags) = <<Clear("RAW", flags)>>
  BY <1>1 DEF DMTimerIntEnable, DMTimerIntDisable, DMTimerIntRawStatusSet, DMTimerIntStatusClear
<1>7. Sound(DMTimerIntEnable(flags), [wanted EXCEPT !.enabled = wanted.enabled \cup flags])
  BY <1>2, <1>4, <1>5, <1>6, Zenon
<1>8. Sound(DMTimerIntDisable(flags), [wanted EXCEPT !.enabled = wanted.enabled \ flags])
  BY <1>2, <1>4, <1>5, <1>6, Zenon
<1>9. Sound(DMTimerIntRawStatusSet(flags), wanted) /\ Sound(DMTimerIntStatusClear(flags), wanted)
  BY <1>3, <1>4, <1>6, Zenon
<1> QED BY <1>7, <1>8, <1>9

LEMMA ResetConfigureOk ==
    ASSUME Idle, NEW option \in SUBSET {"SFT"}
    PROVE  Sound(DMTimerResetConfigure(option), [wanted EXCEPT !.sft = option])
<1> DEFINE a == AndNot("TSICR", {"SFT"})
           b == Or("TSICR", option \cap {"SFT"})
           u == Do(Do(tmr, a), b)
<1>1. tmr \in TmrRegs /\ option \cap {"SFT"} = option
  BY IdleWanted
<1>2. a \in DmAccess /\ b \in DmAccess /\ ~ Starts(a) /\ Harmless(a) /\ Harmless(b)
  BY <1>1 DEF DmAccess, AndNot, Or, Starts, Harmless
<1>3. u = [tmr EXCEPT !.TSICR = option]
  <2> DEFINE v == Do(tmr, a)
  <2>1. v = [tmr EXCEPT !.TSICR = {}]
    BY <1>1 DEF Do, AndNot, Result, TmrRegs
  <2>2. v.TSICR = {}
    BY <1>1, <2>1 DEF TmrRegs
  <2>3. Do(v, b) = [v EXCEPT !.TSICR = v.TSICR \cup option]
    BY <1>1 DEF Do, Or, Result
  <2> HIDE DEF v
  <2>4. Do(v, b) = [tmr EXCEPT !.TSICR = option]
    BY <1>1, <2>1, <2>2, <2>3
  <2> QED BY <2>4 DEF v
<1>4. DMTimerResetConfigure(option) = <<a, b>>
  BY DEF DMTimerResetConfigure, Programmed
<1> HIDE DEF u
<1>5. /\ u.TCRR = tmr.TCRR /\ u.TLDR = tmr.TLDR /\ u.TMAR = tmr.TMAR
      /\ u.IRQENABLE = tmr.IRQENABLE /\ u.TSICR = option /\ u.TCLR = tmr.TCLR
  BY <1>1, <1>3 DEF TmrRegs
<1> HIDE DEF a, b
<1>6. After(tmr, <<a, b>>) = u /\ SoundJob(<<a, b>>) /\ Len(<<a, b>>) = 2 /\ Runnable(<<a, b>>)
  BY <1>2, TwoAccesses DEF u
<1>7. Meaning(u) = MeaningOf(u.TCRR, u.TLDR, u.TMAR, "ST" \in tmr.TCLR, tmr.TCLR \cap {"AR", "CE"},
                             Divisor(tmr.TCLR), tmr.TCLR \cap {"GPO"}, u.IRQENABLE, u.TSICR)
  BY <1>5, OtherMeaning
<1>8. Meaning(u) = [wanted EXCEPT !.sft = option]
  BY <1>5, <1>7, WantedExcept, Zenon
<1>9. Len(<<a, b>>) <= 5 /\ Len(<<a, b>>) <= 2
  BY <1>6
<1> QED BY <1>4, <1>6, <1>8, <1>9, Zenon DEF Sound

\* What a restored timer does is what the saved one did.
LEMMA RestoreOk ==
    ASSUME Idle, kept \in TmrRegs, tmr = AfterReset
    PROVE  Sound(DMTimerContextRestore, [Meaning(kept) EXCEPT !.sft = {}])
<1> DEFINE a == Put("TLDR", kept.TLDR)
           b == Put("TMAR", kept.TMAR)
           c == Set("IRQENABLE", kept.IRQENABLE)
           d == Put("TCRR", kept.TCRR)
           e == Put("TCLR", kept.TCLR)
           s == <<a, b, c, d, e>>
           u == [TCLR |-> kept.TCLR, TCRR |-> kept.TCRR, TLDR |-> kept.TLDR, TMAR |-> kept.TMAR,
                 RAW |-> {}, IRQENABLE |-> kept.IRQENABLE, TSICR |-> {}]
<1>1. a \in DmAccess /\ b \in DmAccess /\ c \in DmAccess /\ d \in DmAccess /\ e \in DmAccess
      /\ ~ Starts(a) /\ ~ Starts(b) /\ ~ Starts(c) /\ ~ Starts(d)
  BY DEF DmAccess, Put, Set, Starts, TmrRegs
<1>2. Do(Do(Do(Do(Do(tmr, a), b), c), d), e) = u
  <2> DEFINE regs(c0, l, m, i, r) == [TCLR |-> c0, TCRR |-> r, TLDR |-> l, TMAR |-> m,
                                      RAW |-> {}, IRQENABLE |-> i, TSICR |-> {}]
             t1 == regs({}, kept.TLDR, 0, {}, 0)
             t2 == regs({}, kept.TLDR, kept.TMAR, {}, 0)
             t3 == regs({}, kept.TLDR, kept.TMAR, kept.IRQENABLE, 0)
             t4 == regs({}, kept.TLDR, kept.TMAR, kept.IRQENABLE, kept.TCRR)
             t5 == regs(kept.TCLR, kept.TLDR, kept.TMAR, kept.IRQENABLE, kept.TCRR)
  <2>1. Do(tmr, a) = t1
    BY DEF Do, Put, Result, AfterReset
  <2>2. Do(t1, b) = t2
    BY DEF Do, Put, Result
  <2>3. Do(t2, c) = t3
    BY DEF Do, Set, Result, AfterReset
  <2>4. Do(t3, d) = t4
    BY DEF Do, Put, Result
  <2>5. Do(t4, e) = t5
    BY DEF Do, Put, Result
  <2>6. t5 = u
    OBVIOUS
  <2> HIDE DEF t1, t2, t3, t4, t5, u, a, b, c, d, e
  <2> QED BY <2>1, <2>2, <2>3, <2>4, <2>5, <2>6, Zenon
<1>3. DMTimerContextRestore = s
  BY DEF DMTimerContextRestore
<1>4. /\ u.TCLR = kept.TCLR /\ u.TCRR = kept.TCRR /\ u.TLDR = kept.TLDR /\ u.TMAR = kept.TMAR
      /\ u.IRQENABLE = kept.IRQENABLE /\ u.TSICR = {}
  BY DEF TmrRegs
<1> HIDE DEF u
<1>5. Stopped
  BY DEF Stopped, AfterReset
<1> HIDE DEF a, b, c, d, e
<1>6. Len(s) = 5 /\ s[1] = a /\ s[2] = b /\ s[3] = c /\ s[4] = d /\ s[5] = e
      /\ s \in Seq(DmAccess)
  BY <1>1
<1>7. SoundJob(s) /\ Len(s) <= 5
  <2>1. ASSUME NEW i \in 1 .. Len(s) - 1 PROVE ~ Starts(s[i])
    <3>1. i = 1 \/ i = 2 \/ i = 3 \/ i = 4
      BY <1>6
    <3> QED BY <1>1, <1>6, <3>1
  <2> QED BY <1>6, <2>1 DEF SoundJob
<1> HIDE DEF s
<1>8. After(tmr, s) = u
  BY <1>2, <1>6, AfterAt
<1>9. Meaning(u) = [Meaning(kept) EXCEPT !.sft = {}]
  <2> DEFINE q == kept.TCRR
             l == kept.TLDR
             m == kept.TMAR
             r == "ST" \in kept.TCLR
             o == kept.TCLR \cap {"AR", "CE"}
             v == Divisor(kept.TCLR)
             g == kept.TCLR \cap {"GPO"}
             f == kept.IRQENABLE
             x == kept.TSICR
  <2>1. Meaning(kept) = MeaningOf(q, l, m, r, o, v, g, f, x)
    BY MeaningIs
  <2>2. Meaning(u) = MeaningOf(q, l, m, r, o, v, g, f, {})
    BY <1>4, MeaningIs, Zenon
  <2> HIDE DEF q, l, m, r, o, v, g, f, x
  <2>3. [MeaningOf(q, l, m, r, o, v, g, f, x) EXCEPT !.sft = {}] = MeaningOf(q, l, m, r, o, v, g, f, {})
    BY DEF MeaningOf
  <2> QED BY <2>1, <2>2, <2>3
<1> QED BY <1>3, <1>5, <1>7, <1>8, <1>9, Zenon DEF Sound

LEMMA ConfigureOk ==
    ASSUME DMTimerAssumption, TmrInv, ConfigureCall
    PROVE  \E s, m : DmCall(s, m) /\ Sound(s, m)
<1>1. use = "any" /\ job = << >> /\ Stopped
  BY DEF ConfigureCall, DmCall
<1>2. Idle
  BY <1>1, IdleHere
<1>3. CASE DmCall(DMTimerEnable, [wanted EXCEPT !.running = TRUE])
  BY <1>1, <1>2, <1>3, EnableOk, Zenon
<1>4. CASE \E mode \in SUBSET {"AR", "CE"} :
              DmCall(DMTimerModeConfigure(mode), [wanted EXCEPT !.mode = mode])
  BY <1>1, <1>2, <1>4, ModeOk, Zenon
<1>5. CASE \E ptv \in {{"PRE"}, {"PTV0", "PRE"}} :
              DmCall(DMTimerPreScalerClkEnable(ptv), [wanted EXCEPT !.divisor = Divisor(ptv)])
  BY <1>1, <1>2, <1>5, PreScalerOk, Zenon
<1>6. CASE DmCall(DMTimerPreScalerClkDisable, [wanted EXCEPT !.divisor = 1])
  BY <1>1, <1>2, <1>6, PreScalerOffOk, Zenon
<1>7. CASE \E gpo \in SUBSET {"GPO"} :
              DmCall(DMTimerGPOConfigure(gpo), [wanted EXCEPT !.gpo = gpo])
  BY <1>1, <1>2, <1>7, GpoOk, Zenon
<1>8. CASE \E n \in Counts : DmCall(DMTimerCounterSet(n), [wanted EXCEPT !.count = n])
  <2>1. Counts \subseteq Values
    BY DEF Counts, Values, DMTimerAssumption
  <2> QED BY <1>1, <1>2, <1>8, <2>1, PutOk, Zenon DEF DMTimerCounterSet
<1>9. CASE DmCall(<<Put("TCRR", tmr.TLDR)>>, [wanted EXCEPT !.count = tmr.TLDR])
  <2>1. tmr.TLDR \in Values
    BY <1>2, IdleWanted DEF TmrRegs
  <2> QED BY <1>1, <1>2, <1>9, <2>1, PutOk, Zenon
<1> QED BY <1>3, <1>4, <1>5, <1>6, <1>7, <1>8, <1>9 DEF ConfigureCall

LEMMA AnyTimeOk ==
    ASSUME DMTimerAssumption, TmrInv, AnyTimeCall
    PROVE  \E s, m : DmCall(s, m) /\ Sound(s, m)
<1>1. use = "any" /\ job = << >>
  BY DEF AnyTimeCall, DmCall
<1>2. Idle
  BY <1>1, IdleHere
<1>3. CASE DmCall(DMTimerDisable, [wanted EXCEPT !.running = FALSE])
  BY <1>2, <1>3, DisableOk, Zenon
<1>4. ASSUME NEW n \in Counts,
             \/ DmCall(DMTimerReloadSet(n), [wanted EXCEPT !.reload = n])
             \/ DmCall(DMTimerCompareSet(n), [wanted EXCEPT !.compare = n])
      PROVE  \E s, m : DmCall(s, m) /\ Sound(s, m)
  <2>1. n \in Values
    BY DEF Counts, Values, DMTimerAssumption
  <2> QED BY <1>2, <1>4, <2>1, PutOk, Zenon
<1>5. ASSUME NEW flags \in FlagSets,
             \/ DmCall(DMTimerIntEnable(flags), [wanted EXCEPT !.enabled = @ \cup flags])
             \/ DmCall(DMTimerIntDisable(flags), [wanted EXCEPT !.enabled = @ \ flags])
             \/ DmCall(DMTimerIntRawStatusSet(flags), wanted)
             \/ DmCall(DMTimerIntStatusClear(flags), wanted)
      PROVE  \E s, m : DmCall(s, m) /\ Sound(s, m)
  <2>1. flags \in SUBSET IntFlags
    BY DEF FlagSets, IntFlags
  <2> QED BY <1>2, <1>5, <2>1, FlagsOk, Zenon
<1>6. CASE \E option \in SUBSET {"SFT"} :
             DmCall(DMTimerResetConfigure(option), [wanted EXCEPT !.sft = option])
  BY <1>2, <1>6, ResetConfigureOk, Zenon
<1> QED BY <1>3, <1>4, <1>5, <1>6, Zenon DEF AnyTimeCall

-----------------------------------------------------------------------------
(* The timer: the steps *)

LEMMA CallStep ==
    ASSUME TmrInv, NEW s, NEW m, DmCall(s, m), Sound(s, m)
    PROVE  TmrInv'
<1>1. /\ use = "any" /\ job = << >> /\ job' = s /\ wanted' = m
      /\ tmr' = tmr /\ phase' = phase /\ use' = use /\ held' = held /\ kept' = kept /\ clocks' = clocks
  BY DEF DmCall
<1>2. held = << >>
  BY <1>1 DEF TmrInv, JobInv, HeldSound
<1>3. JobInv'
  <2>1. TmrTypes' /\ HeldSound'
    BY <1>1, <1>2 DEF TmrInv, JobInv, TmrTypes, HeldSound
  <2>2. SoundJob(job') /\ (~ Stopped' => Runnable(job'))
    BY <1>1, Zenon DEF Sound, Stopped
  <2> QED BY <2>1, <2>2 DEF JobInv
<1>4. AnyInv'
  <2>1. Len(job') <= 5 /\ (~ Stopped' => Len(job') <= 2) /\ wanted' = Meaning(After(tmr', job'))
    BY <1>1, Zenon DEF Sound, Stopped
  <2> QED BY <2>1 DEF AnyInv
<1>5. ClockInv' /\ DebugInv'
  BY <1>1 DEF ClockInv, DebugInv
<1> QED BY <1>3, <1>4, <1>5 DEF TmrInv

LEMMA SaveStep == ASSUME TmrInv, DMTimerContextSave PROVE TmrInv'
<1>1. /\ use = "any" /\ kept' = tmr
      /\ tmr' = tmr /\ phase' = phase /\ use' = use /\ held' = held /\ job' = job
      /\ clocks' = clocks /\ wanted' = wanted
  BY DEF DMTimerContextSave
<1>2. JobInv'
  BY <1>1 DEF TmrInv, JobInv, TmrTypes, HeldSound, Stopped
<1>3. AnyInv'
  BY <1>1, Zenon DEF TmrInv, AnyInv, Stopped
<1>4. ClockInv' /\ DebugInv'
  BY <1>1 DEF ClockInv, DebugInv
<1> QED BY <1>2, <1>3, <1>4 DEF TmrInv

LEMMA ResetStep == ASSUME DMTimerAssumption, TmrInv, DMTimerReset PROVE TmrInv'
<1>1. /\ use = "any" /\ job = << >> /\ job' = job /\ tmr' = AfterReset /\ phase' = 0
      /\ wanted' = Meaning(AfterReset)
      /\ use' = use /\ held' = held /\ kept' = kept /\ clocks' = clocks
  BY DEF DMTimerReset
<1>2. held = << >> /\ AfterReset \in TmrRegs
  BY <1>1 DEF TmrInv, JobInv, HeldSound, AfterReset, TmrRegs, Values, DMTimerAssumption
<1>3. "ST" \notin AfterReset.TCLR
  BY DEF AfterReset
<1>4. JobInv'
  BY <1>1, <1>2, <1>3 DEF TmrInv, JobInv, TmrTypes, HeldSound, Stopped
<1>5. AnyInv'
  <2>1. After(tmr', job') = AfterReset
    BY <1>1 DEF After
  <2>2. Len(job') <= 5 /\ ~ ~ Stopped'
    BY <1>1, <1>3 DEF Stopped
  <2> QED BY <1>1, <2>1, <2>2, Zenon DEF AnyInv
<1>6. ClockInv' /\ DebugInv'
  BY <1>1 DEF ClockInv, DebugInv
<1> QED BY <1>4, <1>5, <1>6 DEF TmrInv

LEMMA LoadStep == ASSUME TmrInv, DmLoad PROVE TmrInv'
<1>1. /\ job # << >> /\ ~ Head(job).atomic /\ held' = <<tmr[Head(job).reg]>>
      /\ tmr' = tmr /\ phase' = phase /\ use' = use /\ job' = job /\ kept' = kept
      /\ wanted' = wanted /\ clocks' = clocks
  BY DEF DmLoad
<1>2. HeldSound'
  BY <1>1 DEF HeldSound
<1>3. JobInv'
  BY <1>1, <1>2 DEF TmrInv, JobInv, TmrTypes, Stopped
<1>4. AnyInv'
  BY <1>1, Zenon DEF TmrInv, AnyInv, Stopped
<1>5. \A k \in 0 .. 7 : /\ ClockStarting(k)' <=> ClockStarting(k)
                        /\ DebugStarting(k)' <=> DebugStarting(k)
  BY <1>1 DEF ClockStarting, DebugStarting, Rest, Stopped
<1>6. (ClockRunning' <=> ClockRunning) /\ (DebugRunning' <=> DebugRunning)
  BY <1>1 DEF ClockRunning, DebugRunning
<1>7. ClockInv' /\ DebugInv'
  BY <1>1, <1>5, <1>6, Zenon DEF TmrInv, ClockInv, DebugInv
<1> QED BY <1>3, <1>4, <1>7 DEF TmrInv

\* The store of a call's next access
LEMMA WriteAny ==
    ASSUME TmrInv, NEW old, DmWrite(old), job # << >>, Result(Head(job), old) = Result(Head(job), tmr[Head(job).reg])
    PROVE  /\ JobInv' /\ AnyInv'
           /\ tmr' = Do(tmr, Head(job)) /\ job' = Tail(job) /\ Head(job) = job[1] /\ job[1] \in DmAccess
           /\ Len(job) \in Nat \ {0} /\ Len(Tail(job)) = Len(job) - 1
           /\ \A i \in 1 .. Len(Tail(job)) : Tail(job)[i] = job[i + 1]
<1>1. /\ tmr' = Do(tmr, Head(job)) /\ held' = << >> /\ job' = Tail(job)
      /\ phase' = (IF Head(job).reg = "TCRR" THEN 0 ELSE phase)
      /\ clocks' = (IF "ST" \in tmr'.TCLR /\ Stopped THEN 0 ELSE clocks)
      /\ use' = use /\ kept' = kept /\ wanted' = wanted
  BY DEF DmWrite, Do
<1>2. /\ job \in Seq(DmAccess) /\ tmr \in TmrRegs /\ TmrTypes /\ SoundJob(job) /\ (~ Stopped => Runnable(job))
  BY DEF TmrInv, JobInv, TmrTypes, SoundJob
<1>3. /\ Tail(job) \in Seq(DmAccess) /\ Len(Tail(job)) = Len(job) - 1
      /\ \A i \in 1 .. Len(Tail(job)) : Tail(job)[i] = job[i + 1]
      /\ Head(job) = job[1] /\ job[1] \in DmAccess /\ Len(job) \in Nat \ {0}
      /\ Len(job) <= 5 => After(tmr, job) = After(Do(tmr, Head(job)), Tail(job))
  BY <1>2, AfterFirst
<1>4. tmr' \in TmrRegs /\ ("ST" \in tmr'.TCLR => "ST" \in tmr.TCLR \/ Starts(job[1]))
  BY <1>1, <1>2, <1>3, DoTypes
<1>5. TmrTypes' /\ HeldSound'
  BY <1>1, <1>2, <1>4 DEF TmrTypes, HeldSound
<1>6. SoundJob(job')
  <2>1. ASSUME NEW i \in 1 .. Len(Tail(job)) - 1 PROVE ~ Starts(Tail(job)[i])
    <3>1. i \in 1 .. Len(Tail(job)) /\ i + 1 \in 1 .. Len(job) - 1
      BY <1>3
    <3> QED BY <1>2, <1>3, <3>1 DEF SoundJob
  <2> QED BY <1>1, <1>3, <2>1 DEF SoundJob
<1>7. ~ Stopped' => ~ Stopped \/ Len(job) = 1
  <2>1. Len(job) # 1 => ~ Starts(job[1])
    <3>1. Len(job) # 1 => 1 \in 1 .. Len(job) - 1
      BY <1>3
    <3>2. \A i \in 1 .. Len(job) - 1 : ~ Starts(job[i])
      BY <1>2 DEF SoundJob
    <3> QED BY <3>1, <3>2, Zenon
  <2> QED BY <1>4, <2>1 DEF Stopped
<1>8. ~ Stopped' => Runnable(job')
  <2>1. CASE ~ Stopped
    <3>1. \A i \in 1 .. Len(Tail(job)) : i + 1 \in 1 .. Len(job)
      BY <1>3
    <3> QED BY <1>1, <1>2, <1>3, <2>1, <3>1 DEF Runnable
  <2>2. CASE Len(job) = 1
    <3> DEFINE n == Len(Tail(job))
    <3>1. n = 0
      BY <1>3, <2>2
    <3> HIDE DEF n
    <3>2. 1 .. n = {}
      BY <3>1
    <3> QED BY <1>1, <3>2, Zenon DEF Runnable, n
  <2> QED BY <1>7, <2>1, <2>2
<1>9. JobInv'
  BY <1>1, <1>5, <1>6, <1>8 DEF JobInv
<1>10. AnyInv'
  <2>1. SUFFICES ASSUME use = "any"
                 PROVE  /\ Len(job') <= 5 /\ (~ Stopped' => Len(job') <= 2)
                        /\ wanted' = Meaning(After(tmr', job'))
    BY <1>1, Zenon DEF AnyInv
  <2>2. /\ Len(job) <= 5 /\ (~ Stopped => Len(job) <= 2)
        /\ wanted = Meaning(After(tmr, job))
    BY <2>1 DEF TmrInv, AnyInv
  <2>3. wanted' = Meaning(After(tmr', job'))
    BY <1>1, <1>3, <2>2, Zenon
  <2>4. Len(job') <= 5 /\ (~ Stopped' => Len(job') <= 2)
    BY <1>1, <1>3, <1>7, <2>2
  <2> QED BY <2>3, <2>4
<1> QED BY <1>1, <1>3, <1>9, <1>10

\* The names of the accesses that set the clock's and the debug timer up
LEMMA StartAccesses ==
    /\ Len(StartClock) = 8
    /\ StartClock[1] = AndNot("TCLR", {"ST"}) /\ StartClock[2] = AndNot("TCLR", {"PRE"})
    /\ StartClock[3] = Put("TCRR", reloadValue) /\ StartClock[4] = Put("TLDR", reloadValue)
    /\ StartClock[5] = AndNot("TCLR", {"AR", "CE"}) /\ StartClock[6] = Or("TCLR", {"AR"})
    /\ StartClock[7] = Set("IRQENABLE", {"OVF"}) /\ StartClock[8] = Or("TCLR", {"ST"})
    /\ Len(dbg_tmr_reset) = 8
    /\ dbg_tmr_reset[1] = AndNot("TCLR", {"ST"})
    /\ dbg_tmr_reset[2] = Put("TCRR", 0) /\ dbg_tmr_reset[3] = Put("TLDR", 0)
    /\ dbg_tmr_reset[4] = AndNot("TCLR", {"AR", "CE"}) /\ dbg_tmr_reset[5] = Or("TCLR", {"AR"})
    /\ dbg_tmr_reset[6] = AndNot("TCLR", PTV) /\ dbg_tmr_reset[7] = Or("TCLR", DivBy8)
    /\ dbg_tmr_reset[8] = Or("TCLR", {"ST"})
<1>1. {"AR"} \cap {"AR", "CE"} = {"AR"} /\ {"OVF"} \cap IntFlags = {"OVF"} /\ DivBy8 \cap (PTV \cup {"PRE"}) = DivBy8
  BY DEF IntFlags, DivBy8, PTV
<1>2. /\ DMTimerModeConfigure({"AR"}) = <<AndNot("TCLR", {"AR", "CE"}), Or("TCLR", {"AR"})>>
      /\ DMTimerIntEnable({"OVF"}) = <<Set("IRQENABLE", {"OVF"})>>
      /\ DMTimerPreScalerClkEnable(DivBy8) = <<AndNot("TCLR", PTV), Or("TCLR", DivBy8)>>
  BY <1>1, Zenon DEF DMTimerModeConfigure, Programmed, DMTimerIntEnable, DMTimerPreScalerClkEnable
<1>3. StartClock = <<AndNot("TCLR", {"ST"})>> \o <<AndNot("TCLR", {"PRE"})>>
                    \o <<Put("TCRR", reloadValue)>> \o <<Put("TLDR", reloadValue)>>
                    \o <<AndNot("TCLR", {"AR", "CE"}), Or("TCLR", {"AR"})>>
                    \o <<Set("IRQENABLE", {"OVF"})>> \o <<Or("TCLR", {"ST"})>>
  BY <1>2, Zenon DEF StartClock, DMTimerDisable, DMTimerPreScalerClkDisable, DMTimerCounterSet,
                     DMTimerReloadSet, DMTimerEnable
<1>4. dbg_tmr_reset = <<AndNot("TCLR", {"ST"})>> \o <<Put("TCRR", 0)>> \o <<Put("TLDR", 0)>>
                      \o <<AndNot("TCLR", {"AR", "CE"}), Or("TCLR", {"AR"})>>
                      \o <<AndNot("TCLR", PTV), Or("TCLR", DivBy8)>> \o <<Or("TCLR", {"ST"})>>
  BY <1>2, Zenon DEF dbg_tmr_reset, DMTimerDisable, DMTimerCounterSet, DMTimerReloadSet, DMTimerEnable
<1>5. LET s == <<AndNot("TCLR", {"ST"})>> \o <<AndNot("TCLR", {"PRE"})>>
               \o <<Put("TCRR", reloadValue)>> \o <<Put("TLDR", reloadValue)>>
               \o <<AndNot("TCLR", {"AR", "CE"}), Or("TCLR", {"AR"})>>
               \o <<Set("IRQENABLE", {"OVF"})>> \o <<Or("TCLR", {"ST"})>>
      IN /\ Len(s) = 8
         /\ s[1] = AndNot("TCLR", {"ST"}) /\ s[2] = AndNot("TCLR", {"PRE"})
         /\ s[3] = Put("TCRR", reloadValue) /\ s[4] = Put("TLDR", reloadValue)
         /\ s[5] = AndNot("TCLR", {"AR", "CE"}) /\ s[6] = Or("TCLR", {"AR"})
         /\ s[7] = Set("IRQENABLE", {"OVF"}) /\ s[8] = Or("TCLR", {"ST"})
  OBVIOUS
<1>6. LET s == <<AndNot("TCLR", {"ST"})>> \o <<Put("TCRR", 0)>> \o <<Put("TLDR", 0)>>
               \o <<AndNot("TCLR", {"AR", "CE"}), Or("TCLR", {"AR"})>>
               \o <<AndNot("TCLR", PTV), Or("TCLR", DivBy8)>> \o <<Or("TCLR", {"ST"})>>
      IN /\ Len(s) = 8
         /\ s[1] = AndNot("TCLR", {"ST"}) /\ s[2] = Put("TCRR", 0) /\ s[3] = Put("TLDR", 0)
         /\ s[4] = AndNot("TCLR", {"AR", "CE"}) /\ s[5] = Or("TCLR", {"AR"})
         /\ s[6] = AndNot("TCLR", PTV) /\ s[7] = Or("TCLR", DivBy8)
         /\ s[8] = Or("TCLR", {"ST"})
  OBVIOUS
<1>7. /\ Len(StartClock) = 8
      /\ StartClock[1] = AndNot("TCLR", {"ST"}) /\ StartClock[2] = AndNot("TCLR", {"PRE"})
      /\ StartClock[3] = Put("TCRR", reloadValue) /\ StartClock[4] = Put("TLDR", reloadValue)
      /\ StartClock[5] = AndNot("TCLR", {"AR", "CE"}) /\ StartClock[6] = Or("TCLR", {"AR"})
      /\ StartClock[7] = Set("IRQENABLE", {"OVF"}) /\ StartClock[8] = Or("TCLR", {"ST"})
  BY <1>3, <1>5, Zenon
<1>8. /\ Len(dbg_tmr_reset) = 8
      /\ dbg_tmr_reset[1] = AndNot("TCLR", {"ST"})
      /\ dbg_tmr_reset[2] = Put("TCRR", 0) /\ dbg_tmr_reset[3] = Put("TLDR", 0)
      /\ dbg_tmr_reset[4] = AndNot("TCLR", {"AR", "CE"}) /\ dbg_tmr_reset[5] = Or("TCLR", {"AR"})
      /\ dbg_tmr_reset[6] = AndNot("TCLR", PTV) /\ dbg_tmr_reset[7] = Or("TCLR", DivBy8)
      /\ dbg_tmr_reset[8] = Or("TCLR", {"ST"})
  BY <1>4, <1>6, Zenon
<1> QED BY <1>7, <1>8, Zenon

\* What an access does, by its kind
LEMMA DoIs ==
    ASSUME NEW t \in TmrRegs, NEW b, NEW r
    PROVE  /\ Do(t, AndNot("TCLR", b)) = [t EXCEPT !.TCLR = t.TCLR \ b]
           /\ Do(t, Or("TCLR", b)) = [t EXCEPT !.TCLR = t.TCLR \cup b]
           /\ Do(t, Put("TCRR", b)) = [t EXCEPT !.TCRR = b]
           /\ Do(t, Put("TLDR", b)) = [t EXCEPT !.TLDR = b]
           /\ Do(t, Set("IRQENABLE", b)) = [t EXCEPT !.IRQENABLE = t.IRQENABLE \cup b]
BY DEF Do, AndNot, Or, Put, Set, Result

LEMMA ReloadIn == ASSUME DMTimerAssumption PROVE reloadValue \in Values /\ reloadValue = TimerModulus - ClocksPerMs
                     /\ CLOCK_OVF = TimerModulus - 1 /\ ClocksPerMs \in Nat /\ ClocksPerMs >= 2
                     /\ TimerModulus \in Nat /\ ClocksPerMs <= TimerModulus
BY DEF DMTimerAssumption, reloadValue, Values, CLOCK_OVF, CLOCK_1ms

LEMMA WriteClock ==
    ASSUME DMTimerAssumption, TmrInv, NEW old, DmWrite(old), job # << >>,
           Result(Head(job), old) = Result(Head(job), tmr[Head(job).reg]), use = "clock"
    PROVE  ClockRunning' \/ \E k \in 0 .. 7 : ClockStarting(k)'
<1>1. /\ tmr' = Do(tmr, job[1]) /\ job' = Tail(job) /\ job[1] \in DmAccess
      /\ Len(job) \in Nat \ {0} /\ Len(Tail(job)) = Len(job) - 1
      /\ \A i \in 1 .. Len(Tail(job)) : Tail(job)[i] = job[i + 1]
      /\ phase' = (IF job[1].reg = "TCRR" THEN 0 ELSE phase)
      /\ clocks' = (IF "ST" \in tmr'.TCLR /\ Stopped THEN 0 ELSE clocks)
  BY WriteAny DEF DmWrite
<1>2. tmr \in TmrRegs /\ (Stopped <=> "ST" \notin tmr.TCLR) /\ (Stopped' <=> "ST" \notin tmr'.TCLR)
  BY DEF TmrInv, JobInv, TmrTypes, Stopped
<1>3. CASE ClockRunning
  <2>1. job[1].reg \in {"RAW", "IRQENABLE"}
    <3>1. 1 \in 1 .. Len(job)
      BY <1>1
    <3> QED BY <1>3, <3>1 DEF ClockRunning
  <2>2. tmr'.TCLR = tmr.TCLR /\ tmr'.TLDR = tmr.TLDR /\ tmr'.TCRR = tmr.TCRR
    BY <1>1, <1>2, <2>1 DEF Do, TmrRegs
  <2>3. phase' = phase /\ clocks' = clocks
    BY <1>1, <1>2, <1>3, <2>1, <2>2 DEF ClockRunning
  <2>4. \A i \in 1 .. Len(Tail(job)) : Tail(job)[i].reg \in {"RAW", "IRQENABLE"}
    <3>1. \A i \in 1 .. Len(Tail(job)) : i + 1 \in 1 .. Len(job)
      BY <1>1
    <3> QED BY <1>1, <1>3, <3>1 DEF ClockRunning
  <2> QED BY <1>1, <1>3, <2>2, <2>3, <2>4 DEF ClockRunning, reloadValue, CLOCK_OVF, CLOCK_1ms
<1>4. ASSUME NEW k \in 0 .. 7, ClockStarting(k)
      PROVE  ClockRunning' \/ \E m \in 0 .. 7 : ClockStarting(m)'
  <2>1. /\ Len(job) = 8 - k /\ job[1] = StartClock[k + 1] /\ Stopped /\ phase' = 0
        /\ \A i \in 1 .. Len(job) : job[i] = StartClock[k + i]
    <3>1. Len(job) = 8 - k /\ \A i \in 1 .. Len(job) : job[i] = StartClock[k + i]
      BY <1>4, StartAccesses DEF ClockStarting, Rest
    <3>2. 1 \in 1 .. Len(job)
      BY <1>1
    <3> QED BY <1>1, <1>4, <3>1, <3>2 DEF ClockStarting
  <2>2. Len(Tail(job)) = 8 - (k + 1) /\ \A i \in 1 .. Len(Tail(job)) : Tail(job)[i] = StartClock[(k + 1) + i]
    <3>1. Len(Tail(job)) = 8 - (k + 1)
      BY <1>1, <2>1
    <3>2. ASSUME NEW i \in 1 .. Len(Tail(job)) PROVE Tail(job)[i] = StartClock[(k + 1) + i]
      <4>1. i + 1 \in 1 .. Len(job) /\ k + (i + 1) = (k + 1) + i
        BY <1>1
      <4>2. Tail(job)[i] = job[i + 1]
        BY <1>1
      <4> QED BY <2>1, <4>1, <4>2, Zenon
    <3> QED BY <3>1, <3>2
  <2>3. Rest(StartClock, k + 1)'
    BY <1>1, <2>2, StartAccesses DEF Rest
  <2>4. k = 0 \/ k = 1 \/ k = 2 \/ k = 3 \/ k = 4 \/ k = 5 \/ k = 6 \/ k = 7
    OBVIOUS
  <2>5. /\ k >= 2 => "PRE" \notin tmr.TCLR
        /\ k >= 3 => tmr.TCRR = reloadValue
        /\ k >= 4 => tmr.TLDR = reloadValue
        /\ k >= 6 => "AR" \in tmr.TCLR
    BY <1>4 DEF ClockStarting
  <2>6. ASSUME k + 1 \in 0 .. 7, "ST" \notin tmr'.TCLR,
               k + 1 >= 2 => "PRE" \notin tmr'.TCLR,
               k + 1 >= 3 => tmr'.TCRR = reloadValue',
               k + 1 >= 4 => tmr'.TLDR = reloadValue',
               k + 1 >= 6 => "AR" \in tmr'.TCLR
        PROVE  \E m \in 0 .. 7 : ClockStarting(m)'
    <3>1. ClockStarting(k + 1)'
      BY <1>2, <2>1, <2>3, <2>6 DEF ClockStarting
    <3> QED BY <2>6, <3>1
  <2>7. reloadValue' = reloadValue
    BY DEF reloadValue, CLOCK_OVF, CLOCK_1ms
  <2>8. CASE k = 0
    <3>1. tmr' = [tmr EXCEPT !.TCLR = tmr.TCLR \ {"ST"}]
      BY <1>1, <1>2, <2>1, <2>8, StartAccesses, DoIs
    <3> QED BY <1>2, <2>6, <2>8, <3>1 DEF TmrRegs
  <2>9. CASE k = 1
    <3>1. tmr' = [tmr EXCEPT !.TCLR = tmr.TCLR \ {"PRE"}]
      BY <1>1, <1>2, <2>1, <2>9, StartAccesses, DoIs
    <3> QED BY <1>2, <2>1, <2>6, <2>9, <3>1 DEF TmrRegs
  <2>10. CASE k = 2
    <3>1. tmr' = [tmr EXCEPT !.TCRR = reloadValue]
      BY <1>1, <1>2, <2>1, <2>10, StartAccesses, DoIs
    <3> QED BY <1>2, <2>1, <2>5, <2>6, <2>7, <2>10, <3>1 DEF TmrRegs
  <2>11. CASE k = 3
    <3>1. tmr' = [tmr EXCEPT !.TLDR = reloadValue]
      BY <1>1, <1>2, <2>1, <2>11, StartAccesses, DoIs
    <3> QED BY <1>2, <2>1, <2>5, <2>6, <2>7, <2>11, <3>1 DEF TmrRegs
  <2>12. CASE k = 4
    <3>1. tmr' = [tmr EXCEPT !.TCLR = tmr.TCLR \ {"AR", "CE"}]
      BY <1>1, <1>2, <2>1, <2>12, StartAccesses, DoIs
    <3> QED BY <1>2, <2>1, <2>5, <2>6, <2>7, <2>12, <3>1 DEF TmrRegs
  <2>13. CASE k = 5
    <3>1. tmr' = [tmr EXCEPT !.TCLR = tmr.TCLR \cup {"AR"}]
      BY <1>1, <1>2, <2>1, <2>13, StartAccesses, DoIs
    <3> QED BY <1>2, <2>1, <2>5, <2>6, <2>7, <2>13, <3>1 DEF TmrRegs
  <2>14. CASE k = 6
    <3>1. tmr' = [tmr EXCEPT !.IRQENABLE = tmr.IRQENABLE \cup {"OVF"}]
      BY <1>1, <1>2, <2>1, <2>14, StartAccesses, DoIs
    <3> QED BY <1>2, <2>1, <2>5, <2>6, <2>7, <2>14, <3>1 DEF TmrRegs
  <2>15. CASE k = 7
    <3>1. tmr' = [tmr EXCEPT !.TCLR = tmr.TCLR \cup {"ST"}]
      BY <1>1, <1>2, <2>1, <2>15, StartAccesses, DoIs
    <3>2. /\ "ST" \in tmr'.TCLR /\ "AR" \in tmr'.TCLR /\ "PRE" \notin tmr'.TCLR
          /\ tmr'.TLDR = reloadValue /\ tmr'.TCRR = reloadValue
      BY <1>2, <2>5, <2>15, <3>1 DEF TmrRegs
    <3>3. clocks' = 0 /\ clocks' \in 0 .. ClocksPerMs - 1 /\ tmr'.TCRR = reloadValue' + clocks'
      BY <1>1, <2>1, <2>7, <3>2, ReloadIn DEF Values
    <3>4. \A i \in 1 .. Len(job') : job'[i].reg \in {"RAW", "IRQENABLE"}
      <4> DEFINE n == Len(job')
      <4>1. n = 0
        <5>1. Len(Tail(job)) = 0
          BY <2>2, <2>15
        <5> QED BY <1>1, <5>1, Zenon
      <4> HIDE DEF n
      <4>2. 1 .. n = {}
        BY <4>1
      <4> QED BY <4>2 DEF n
    <3> QED BY <2>1, <2>7, <3>2, <3>3, <3>4 DEF ClockRunning
  <2> QED BY <2>4, <2>8, <2>9, <2>10, <2>11, <2>12, <2>13, <2>14, <2>15
<1>5. ClockRunning \/ \E k \in 0 .. 7 : ClockStarting(k)
  BY DEF TmrInv, ClockInv
<1> QED BY <1>3, <1>4, <1>5, Zenon

LEMMA WriteDebug ==
    ASSUME DMTimerAssumption, TmrInv, NEW old, DmWrite(old), job # << >>,
           Result(Head(job), old) = Result(Head(job), tmr[Head(job).reg]), use = "debug"
    PROVE  DebugRunning' \/ \E k \in 0 .. 7 : DebugStarting(k)'
<1>1. /\ tmr' = Do(tmr, job[1]) /\ job' = Tail(job) /\ job[1] \in DmAccess
      /\ Len(job) \in Nat \ {0} /\ Len(Tail(job)) = Len(job) - 1
      /\ \A i \in 1 .. Len(Tail(job)) : Tail(job)[i] = job[i + 1]
      /\ phase' = (IF job[1].reg = "TCRR" THEN 0 ELSE phase)
      /\ clocks' = (IF "ST" \in tmr'.TCLR /\ Stopped THEN 0 ELSE clocks)
  BY WriteAny DEF DmWrite
<1>2. tmr \in TmrRegs /\ (Stopped <=> "ST" \notin tmr.TCLR) /\ (Stopped' <=> "ST" \notin tmr'.TCLR)
  BY DEF TmrInv, JobInv, TmrTypes, Stopped
<1>3. PICK k \in 0 .. 7 : DebugStarting(k)
  BY DEF TmrInv, DebugInv, DebugRunning
<1>4. /\ Len(job) = 8 - k /\ job[1] = dbg_tmr_reset[k + 1] /\ Stopped /\ phase' = 0
      /\ \A i \in 1 .. Len(job) : job[i] = dbg_tmr_reset[k + i]
  <2>1. Len(job) = 8 - k /\ \A i \in 1 .. Len(job) : job[i] = dbg_tmr_reset[k + i]
    BY <1>3, StartAccesses DEF DebugStarting, Rest
  <2>2. 1 \in 1 .. Len(job)
    BY <1>1
  <2> QED BY <1>1, <1>3, <2>1, <2>2 DEF DebugStarting
<1>5. Len(Tail(job)) = 8 - (k + 1) /\ \A i \in 1 .. Len(Tail(job)) : Tail(job)[i] = dbg_tmr_reset[(k + 1) + i]
  <2>1. Len(Tail(job)) = 8 - (k + 1)
    BY <1>1, <1>4
  <2>2. ASSUME NEW i \in 1 .. Len(Tail(job)) PROVE Tail(job)[i] = dbg_tmr_reset[(k + 1) + i]
    <3>1. i + 1 \in 1 .. Len(job) /\ k + (i + 1) = (k + 1) + i
      BY <1>1
    <3>2. Tail(job)[i] = job[i + 1]
      BY <1>1
    <3> QED BY <1>4, <3>1, <3>2, Zenon
  <2> QED BY <2>1, <2>2
<1>6. Rest(dbg_tmr_reset, k + 1)'
  BY <1>1, <1>5, StartAccesses DEF Rest
<1>7. k = 0 \/ k = 1 \/ k = 2 \/ k = 3 \/ k = 4 \/ k = 5 \/ k = 6 \/ k = 7
  OBVIOUS
<1>8. /\ k >= 2 => tmr.TCRR = 0
      /\ k >= 3 => tmr.TLDR = 0
      /\ k >= 5 => "AR" \in tmr.TCLR
      /\ k = 6 => tmr.TCLR \cap PTV = {}
      /\ k >= 7 => tmr.TCLR \cap (PTV \cup {"PRE"}) = DivBy8
  BY <1>3 DEF DebugStarting
<1>9. ASSUME k + 1 \in 0 .. 7, "ST" \notin tmr'.TCLR,
             k + 1 >= 2 => tmr'.TCRR = 0,
             k + 1 >= 3 => tmr'.TLDR = 0,
             k + 1 >= 5 => "AR" \in tmr'.TCLR,
             k + 1 = 6 => tmr'.TCLR \cap PTV = {},
             k + 1 >= 7 => tmr'.TCLR \cap (PTV \cup {"PRE"}) = DivBy8
      PROVE  \E m \in 0 .. 7 : DebugStarting(m)'
  <2>1. DebugStarting(k + 1)'
    BY <1>2, <1>4, <1>6, <1>9 DEF DebugStarting
  <2> QED BY <1>9, <2>1
<1>10. CASE k = 0
  <2>1. tmr' = [tmr EXCEPT !.TCLR = tmr.TCLR \ {"ST"}]
    BY <1>1, <1>2, <1>4, <1>10, StartAccesses, DoIs
  <2> QED BY <1>2, <1>9, <1>10, <2>1 DEF TmrRegs
<1>11. CASE k = 1
  <2>1. tmr' = [tmr EXCEPT !.TCRR = 0]
    BY <1>1, <1>2, <1>4, <1>11, StartAccesses, DoIs
  <2> QED BY <1>2, <1>4, <1>9, <1>11, <2>1 DEF TmrRegs
<1>12. CASE k = 2
  <2>1. tmr' = [tmr EXCEPT !.TLDR = 0]
    BY <1>1, <1>2, <1>4, <1>12, StartAccesses, DoIs
  <2> QED BY <1>2, <1>4, <1>8, <1>9, <1>12, <2>1 DEF TmrRegs
<1>13. CASE k = 3
  <2>1. tmr' = [tmr EXCEPT !.TCLR = tmr.TCLR \ {"AR", "CE"}]
    BY <1>1, <1>2, <1>4, <1>13, StartAccesses, DoIs
  <2> QED BY <1>2, <1>4, <1>8, <1>9, <1>13, <2>1 DEF TmrRegs
<1>14. CASE k = 4
  <2>1. tmr' = [tmr EXCEPT !.TCLR = tmr.TCLR \cup {"AR"}]
    BY <1>1, <1>2, <1>4, <1>14, StartAccesses, DoIs
  <2> QED BY <1>2, <1>4, <1>8, <1>9, <1>14, <2>1 DEF TmrRegs
<1>15. CASE k = 5
  <2>1. tmr' = [tmr EXCEPT !.TCLR = tmr.TCLR \ PTV]
    BY <1>1, <1>2, <1>4, <1>15, StartAccesses, DoIs
  <2>2. "AR" \notin PTV
    BY DEF PTV
  <2> QED BY <1>2, <1>4, <1>8, <1>9, <1>15, <2>1, <2>2 DEF TmrRegs
<1>16. CASE k = 6
  <2>1. tmr' = [tmr EXCEPT !.TCLR = tmr.TCLR \cup DivBy8]
    BY <1>1, <1>2, <1>4, <1>16, StartAccesses, DoIs
  <2>2. "ST" \notin DivBy8 /\ DivBy8 \subseteq PTV \cup {"PRE"} /\ "PRE" \in DivBy8
    BY DEF DivBy8, PTV
  <2>3. (tmr.TCLR \cup DivBy8) \cap (PTV \cup {"PRE"}) = DivBy8
    BY <1>8, <1>16, <2>2
  <2> QED BY <1>2, <1>4, <1>8, <1>9, <1>16, <2>1, <2>2, <2>3 DEF TmrRegs
<1>17. CASE k = 7
  <2>1. tmr' = [tmr EXCEPT !.TCLR = tmr.TCLR \cup {"ST"}]
    BY <1>1, <1>2, <1>4, <1>17, StartAccesses, DoIs
  <2>2. "ST" \notin PTV \cup {"PRE"}
    BY DEF PTV
  <2>3. (tmr.TCLR \cup {"ST"}) \cap (PTV \cup {"PRE"}) = DivBy8
    BY <1>8, <1>17, <2>2
  <2>4. /\ "ST" \in tmr'.TCLR /\ "AR" \in tmr'.TCLR
        /\ tmr'.TCLR \cap (PTV \cup {"PRE"}) = DivBy8
        /\ tmr'.TLDR = 0 /\ tmr'.TCRR = 0
    BY <1>2, <1>8, <1>17, <2>1, <2>3 DEF TmrRegs
  <2>5. clocks' = 0 /\ phase' \in 0 .. 7 /\ clocks' = 8 * tmr'.TCRR + phase'
    BY <1>1, <1>4, <2>4
  <2>6. job' = << >>
    <3>1. Tail(job) \in Seq(DmAccess) /\ Len(Tail(job)) = 0
      BY <1>1, <1>5, <1>17, AfterFirst DEF TmrInv, JobInv, SoundJob
    <3> QED BY <1>1, <3>1
  <2> QED BY <2>4, <2>5, <2>6 DEF DebugRunning, DivBy8
<1> QED BY <1>7, <1>10, <1>11, <1>12, <1>13, <1>14, <1>15, <1>16, <1>17

LEMMA WriteStep ==
    ASSUME DMTimerAssumption, TmrInv, DmStore \/ DmStrobe
    PROVE  TmrInv'
<1>1. PICK old : DmWrite(old) /\ job # << >> /\ Result(Head(job), old) = Result(Head(job), tmr[Head(job).reg])
  BY DEF DmStore, DmStrobe, TmrInv, JobInv, HeldSound
<1>2. JobInv' /\ AnyInv'
  BY <1>1, WriteAny
<1>3. use' = use
  BY <1>1 DEF DmWrite
<1>4. ClockInv'
  BY <1>1, <1>3, WriteClock, Zenon DEF ClockInv
<1>5. DebugInv'
  BY <1>1, <1>3, WriteDebug, Zenon DEF DebugInv
<1> QED BY <1>2, <1>4, <1>5 DEF TmrInv

\* What the driver's callback and the clock server's exit do
LEMMA CallbackStep == ASSUME TmrInv, Callback PROVE TmrInv'
<1>1. /\ use = "clock" /\ job = << >> /\ job' = clksrv_notify_cb
      /\ tmr' = tmr /\ phase' = phase /\ use' = use /\ held' = held /\ kept' = kept
      /\ wanted' = wanted /\ clocks' = clocks
  BY DEF Callback
<1> DEFINE a == Clear("IRQENABLE", {"OVF"})
           b == Clear("RAW", {"OVF"})
           c == Set("IRQENABLE", {"OVF"})
           s == <<a>> \o <<b>> \o <<c>>
<1>2. clksrv_notify_cb = s
  <2>1. {"OVF"} \cap IntFlags = {"OVF"}
    BY DEF IntFlags
  <2> QED BY <2>1 DEF clksrv_notify_cb, DMTimerIntDisable, DMTimerIntStatusClear, DMTimerIntEnable
<1>3. a \in DmAccess /\ b \in DmAccess /\ c \in DmAccess
  BY DEF Clear, Set, DmAccess, IntFlags
<1>4. /\ a.reg = "IRQENABLE" /\ b.reg = "RAW" /\ c.reg = "IRQENABLE"
      /\ ~ Starts(a) /\ ~ Starts(b) /\ ~ Starts(c) /\ Harmless(a) /\ Harmless(b) /\ Harmless(c)
  BY DEF Clear, Set, Starts, Harmless
<1> HIDE DEF a, b, c
<1>5. /\ s \in Seq(DmAccess) /\ Len(s) = 3
      /\ \A i \in 1 .. Len(s) : s[i] = a \/ s[i] = b \/ s[i] = c
  <2>1. s \in Seq(DmAccess) /\ Len(s) = 3 /\ s[1] = a /\ s[2] = b /\ s[3] = c
    BY <1>3
  <2> HIDE DEF s
  <2>2. \A i \in 1 .. Len(s) : i = 1 \/ i = 2 \/ i = 3
    BY <2>1
  <2> QED BY <2>1, <2>2
<1> HIDE DEF s
<1>6. SoundJob(s) /\ Runnable(s) /\ \A i \in 1 .. Len(s) : s[i].reg \in {"RAW", "IRQENABLE"}
  BY <1>4, <1>5 DEF SoundJob, Runnable
<1>7. held = << >>
  BY <1>1 DEF TmrInv, JobInv, HeldSound
<1>8. JobInv'
  BY <1>1, <1>2, <1>6, <1>7 DEF TmrInv, JobInv, TmrTypes, HeldSound, Stopped
<1>9. ClockRunning
  <2>1. \A k \in 0 .. 7 : ~ ClockStarting(k)
    <3>1. \A k \in 0 .. 7 : Len(job) # 8 - k
      BY <1>1
    <3> QED BY <3>1, StartAccesses DEF ClockStarting, Rest
  <2> QED BY <1>1, <2>1 DEF TmrInv, ClockInv
<1>10. ClockRunning'
  BY <1>1, <1>2, <1>6, <1>9 DEF ClockRunning, reloadValue, CLOCK_OVF, CLOCK_1ms
<1> QED BY <1>1, <1>8, <1>10 DEF TmrInv, AnyInv, ClockInv, DebugInv

LEMMA CleanupStep == ASSUME TmrInv, clksrv_cleanup PROVE TmrInv'
<1>1. /\ use = "clock" /\ job = << >> /\ job' = DMTimerDisable
      /\ tmr' = tmr /\ phase' = phase /\ use' = "nobody" /\ held' = held /\ kept' = kept
      /\ wanted' = wanted /\ clocks' = clocks
  BY DEF clksrv_cleanup
<1> DEFINE a == AndNot("TCLR", {"ST"})
<1>2. a \in DmAccess /\ Harmless(a) /\ DMTimerDisable = <<a>>
  BY DEF AndNot, DmAccess, TclrBits, Harmless, DMTimerDisable
<1> HIDE DEF a
<1>3. SoundJob(job') /\ Runnable(job')
  BY <1>1, <1>2, OneAccess
<1>4. held = << >>
  BY <1>1 DEF TmrInv, JobInv, HeldSound
<1>5. JobInv'
  BY <1>1, <1>3, <1>4 DEF TmrInv, JobInv, TmrTypes, HeldSound, Stopped
<1> QED BY <1>1, <1>5 DEF TmrInv, AnyInv, ClockInv, DebugInv

-----------------------------------------------------------------------------
(* The timer: the device counts *)

LEMMA InRange == ASSUME NEW n \in Nat, NEW b \in Nat \ {0} PROVE n % b \in Nat /\ (n < b => n % b = n) /\ b % b = 0
OBVIOUS

\* A cycle more of a timer that is not any caller's
LEMMA OneMore ==
    ASSUME DMTimerAssumption, TmrInv
    PROVE  /\ OneMoreCycle \in Nat
           /\ use # "any" /\ clocks + 1 < 8 * TimerModulus => OneMoreCycle = clocks + 1
           /\ use # "any" /\ clocks + 1 = 8 * TimerModulus => OneMoreCycle = 0
<1>1. 8 * TimerModulus \in Nat \ {0} /\ clocks + 1 \in Nat
  BY DEF DMTimerAssumption, TmrInv, JobInv, TmrTypes
<1>2. /\ (clocks + 1) % (8 * TimerModulus) \in Nat
      /\ clocks + 1 < 8 * TimerModulus => (clocks + 1) % (8 * TimerModulus) = clocks + 1
      /\ clocks + 1 = 8 * TimerModulus => (clocks + 1) % (8 * TimerModulus) = 0
  <2> DEFINE n == clocks + 1
             b == 8 * TimerModulus
  <2> HIDE DEF n, b
  <2>1. n \in Nat /\ b \in Nat \ {0}
    BY <1>1 DEF n, b
  <2>2. n % b \in Nat /\ (n < b => n % b = n) /\ b % b = 0
    BY <2>1, InRange
  <2>3. n % b \in Nat /\ (n < b => n % b = n) /\ (n = b => n % b = 0)
    BY <2>2
  <2> QED BY <2>3 DEF n, b
<1> QED BY <1>2, Zenon DEF OneMoreCycle

\* What the device changes when it counts
LEMMA CountedFacts ==
    ASSUME DMTimerAssumption, TmrInv, CounterStep
    PROVE  LET once == Overflows /\ "AR" \notin tmr.TCLR
               n == Counted(tmr.TCRR)
           IN /\ tmr' \in TmrRegs /\ Moved(tmr, tmr', once, n)
              /\ n \in Values
              /\ n = (IF tmr.TCRR # CLOCK_OVF THEN tmr.TCRR + 1
                      ELSE IF "AR" \in tmr.TCLR THEN tmr.TLDR ELSE 0)
<1> DEFINE once == Overflows /\ "AR" \notin tmr.TCLR
           n == Counted(tmr.TCRR)
           f == (IF Overflows THEN {"OVF"} ELSE {})
                \cup (IF "CE" \in tmr.TCLR /\ n = tmr.TMAR THEN {"MAT"} ELSE {})
<1>1. tmr' = [tmr EXCEPT !.TCRR = n, !.TCLR = IF once THEN tmr.TCLR \ {"ST"} ELSE tmr.TCLR,
                         !.RAW = tmr.RAW \cup f]
  <2>1. tmr' = [tmr EXCEPT
                        !.TCRR = n,
                        !.TCLR = IF once THEN @ \ {"ST"} ELSE @,
                        !.RAW = @ \cup (IF Overflows THEN {"OVF"} ELSE {})
                                  \cup (IF "CE" \in tmr.TCLR /\ n = tmr.TMAR THEN {"MAT"} ELSE {})]
    BY DEF CounterStep
  <2> HIDE DEF n, once
  <2> QED BY <2>1
<1>2. f \subseteq IntFlags
  BY DEF IntFlags
<1>3. tmr \in TmrRegs
  BY DEF TmrInv, JobInv, TmrTypes
<1>4. n = (IF tmr.TCRR # CLOCK_OVF THEN tmr.TCRR + 1
           ELSE IF "AR" \in tmr.TCLR THEN tmr.TLDR ELSE 0)
  BY DEF Counted
<1>5. n \in Values
  BY <1>3, <1>4, ReloadIn DEF TmrRegs, Values
<1> DEFINE c == IF once THEN tmr.TCLR \ {"ST"} ELSE tmr.TCLR
<1> HIDE DEF n, f, once
<1>6. c \subseteq TclrBits
  BY <1>3 DEF TmrRegs
<1>7. tmr' = [tmr EXCEPT !.TCRR = n, !.TCLR = c, !.RAW = tmr.RAW \cup f]
  BY <1>1
<1> HIDE DEF c
<1>8. /\ tmr' \in TmrRegs /\ tmr'.TCLR = c /\ tmr'.TCRR = n /\ tmr'.TLDR = tmr.TLDR
      /\ tmr'.TMAR = tmr.TMAR /\ tmr'.IRQENABLE = tmr.IRQENABLE /\ tmr'.TSICR = tmr.TSICR
  BY <1>2, <1>3, <1>5, <1>6, <1>7 DEF TmrRegs
<1>9. Moved(tmr, tmr', once, n)
  BY <1>8 DEF Moved, c
<1> QED BY <1>4, <1>5, <1>8, <1>9 DEF n, once

\* It does so to what is wanted, too.
LEMMA CountedAny ==
    ASSUME DMTimerAssumption, TmrInv, CounterStep, use = "any"
    PROVE  AnyInv'
<1> DEFINE once == Overflows /\ "AR" \notin tmr.TCLR
           n == Counted(tmr.TCRR)
           t == After(tmr, job)
           u == After(tmr', job)
<1>1. /\ "ST" \in tmr.TCLR /\ wanted' = [wanted EXCEPT !.count = Counted(@), !.running = @ /\ ~ once]
      /\ use' = use /\ job' = job
  BY DEF CounterStep, Stopped
<1>2. /\ SoundJob(job) /\ Runnable(job) /\ Len(job) <= 2 /\ wanted = Meaning(t) /\ job \in Seq(DmAccess)
      /\ tmr \in TmrRegs
  BY <1>1 DEF TmrInv, JobInv, AnyInv, SoundJob, Stopped, TmrTypes
<1>3. tmr' \in TmrRegs /\ Moved(tmr, tmr', once, n)
  BY CountedFacts
<1>4. Moved(t, u, once, n) /\ t.TCRR = tmr.TCRR
  <2>1. once \in BOOLEAN
    BY DEF Overflows
  <2> HIDE DEF once, n
  <2> QED BY <1>2, <1>3, <2>1, MovedAfter
<1> DEFINE c == t.TCRR
           l == t.TLDR
           m == t.TMAR
           r == "ST" \in t.TCLR
           o == t.TCLR \cap {"AR", "CE"}
           d == Divisor(t.TCLR)
           g == t.TCLR \cap {"GPO"}
           e == t.IRQENABLE
           x == t.TSICR
           running == r /\ ~ once
<1>5. wanted = MeaningOf(c, l, m, r, o, d, g, e, x)
  BY <1>2, MeaningIs
<1>6. wanted' = MeaningOf(Counted(c), l, m, running, o, d, g, e, x)
  <2> DEFINE count == Counted(wanted.count)
             goes == wanted.running /\ ~ once
  <2>1. wanted' = [[wanted EXCEPT !.count = count] EXCEPT !.running = goes]
    <3>1. wanted' = [wanted EXCEPT !.count = Counted(wanted.count), !.running = wanted.running /\ ~ once]
      BY <1>1, Zenon
    <3> HIDE DEF count, goes
    <3>2. wanted' = [wanted EXCEPT !.count = count, !.running = goes]
      BY <3>1, Zenon DEF count, goes
    <3> QED BY <3>2
  <2>2. wanted.count = c /\ wanted.running = r
    <3> HIDE DEF c, l, m, r, o, d, g, e, x
    <3> QED BY <1>5 DEF MeaningOf
  <2>3. count = Counted(c) /\ goes = running
    BY <2>2, Zenon
  <2> HIDE DEF count, goes, c, l, m, r, o, d, g, e, x, running
  <2>4. wanted' = MeaningOf(count, l, m, goes, o, d, g, e, x)
    BY <1>5, <2>1 DEF MeaningOf
  <2> QED BY <2>3, <2>4, Zenon
<1>7. /\ u.TCLR = (IF once THEN t.TCLR \ {"ST"} ELSE t.TCLR) /\ u.TCRR = n /\ u.TLDR = l /\ u.TMAR = m
      /\ u.IRQENABLE = e /\ u.TSICR = x
  BY <1>4 DEF Moved
<1>8. /\ u.TCLR \cap {"AR", "CE"} = o /\ u.TCLR \cap {"GPO"} = g
      /\ u.TCLR \cap Prescaler = t.TCLR \cap Prescaler
      /\ "ST" \in u.TCLR <=> "ST" \in t.TCLR /\ ~ once
  <2> HIDE DEF u, t, once
  <2> QED BY <1>7 DEF Prescaler, PTV
<1>9. Divisor(u.TCLR) = d
  BY <1>8, DivisorSame, Zenon
<1>10. ("ST" \in u.TCLR) = running
  <2> HIDE DEF u, t, once
  <2> QED BY <1>8
<1>11. Meaning(u) = MeaningOf(n, l, m, running, o, d, g, e, x)
  BY <1>7, <1>8, <1>9, <1>10, MeaningIs, Zenon
<1>12. n = Counted(c)
  BY <1>4
<1>13. wanted' = Meaning(After(tmr', job'))
  BY <1>1, <1>6, <1>11, <1>12, Zenon
<1> QED BY <1>1, <1>2, <1>13, Zenon DEF AnyInv, TmrInv

\* The divisor that the two users see
LEMMA DivisorIs ==
    ASSUME NEW c
    PROVE  /\ "PRE" \notin c => Divisor(c) = 1
           /\ c \cap (PTV \cup {"PRE"}) = DivBy8 => Divisor(c) = 8
<1>1. "PRE" \notin c => Divisor(c) = 1
  BY DEF Divisor
<1>2. ASSUME c \cap (PTV \cup {"PRE"}) = DivBy8 PROVE Divisor(c) = 8
  <2>1. "PRE" \in c /\ "PTV0" \notin c /\ "PTV1" \in c /\ "PTV2" \notin c
    BY <1>2 DEF PTV, DivBy8
  <2>2. Divisor(c) = 2 ^ (1 + 0 + 2 + 0)
    BY <2>1 DEF Divisor
  <2>3. 1 + 0 + 2 + 0 = 3 /\ 2 ^ 3 = 8
    OBVIOUS
  <2> QED BY <2>2, <2>3
<1> QED BY <1>1, <1>2

\* The clock server's timer, running or not yet
LEMMA ClockRuns ==
    ASSUME TmrInv, use = "clock", ~ Stopped
    PROVE  ClockRunning /\ tmr \in TmrRegs
BY DEF TmrInv, ClockInv, ClockStarting, JobInv, TmrTypes

LEMMA DebugRuns ==
    ASSUME TmrInv, use = "debug", ~ Stopped
    PROVE  DebugRunning /\ tmr \in TmrRegs
BY DEF TmrInv, DebugInv, DebugStarting, JobInv, TmrTypes

LEMMA CounterStepInv == ASSUME DMTimerAssumption, TmrInv, CounterStep PROVE TmrInv'
<1> DEFINE once == Overflows /\ "AR" \notin tmr.TCLR
           n == Counted(tmr.TCRR)
<1>1. /\ "ST" \in tmr.TCLR /\ ~ Stopped /\ phase + 1 >= Divisor(tmr.TCLR) /\ phase' = 0
      /\ use' = use /\ job' = job /\ held' = held /\ kept' = kept
      /\ clocks' = (IF use = "clock" /\ Overflows THEN 0 ELSE OneMoreCycle)
  BY DEF CounterStep, Stopped
<1>2. tmr' \in TmrRegs /\ Moved(tmr, tmr', once, n) /\ tmr \in TmrRegs
      /\ n = (IF tmr.TCRR # CLOCK_OVF THEN tmr.TCRR + 1
                      ELSE IF "AR" \in tmr.TCLR THEN tmr.TLDR ELSE 0)
  BY CountedFacts DEF TmrInv, JobInv, TmrTypes
<1>3. /\ tmr'.TCLR = (IF once THEN tmr.TCLR \ {"ST"} ELSE tmr.TCLR) /\ tmr'.TCRR = n
      /\ tmr'.TLDR = tmr.TLDR /\ tmr'.TSICR = tmr.TSICR
  BY <1>2 DEF Moved
<1> HIDE DEF once, n
<1>4. TmrTypes'
  BY <1>1, <1>2, OneMore DEF TmrInv, JobInv, TmrTypes
<1>5. SoundJob(job) /\ Runnable(job) /\ HeldSound
  BY <1>1 DEF TmrInv, JobInv
<1>6. HeldSound'
  <2>1. SUFFICES ASSUME held # << >>
                 PROVE  Result(Head(job), held[1]) = Result(Head(job), tmr'[Head(job).reg])
    BY <1>1, <1>5 DEF HeldSound
  <2>2. job # << >> /\ ~ Head(job).atomic /\ Result(Head(job), held[1]) = Result(Head(job), tmr[Head(job).reg])
    BY <1>5, <2>1 DEF HeldSound
  <2>3. Head(job) \in DmAccess /\ Harmless(Head(job))
    BY <1>5, <2>2 DEF SoundJob, Runnable
  <2>4. CASE Head(job).reg = "TCLR"
    <3>1. Head(job).op = "clear" /\ Head(job).bits = {"ST"}
      BY <2>3, <2>4 DEF Harmless
    <3>2. \A x : Result(Head(job), x) = x \ {"ST"}
      BY <3>1 DEF Result
    <3>3. tmr'.TCLR \ {"ST"} = tmr.TCLR \ {"ST"}
      BY <1>3
    <3> QED BY <2>2, <2>4, <3>2, <3>3
  <2>5. CASE Head(job).reg = "TSICR"
    BY <1>3, <2>2, <2>5
  <2> QED BY <2>2, <2>3, <2>4, <2>5 DEF DmAccess
<1>7. JobInv'
  BY <1>1, <1>4, <1>5, <1>6 DEF JobInv
<1>8. AnyInv'
  <2>1. CASE use = "any"
    BY <2>1, CountedAny
  <2>2. CASE use # "any"
    BY <1>1, <2>2, Zenon DEF AnyInv
  <2> QED BY <2>1, <2>2
<1>9. ASSUME use = "clock" PROVE ClockRunning'
  <2>1. ClockRunning
    BY <1>1, <1>9, ClockRuns
  <2>2. ~ once /\ tmr'.TCLR = tmr.TCLR
    BY <1>3, <2>1 DEF once, ClockRunning
  <2>3. reloadValue' = reloadValue
    BY DEF reloadValue, CLOCK_OVF, CLOCK_1ms
  <2>4. /\ tmr'.TCRR = reloadValue + clocks' /\ clocks' \in 0 .. ClocksPerMs - 1
    <3>1. CASE Overflows
      <4>1. clocks' = 0 /\ n = tmr.TLDR
        BY <1>1, <1>2, <1>9, <2>1, <3>1 DEF Overflows, ClockRunning
      <4> QED BY <1>3, <2>1, <4>1, ReloadIn DEF ClockRunning, Values
    <3>2. CASE ~ Overflows
      <4>1. clocks' = OneMoreCycle /\ n = tmr.TCRR + 1
        BY <1>1, <1>2, <3>2 DEF Overflows
      <4>2. tmr.TCRR = reloadValue + clocks /\ clocks \in 0 .. ClocksPerMs - 1 /\ tmr.TCRR # TimerModulus - 1
        BY <2>1, <3>2, ReloadIn DEF ClockRunning, Overflows
      <4>3. clocks + 1 < ClocksPerMs
        BY <4>2, ReloadIn
      <4>4. clocks + 1 < 8 * TimerModulus
        BY <4>2, <4>3, ReloadIn
      <4>5. clocks' = clocks + 1
        BY <1>9, <4>1, <4>4, OneMore
      <4> QED BY <1>3, <4>1, <4>2, <4>3, <4>5, ReloadIn DEF Values
    <3> QED BY <3>1, <3>2
  <2> QED BY <1>1, <1>3, <2>1, <2>2, <2>3, <2>4 DEF ClockRunning
<1>10. ASSUME use = "debug" PROVE DebugRunning'
  <2>1. DebugRunning
    BY <1>1, <1>10, DebugRuns
  <2>2. ~ once /\ tmr'.TCLR = tmr.TCLR
    BY <1>3, <2>1 DEF once, DebugRunning
  <2>3. phase = 7 /\ clocks = 8 * tmr.TCRR + 7 /\ tmr.TLDR = 0 /\ tmr.TCRR \in 0 .. TimerModulus - 1
    <3>1. Divisor(tmr.TCLR) = 8
      BY <2>1, DivisorIs DEF DebugRunning
    <3>2. phase \in 0 .. 7 /\ phase + 1 >= 8
      BY <1>1, <2>1, <3>1 DEF DebugRunning
    <3>3. tmr.TCRR \in Values
      BY <1>2 DEF TmrRegs
    <3> QED BY <2>1, <3>2, <3>3 DEF DebugRunning, Values
  <2>4. clocks' = OneMoreCycle
    BY <1>1, <1>10
  <2>5. CASE tmr.TCRR = TimerModulus - 1
    <3>1. n = 0
      BY <1>2, <2>1, <2>3, <2>5, ReloadIn DEF DebugRunning
    <3>2. clocks + 1 = 8 * TimerModulus
      BY <2>3, <2>5, ReloadIn
    <3>3. clocks' = 0
      BY <1>10, <2>4, <3>2, OneMore
    <3> QED BY <1>1, <1>3, <2>1, <2>2, <3>1, <3>3 DEF DebugRunning, DivBy8
  <2>6. CASE tmr.TCRR # TimerModulus - 1
    <3>1. n = tmr.TCRR + 1
      BY <1>2, <2>6, ReloadIn
    <3>2. clocks + 1 = 8 * (tmr.TCRR + 1) /\ clocks + 1 < 8 * TimerModulus
      BY <2>3, <2>6, ReloadIn
    <3>3. clocks' = clocks + 1
      BY <1>10, <2>4, <3>2, OneMore
    <3>4. clocks' = 8 * tmr'.TCRR + phase'
      BY <1>1, <1>3, <2>3, <3>1, <3>2, <3>3
    <3> QED BY <1>1, <1>3, <2>1, <2>2, <3>4 DEF DebugRunning, DivBy8
  <2> QED BY <2>5, <2>6
<1>11. ClockInv' /\ DebugInv'
  BY <1>1, <1>9, <1>10 DEF ClockInv, DebugInv
<1> QED BY <1>7, <1>8, <1>11 DEF TmrInv

LEMMA PrescalerStepInv == ASSUME DMTimerAssumption, TmrInv, PrescalerStep PROVE TmrInv'
<1>1. /\ "ST" \in tmr.TCLR /\ ~ Stopped /\ phase + 1 < Divisor(tmr.TCLR) /\ phase' = phase + 1
      /\ clocks' = OneMoreCycle
      /\ tmr' = tmr /\ use' = use /\ job' = job /\ held' = held /\ kept' = kept /\ wanted' = wanted
  BY DEF PrescalerStep, Stopped
<1>2. JobInv'
  BY <1>1, OneMore DEF TmrInv, JobInv, TmrTypes, HeldSound, Stopped
<1>3. AnyInv'
  BY <1>1, Zenon DEF TmrInv, AnyInv, Stopped
<1>4. use # "clock"
  <2>1. SUFFICES ASSUME use = "clock" PROVE FALSE
    OBVIOUS
  <2>2. ClockRunning
    BY <1>1, <2>1, ClockRuns
  <2>3. Divisor(tmr.TCLR) = 1 /\ phase = 0
    BY <2>2, DivisorIs DEF ClockRunning
  <2> QED BY <1>1, <2>3
<1>5. ASSUME use = "debug" PROVE DebugRunning'
  <2>1. DebugRunning /\ tmr.TCRR \in Values
    BY <1>1, <1>5, DebugRuns DEF TmrRegs
  <2>2. Divisor(tmr.TCLR) = 8
    BY <2>1, DivisorIs DEF DebugRunning
  <2>3. phase \in 0 .. 6 /\ clocks = 8 * tmr.TCRR + phase
    BY <1>1, <2>1, <2>2 DEF DebugRunning
  <2>4. clocks + 1 < 8 * TimerModulus
    BY <2>1, <2>3, ReloadIn DEF Values
  <2>5. clocks' = clocks + 1
    BY <1>1, <1>5, <2>4, OneMore
  <2>6. clocks' = 8 * tmr'.TCRR + phase' /\ phase' \in 0 .. 7
    BY <1>1, <2>1, <2>3, <2>5 DEF Values
  <2> QED BY <1>1, <2>1, <2>6 DEF DebugRunning, DivBy8
<1> QED BY <1>1, <1>2, <1>3, <1>4, <1>5 DEF TmrInv, ClockInv, DebugInv

LEMMA TmrInitInv == ASSUME DMTimerAssumption, DmInit PROVE TmrInv
<1>1. /\ phase = 0 /\ held = << >> /\ kept = tmr /\ wanted = Meaning(tmr) /\ clocks = 0
      /\ \/ use = "any" /\ job = << >>
         \/ use = "clock" /\ job = StartClock /\ Stopped
         \/ use = "debug" /\ job = dbg_tmr_reset /\ Stopped
  BY DEF DmInit
<1>2. tmr \in TmrRegs
  <2>1. PICK tclr \in {{}, {"AR", "CE"}, {"PTV0", "PTV2", "PRE"}, {"ST", "AR"}} :
           tmr = [AfterReset EXCEPT !.TCLR = tclr, !.TCRR = 1, !.TLDR = 1]
    BY DEF DmInit
  <2>2. tclr \subseteq TclrBits
    BY DEF TclrBits, PTV
  <2>3. 0 \in Values /\ 1 \in Values
    BY ReloadIn DEF Values
  <2>4. AfterReset \in TmrRegs
    BY <2>3 DEF AfterReset, TmrRegs
  <2> QED BY <2>1, <2>2, <2>3, <2>4 DEF TmrRegs
<1>3. TmrTypes /\ HeldSound
  BY <1>1, <1>2 DEF TmrTypes, HeldSound
<1>4. CASE use = "any" /\ job = << >>
  <2>1. SoundJob(job) /\ Runnable(job)
    BY <1>4 DEF SoundJob, Runnable
  <2>2. After(tmr, job) = tmr /\ Len(job) <= 5 /\ Len(job) <= 2
    BY <1>4 DEF After
  <2>3. AnyInv
    BY <1>1, <2>2, Zenon DEF AnyInv
  <2> QED BY <1>3, <1>4, <2>1, <2>3 DEF TmrInv, JobInv, ClockInv, DebugInv
<1>5. StartClock \in Seq(DmAccess) /\ dbg_tmr_reset \in Seq(DmAccess)
  <2>1. \A b \in SUBSET TclrBits : <<AndNot("TCLR", b)>> \in Seq(DmAccess) /\ <<Or("TCLR", b)>> \in Seq(DmAccess)
    BY DEF DmAccess, AndNot, Or
  <2>2. \A b, c \in SUBSET TclrBits : <<AndNot("TCLR", b), Or("TCLR", c)>> \in Seq(DmAccess)
    BY DEF DmAccess, AndNot, Or
  <2>3. \A v \in Values : <<Put("TCRR", v)>> \in Seq(DmAccess) /\ <<Put("TLDR", v)>> \in Seq(DmAccess)
    BY DEF DmAccess, Put
  <2>4. <<Set("IRQENABLE", {"OVF"} \cap IntFlags)>> \in Seq(DmAccess)
    BY DEF DmAccess, Set
  <2>5. 0 \in Values /\ reloadValue \in Values
    BY ReloadIn DEF Values
  <2>6. /\ {"ST"} \in SUBSET TclrBits /\ {"PRE"} \in SUBSET TclrBits /\ {"AR", "CE"} \in SUBSET TclrBits
        /\ {"AR"} \cap {"AR", "CE"} \in SUBSET TclrBits /\ PTV \in SUBSET TclrBits
        /\ DivBy8 \cap (PTV \cup {"PRE"}) \in SUBSET TclrBits
    BY DEF TclrBits, PTV
  <2>7. /\ DMTimerDisable \in Seq(DmAccess) /\ DMTimerPreScalerClkDisable \in Seq(DmAccess)
        /\ DMTimerCounterSet(reloadValue) \in Seq(DmAccess) /\ DMTimerReloadSet(reloadValue) \in Seq(DmAccess)
        /\ DMTimerCounterSet(0) \in Seq(DmAccess) /\ DMTimerReloadSet(0) \in Seq(DmAccess)
        /\ DMTimerModeConfigure({"AR"}) \in Seq(DmAccess) /\ DMTimerIntEnable({"OVF"}) \in Seq(DmAccess)
        /\ DMTimerEnable \in Seq(DmAccess) /\ DMTimerPreScalerClkEnable(DivBy8) \in Seq(DmAccess)
    BY <2>1, <2>2, <2>3, <2>4, <2>5, <2>6, Zenon
       DEF DMTimerDisable, DMTimerPreScalerClkDisable, DMTimerCounterSet, DMTimerReloadSet,
           DMTimerModeConfigure, DMTimerIntEnable, DMTimerEnable, DMTimerPreScalerClkEnable, Programmed
  <2>8. \A s, t \in Seq(DmAccess) : s \o t \in Seq(DmAccess)
    OBVIOUS
  <2> QED BY <2>7, <2>8, Zenon DEF StartClock, dbg_tmr_reset
<1>6. SoundJob(StartClock) /\ SoundJob(dbg_tmr_reset)
  <2>1. ASSUME NEW i \in 1 .. 7 PROVE ~ Starts(StartClock[i]) /\ ~ Starts(dbg_tmr_reset[i])
    <3>1. \A b : /\ ~ Starts(AndNot("TCLR", b)) /\ ("ST" \notin b => ~ Starts(Or("TCLR", b)))
                 /\ ~ Starts(Put("TCRR", b)) /\ ~ Starts(Put("TLDR", b)) /\ ~ Starts(Set("IRQENABLE", b))
      BY DEF Starts, AndNot, Or, Put, Set
    <3>2. "ST" \notin {"AR"} /\ "ST" \notin DivBy8
      BY DEF DivBy8
    <3>3. i = 1 \/ i = 2 \/ i = 3 \/ i = 4 \/ i = 5 \/ i = 6 \/ i = 7
      OBVIOUS
    <3> QED BY <3>1, <3>2, <3>3, StartAccesses, ZenonT(40)
  <2>2. Len(StartClock) - 1 = 7 /\ Len(dbg_tmr_reset) - 1 = 7
    BY StartAccesses
  <2> QED BY <1>5, <2>1, <2>2, Zenon DEF SoundJob
<1>7. CASE use = "clock" /\ job = StartClock /\ Stopped
  <2>1. Rest(StartClock, 0)
    BY <1>7, StartAccesses DEF Rest
  <2>2. ClockStarting(0)
    BY <1>1, <1>7, <2>1 DEF ClockStarting
  <2> QED BY <1>3, <1>6, <1>7, <2>2 DEF TmrInv, JobInv, AnyInv, ClockInv, DebugInv
<1>8. CASE use = "debug" /\ job = dbg_tmr_reset /\ Stopped
  <2>1. Rest(dbg_tmr_reset, 0)
    BY <1>8, StartAccesses DEF Rest
  <2>2. DebugStarting(0)
    BY <1>1, <1>8, <2>1 DEF DebugStarting
  <2> QED BY <1>3, <1>6, <1>8, <2>2 DEF TmrInv, JobInv, AnyInv, ClockInv, DebugInv
<1> QED BY <1>1, <1>4, <1>7, <1>8

LEMMA TmrStep == ASSUME DMTimerAssumption, TmrInv, [DmNext]_dmVars PROVE TmrInv'
<1>1. CASE ConfigureCall
  <2>1. PICK s, m : DmCall(s, m) /\ Sound(s, m)
    BY <1>1, ConfigureOk
  <2> QED BY <2>1, CallStep
<1>2. CASE AnyTimeCall
  <2>1. PICK s, m : DmCall(s, m) /\ Sound(s, m)
    BY <1>2, AnyTimeOk
  <2> QED BY <2>1, CallStep
<1>3. CASE DMTimerContextSave BY <1>3, SaveStep
<1>4. CASE RestoreCall
  <2>1. tmr = AfterReset /\ DmCall(DMTimerContextRestore, [Meaning(kept) EXCEPT !.sft = {}])
    BY <1>4 DEF RestoreCall
  <2>2. use = "any" /\ job = << >> /\ kept \in TmrRegs
    BY <2>1 DEF DmCall, TmrInv, JobInv, TmrTypes
  <2>3. Sound(DMTimerContextRestore, [Meaning(kept) EXCEPT !.sft = {}])
    BY <2>1, <2>2, IdleHere, RestoreOk, Zenon
  <2> QED BY <2>1, <2>3, CallStep
<1>5. CASE DMTimerReset BY <1>5, ResetStep
<1>6. CASE Callback BY <1>6, CallbackStep
<1>7. CASE clksrv_cleanup BY <1>7, CleanupStep
<1>8. CASE DmLoad BY <1>8, LoadStep
<1>9. CASE DmStore \/ DmStrobe BY <1>9, WriteStep
<1>10. CASE CounterStep BY <1>10, CounterStepInv
<1>11. CASE PrescalerStep BY <1>11, PrescalerStepInv
<1>12. CASE UNCHANGED dmVars
  <2>1. /\ tmr' = tmr /\ phase' = phase /\ use' = use /\ held' = held /\ kept' = kept
        /\ wanted' = wanted /\ clocks' = clocks /\ job' = job
    BY <1>12 DEF dmVars
  <2>2. JobInv'
    BY <2>1 DEF TmrInv, JobInv, TmrTypes, HeldSound, Stopped
  <2>3. AnyInv'
    BY <2>1, Zenon DEF TmrInv, AnyInv, Stopped
  <2>4. \A k \in 0 .. 7 : /\ ClockStarting(k)' <=> ClockStarting(k)
                          /\ DebugStarting(k)' <=> DebugStarting(k)
    BY <2>1 DEF ClockStarting, DebugStarting, Rest, Stopped
  <2>5. (ClockRunning' <=> ClockRunning) /\ (DebugRunning' <=> DebugRunning)
    BY <2>1 DEF ClockRunning, DebugRunning
  <2>6. ClockInv' /\ DebugInv'
    BY <2>1, <2>4, <2>5, Zenon DEF TmrInv, ClockInv, DebugInv
  <2> QED BY <2>2, <2>3, <2>6 DEF TmrInv
<1> QED BY <1>1, <1>2, <1>3, <1>4, <1>5, <1>6, <1>7, <1>8, <1>9, <1>10, <1>11, <1>12 DEF DmNext

\* What the driver and its users rely on holds in every state.
THEOREM TmrCorrect == ASSUME DMTimerAssumption PROVE DmSpec => []TmrInv
<1>1. DmInit => TmrInv
  BY TmrInitInv
<1>2. TmrInv /\ [DmNext]_dmVars => TmrInv'
  BY TmrStep
<1> QED BY <1>1, <1>2, PTL DEF DmSpec

\* Between calls the timer is set as the calls asked, whoever of the driver's
\* users made them.
THEOREM TimerSet == ASSUME DMTimerAssumption PROVE DmSpec => []TimerAsAsked
<1>1. TmrInv => TimerAsAsked
  BY IdleHere, Zenon DEF TimerAsAsked, Idle
<1> QED BY <1>1, TmrCorrect, PTL

LEMMA CounterKeepsTime == ASSUME DMTimerAssumption, TmrInv PROVE StepKeepsTime
<1>1. ASSUME use = "clock", CounterStep
      PROVE  Overflows <=> clocks = ClocksPerMs - 1
  <2>1. ClockRunning /\ ~ Stopped
    BY <1>1, ClockRuns DEF CounterStep
  <2> QED BY <2>1, ReloadIn DEF ClockRunning, Overflows
<1>2. ASSUME use = "debug", ~ Stopped
      PROVE  dbg_tmr_get = ((clocks \div 8) % TimerModulus) \div 3
  <2>1. DebugRunning /\ tmr.TCRR \in Values
    BY <1>2, DebugRuns DEF TmrRegs
  <2>2. clocks \div 8 = tmr.TCRR
    BY <2>1 DEF DebugRunning, Values
  <2>3. TimerModulus \in Nat \ {0} /\ tmr.TCRR \in Nat /\ tmr.TCRR < TimerModulus
    BY <2>1, ReloadIn DEF Values
  <2>4. (clocks \div 8) % TimerModulus = tmr.TCRR
    BY <2>2, <2>3, InRange
  <2> QED BY <2>4 DEF dbg_tmr_get
<1> QED BY <1>1, <1>2 DEF StepKeepsTime

\* The clock server's timer overflows after exactly a millisecond, and the debug
\* timer counts without a gap, for every width of the counter and every clock.
THEOREM TimeKept == ASSUME DMTimerAssumption PROVE DmSpec => TimersKeepTime
<1>1. TmrInv /\ [DmNext]_dmVars => [StepKeepsTime]_dmVars
  BY CounterKeepsTime
<1> QED BY <1>1, TmrCorrect, PTL DEF DmSpec, TimersKeepTime
=============================================================================
