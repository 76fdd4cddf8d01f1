-------------------------------- MODULE Uart --------------------------------
(***************************************************************************)
(* The UART driver, drv_uart.c, and the set-up of the console in bwio.c.    *)
(*                                                                         *)
(* A register is the set of its bits that are 1, so that "|= mask" is a     *)
(* union and "&= ~mask" a difference.  Several registers share an offset:   *)
(* which of them an access reaches depends on LCR, on EFR[4] and on MCR[6], *)
(* and most of the driver is about reaching the right one and then putting  *)
(* these three back.  A function of the driver is an operator from the      *)
(* registers it finds to those it leaves.                                   *)
(***************************************************************************)
EXTENDS Integers

CONSTANT MaxCalls   \* how many functions of the driver are called

\* What is assumed of the constants.
UartAssumption == MaxCalls \in Nat

UartRegisters == {"DLL", "DLH", "IER", "EFR", "FCR", "LCR", "MCR", "XON1", "XON2",
              "XOFF1", "XOFF2", "TCR", "TLR", "SPR", "MDR1", "MDR2", "MDR3",
              "SCR", "SSR", "SYSC", "WER", "DMATHR", "THR", "LSR", "MSR"}

VARIABLES uart,    \* the registers
          asked,   \* the function last called, and its argument
          read,    \* the register and the field that it returned
          calls

uartVars == <<uart, asked, read, calls>>

-----------------------------------------------------------------------------
(* Fields *)

DivEn      == {7}              \* of LCR
BreakEn    == {6}
Parity     == {3, 4, 5}
StopLength == {0, 1, 2}
EnhancedEn == {4}              \* of EFR
AutoRtsCts == {6, 7}
SpecialChar == {5}
SwFlow     == 0 .. 3
TcrTlr     == {6}              \* of MCR
XonEn      == {5}
Loopback   == {4}
ModemLines == 0 .. 3
Sleep      == {4}              \* of IER
FifoEn     == {0}              \* of FCR
ModeSelect == 0 .. 2           \* of MDR1; all ones: disabled
RxGranu1   == {7}              \* of SCR
TxGranu1   == {6}
DmaMode2   == {1, 2}
DmaCtl     == {0}
RxTrigger  == 4 .. 7           \* of TLR
TxTrigger  == 0 .. 3

ModeA == {7}
ModeB == {0, 1, 2, 3, 4, 5, 7}

-----------------------------------------------------------------------------
(* An access *)

Mode(u) == IF 7 \notin u.LCR THEN "operational"
           ELSE IF u.LCR = ModeB THEN "B" ELSE "A"

SubMode(u) == IF EnhancedEn \subseteq u.EFR /\ TcrTlr \subseteq u.MCR
              THEN "TCR_TLR" ELSE "MSR_SPR or XOFF"

\* The register that an access meant for r reaches
Reached(u, r) ==
    CASE r \in {"DLL", "THR"} -> IF Mode(u) = "operational" THEN "THR" ELSE "DLL"
      [] r \in {"DLH", "IER"} -> IF Mode(u) = "operational" THEN "IER" ELSE "DLH"
      [] r \in {"EFR", "FCR"} -> IF Mode(u) = "B" THEN "EFR" ELSE "FCR"
      [] r \in {"MCR", "XON1"} -> IF Mode(u) = "B" THEN "XON1" ELSE "MCR"
      [] r \in {"LSR", "XON2"} -> IF Mode(u) = "B" THEN "XON2" ELSE "LSR"
      [] r \in {"MSR", "TCR", "XOFF1"} ->
            IF SubMode(u) = "TCR_TLR" THEN "TCR"
            ELSE IF Mode(u) = "B" THEN "XOFF1" ELSE "MSR"
      [] r \in {"SPR", "TLR", "XOFF2"} ->
            IF SubMode(u) = "TCR_TLR" THEN "TLR"
            ELSE IF Mode(u) = "B" THEN "XOFF2" ELSE "SPR"
      [] OTHER -> r

\* The bits that a write to the register r leaves alone
Protected(u, r) ==
    CASE r = "IER" /\ EnhancedEn \cap u.EFR = {} -> 4 .. 7
      [] r = "MCR" /\ EnhancedEn \cap u.EFR = {} -> 5 .. 7
      [] r = "FCR" -> (IF EnhancedEn \cap u.EFR = {} THEN {4, 5} ELSE {})
                      \cup (IF u.DLL \cup u.DLH = {} THEN {} ELSE {0, 3})
      [] r \in {"DLL", "DLH"} /\ ~ (ModeSelect \subseteq u.MDR1) -> 0 .. 7
      [] r \in {"LSR", "MSR"} -> 0 .. 7
      [] OTHER -> {}

Read(u, r) == u[Reached(u, r)]

Write(u, r, bits) ==
    LET to == Reached(u, r) IN
    [u EXCEPT ![to] = (bits \ Protected(u, to)) \cup (@ \cap Protected(u, to))]

SetBits(u, r, bits)   == Write(u, r, Read(u, r) \cup bits)
ClearBits(u, r, bits) == Write(u, r, Read(u, r) \ bits)

\* Clear a field, then program it: the way nearly all functions write one
Program(u, r, field, value) == SetBits(ClearBits(u, r, field), r, value \cap field)

Shift(bits, n) == {b + n : b \in bits}

-----------------------------------------------------------------------------
(* The modes *)

UARTRegConfigModeEnable(u, mode) ==
    CASE mode = "A" -> Write(u, "LCR", ModeA)
      [] mode = "B" -> Write(u, "LCR", ModeB)
      [] mode = "operational" -> ClearBits(u, "LCR", DivEn)

UARTRegConfModeRestore(u, lcr) == Write(u, "LCR", lcr)

\* Access(_) in the given mode, and the mode put back after it
InMode(u, mode, Access(_)) ==
    UARTRegConfModeRestore(Access(UARTRegConfigModeEnable(u, mode)), u.LCR)

UARTEnhanFuncEnable(u) ==
    InMode(u, "B", LAMBDA v : SetBits(v, "EFR", EnhancedEn))

UARTEnhanFuncBitValRestore(u, bit) ==
    InMode(u, "B", LAMBDA v : Program(v, "EFR", EnhancedEn, bit))

\* EFR[4] set and the given mode chosen, and what is put back of both after it
Enter(u, mode) ==
    UARTRegConfigModeEnable(SetBits(UARTRegConfigModeEnable(u, "B"), "EFR", EnhancedEn), mode)

Leave(u, done) ==
    LET efr  == Read(UARTRegConfigModeEnable(u, "B"), "EFR")
        back == Program(UARTRegConfigModeEnable(done, "B"), "EFR", EnhancedEn, efr)
    IN  UARTRegConfModeRestore(back, u.LCR)

Enhanced(u, mode, Access(_)) == Leave(u, Access(Enter(u, mode)))

UARTSubConfigMSRSPRModeEn(u) ==
    Enhanced(u, "A", LAMBDA v : ClearBits(v, "MCR", TcrTlr))
UARTSubConfigTCRTLRModeEn(u) ==
    Enhanced(u, "A", LAMBDA v : SetBits(v, "MCR", TcrTlr))
UARTSubConfigXOFFModeEn(u) ==
    Enhanced(u, "A", LAMBDA v : ClearBits(v, "MCR", TcrTlr))
UARTTCRTLRBitValRestore(u, bit) ==
    Enhanced(u, "A", LAMBDA v : Program(v, "MCR", TcrTlr, bit))

UARTOperatingModeSelect(u, mode) == Program(u, "MDR1", ModeSelect, mode)

-----------------------------------------------------------------------------
(* The baud rate *)

\* The divisor of UARTDivisorValCompute, for the modes that have one
UARTDivisorValCompute(clock, baud, mode, overSampling) ==
    CASE mode \in {"16x", "SIR"} -> clock \div (16 * baud)
      [] mode = "13x" -> clock \div (13 * baud)
      [] mode = "MIR" -> clock \div (overSampling * baud)
      [] OTHER -> 0

\* A divisor is a set of bits as well: DLL has the lower 8, DLH the next 6.
Low(d)  == d \cap 0 .. 7
High(d) == Shift(d \cap 8 .. 13, -8)

\* Mutant: the sleep mode, which must be off while the divisor is written, is
\* not put back.
DivisorWriteStaysAwake(u, d) ==
    Enhanced(u, "operational", LAMBDA v :
        LET awake   == ClearBits(v, "IER", Sleep)
            inB     == UARTRegConfigModeEnable(awake, "B")
            stopped == UARTOperatingModeSelect(inB, ModeSelect)
            written == Write(Write(stopped, "DLL", Low(d)), "DLH", High(d))
        IN  UARTOperatingModeSelect(written, Read(inB, "MDR1")))

UARTDivisorLatchWrite(u, d) ==
    Enhanced(u, "operational", LAMBDA v :
        LET awake   == ClearBits(v, "IER", Sleep)
            inB     == UARTRegConfigModeEnable(awake, "B")
            stopped == UARTOperatingModeSelect(inB, ModeSelect)
            written == Write(Write(stopped, "DLL", Low(d)), "DLH", High(d))
            going   == UARTOperatingModeSelect(written, Read(inB, "MDR1"))
        IN  SetBits(UARTRegConfigModeEnable(going, "operational"), "IER",
                    Read(v, "IER") \cap Sleep))

\* The divisor that UARTDivisorLatchWrite finds and returns
DivisorLatch(u) == u.DLL \cup Shift(u.DLH \cap 0 .. 5, 8)

UARTDivisorLatchEnable(u)  == SetBits(u, "LCR", DivEn)
UARTDivisorLatchDisable(u) == ClearBits(u, "LCR", DivEn)

-----------------------------------------------------------------------------
(* The frame *)

UARTBreakCtl(u, state) == Program(u, "LCR", BreakEn, state)

UARTParityModeSet(u, parity) == Program(u, "LCR", Parity, parity)

UARTLineCharacConfig(u, frame, parity) ==
    UARTParityModeSet(Program(u, "LCR", StopLength, frame), parity)

-----------------------------------------------------------------------------
(* The FIFOs *)

UARTFIFORegisterWrite(u, fcr) ==
    InMode(u, "A", LAMBDA v :
        UARTDivisorLatchWrite(Write(UARTDivisorLatchWrite(v, {}), "FCR", fcr),
                              DivisorLatch(u)))

\* One direction of UARTFIFOConfig: a granularity of 1 or of 4, and a level.
\* A level that is code is a value of the field of FCR; others go to TLR.
Coarse(u, granu, field, inTlr, level, code) ==
    LET v == ClearBits(ClearBits(u, "SCR", granu), "TLR", field)
    IN  IF code THEN v ELSE SetBits(v, "TLR", Shift(level, inTlr) \cap field)

Fine(u, granu, inTlr, level) ==
    SetBits(SetBits(u, "SCR", granu), "TLR", Shift(level \cap 2 .. 5, inTlr - 2))

FcrPart(fine, level, code, inFcr) ==
    IF fine THEN Shift(level \cap {0, 1}, inFcr) ELSE IF code THEN level ELSE {}

\* The values that FCR has a level for
RxCode(c) == c.rxTrig \subseteq {6, 7}
TxCode(c) == c.txTrig \subseteq {4, 5}

FifoFcr(c) ==
    FifoEn \cup FcrPart(c.rxFine, c.rxTrig, RxCode(c), 6)
           \cup FcrPart(c.txFine, c.txTrig, TxCode(c), 4)
           \cup (IF c.viaScr THEN {} ELSE Shift(c.dmaMode \cap {0}, 3))
           \cup (IF c.clear THEN {1, 2} ELSE {})

UARTFIFOConfig(u, c) ==
    LET sub == UARTSubConfigTCRTLRModeEn(u)
        rx  == IF c.rxFine THEN Fine(sub, RxGranu1, 4, c.rxTrig)
               ELSE Coarse(sub, RxGranu1, RxTrigger, 4, c.rxTrig, RxCode(c))
        tx  == IF c.txFine THEN Fine(rx, TxGranu1, 0, c.txTrig)
               ELSE Coarse(rx, TxGranu1, TxTrigger, 0, c.txTrig, TxCode(c))
        dma == IF c.viaScr
               THEN SetBits(ClearBits(SetBits(tx, "SCR", DmaCtl), "SCR", DmaMode2),
                            "SCR", Shift(c.dmaMode \cap {0, 1}, 1))
               ELSE ClearBits(tx, "SCR", DmaCtl)
    IN  UARTTCRTLRBitValRestore(UARTFIFORegisterWrite(dma, FifoFcr(c)),
                                Read(UARTRegConfigModeEnable(u, "A"), "MCR"))

UARTDMAEnable(u, mode) ==
    Program(SetBits(u, "SCR", DmaCtl), "SCR", DmaMode2, Shift(mode, 1))
UARTDMADisable(u) == ClearBits(SetBits(u, "SCR", DmaCtl), "SCR", DmaMode2)

UARTFIFOTrigLvlGranControl(u, rx, tx) ==
    SetBits(SetBits(ClearBits(u, "SCR", RxGranu1 \cup TxGranu1),
                    "SCR", rx \cap RxGranu1), "SCR", tx \cap TxGranu1)

-----------------------------------------------------------------------------
(* Interrupts and characters *)

\* IER[3:0] is written in whatever mode the caller was in.
UARTIntEnable(u, flags) ==
    SetBits(Enhanced(u, "operational", LAMBDA v : SetBits(v, "IER", flags \cap 4 .. 7)),
            "IER", flags \cap 0 .. 3)

UARTIntDisable(u, flags) ==
    Enhanced(u, "operational", LAMBDA v : ClearBits(v, "IER", flags))

TxEmpty   == {5, 6}            \* of LSR: FIFO and shift register
RxWaiting == {0}

PutChar(u, char) == InMode(u, "operational", LAMBDA v : Write(v, "THR", char))

\* It waits until the transmitter is empty.
UARTCharPut(u, char) == PutChar(u, char)

\* ready: what LSR says of the transmitter or of the receiver
UARTCharPutNonBlocking(u, char, ready) == IF ready THEN PutChar(u, char) ELSE u

-----------------------------------------------------------------------------
(* Flow control, and fields that are programmed in the caller's mode *)

UARTAutoRTSAutoCTSControl(u, cts, rts) ==
    InMode(u, "B", LAMBDA v :
        SetBits(SetBits(ClearBits(v, "EFR", AutoRtsCts), "EFR", cts \cap {7}),
                "EFR", rts \cap {6}))
UARTSpecialCharDetectControl(u, flag) ==
    InMode(u, "B", LAMBDA v : Program(v, "EFR", SpecialChar, flag))
UARTSoftwareFlowCtrlOptSet(u, option) ==
    InMode(u, "B", LAMBDA v : Program(v, "EFR", SwFlow, option))

UARTFlowCtrlTrigLvlConfig(u, halt, start) ==
    Write(u, "TCR", (halt \cap 0 .. 3) \cup (Shift(start, 4) \cap 4 .. 7))

UARTXON1XOFF1ValProgram(u, xon, xoff) == Write(Write(u, "XON1", xon), "XOFF1", xoff)
UARTXON2XOFF2ValProgram(u, xon, xoff) == Write(Write(u, "XON2", xon), "XOFF2", xoff)

\* MCR is accessed without leaving mode B, where its offset is that of XON1.
UARTXONAnyFeatureControl(u, flag) ==
    Enhanced(u, "B", LAMBDA v : Program(v, "MCR", XonEn, flag))

UARTModemControlSet(u, lines)   == SetBits(u, "MCR", lines \cap ModemLines)
UARTModemControlClear(u, lines) == ClearBits(u, "MCR", lines \cap ModemLines)

UARTWakeUpEventsEnable(u, events)  == SetBits(u, "WER", events)
UARTWakeUpEventsDisable(u, events) == ClearBits(u, "WER", events)

\* The functions that program one field in the mode in which they are called
SyscFields ==
    [UARTIdleModeConfigure   |-> [reg |-> "SYSC", field |-> {3, 4}],
     UARTWakeUpControl       |-> [reg |-> "SYSC", field |-> {2}],
     UARTAutoIdleModeControl |-> [reg |-> "SYSC", field |-> {0}]]

ScrFields ==
    [UARTDSRInterruptControl     |-> [reg |-> "SCR", field |-> {5}],
     UARTTxEmptyIntControl       |-> [reg |-> "SCR", field |-> {3}],
     UARTRXCTSDSRWakeUpConfigure |-> [reg |-> "SCR", field |-> {4}]]

ThresholdFields ==
    [UARTTxDMAThresholdControl   |-> [reg |-> "MDR3", field |-> {2}],
     UARTTxDMAThresholdValConfig |-> [reg |-> "DMATHR", field |-> 0 .. 5]]

OtherFields ==
    [UARTPulseShapingControl    |-> [reg |-> "MDR2", field |-> {3}],
     UARTLoopbackModeControl    |-> [reg |-> "MCR", field |-> Loopback],
     UARTDMACounterResetControl |-> [reg |-> "SSR", field |-> {2}],
     UARTScratchPadRegWrite     |-> [reg |-> "SPR", field |-> 0 .. 7]]

FieldTables == {SyscFields, ScrFields, ThresholdFields, OtherFields}
FieldCalls  == UNION {DOMAIN t : t \in FieldTables}
FieldOf(fn) == LET t == CHOOSE t \in FieldTables : fn \in DOMAIN t IN t[fn]

-----------------------------------------------------------------------------
(* What is read: in a mode of the function's choosing, or in the caller's *)

LsrReads ==
    [UARTSpaceAvail |-> [in |-> "operational", reg |-> "LSR", field |-> TxEmpty],
     UARTCharsAvail |-> [in |-> "operational", reg |-> "LSR", field |-> RxWaiting]]

\* Both functions that get a character, the one that waits for it and the other
CharReads ==
    [UARTCharGetNonBlocking |-> [in |-> "operational", reg |-> "RHR", field |-> 0 .. 7],
     UARTCharGet            |-> [in |-> "operational", reg |-> "RHR", field |-> 0 .. 7]]

IirReads ==
    [UARTRxErrorGet          |-> [in |-> "operational", reg |-> "LSR", field |-> {1, 2, 3, 4, 7}],
     UARTIntIdentityGet      |-> [in |-> "operational", reg |-> "IIR", field |-> 1 .. 5],
     UARTIntPendingStatusGet |-> [in |-> "operational", reg |-> "IIR", field |-> {0}],
     UARTFIFOEnableStatusGet |-> [in |-> "operational", reg |-> "IIR", field |-> {6, 7}]]

StatusReads ==
    [UARTModemStatusGet         |-> [in |-> "any", reg |-> "MSR", field |-> 4 .. 7],
     UARTModemStatusChangeCheck |-> [in |-> "any", reg |-> "MSR", field |-> 0 .. 3],
     UARTResumeOperation        |-> [in |-> "any", reg |-> "RESUME", field |-> 0 .. 7]]

SsrReads ==
    [UARTRXCTSDSRTransitionStatusGet |-> [in |-> "any", reg |-> "SSR", field |-> {1}],
     UARTTxFIFOFullStatusGet         |-> [in |-> "any", reg |-> "SSR", field |-> {0}]]

AutobaudReads ==
    [UARTAutobaudParityGet  |-> [in |-> "A", reg |-> "UASR", field |-> {6, 7}],
     UARTAutobaudWordLenGet |-> [in |-> "A", reg |-> "UASR", field |-> {5}],
     UARTAutobaudSpeedGet   |-> [in |-> "A", reg |-> "UASR", field |-> 0 .. 4]]

OtherReads ==
    [UARTParityModeGet          |-> [in |-> "any", reg |-> "LCR", field |-> Parity],
     UARTScratchPadRegRead      |-> [in |-> "any", reg |-> "SPR", field |-> 0 .. 7],
     UARTModuleVersionNumberGet |-> [in |-> "any", reg |-> "MVR", field |-> 0 .. 7]]

ReadTables == {LsrReads, CharReads, IirReads, StatusReads, SsrReads, AutobaudReads, OtherReads}
ReadCalls  == UNION {DOMAIN t : t \in ReadTables}
ReadOf(fn) == LET t == CHOOSE t \in ReadTables : fn \in DOMAIN t IN t[fn]

\* The registers that are only read are not in UartRegisters.
ReachedByRead(u, r) ==
    CASE r = "IIR"  -> IF Mode(u) = "B" THEN "EFR" ELSE "IIR"
      [] r = "UASR" -> IF Mode(u) = "operational" THEN "BLR" ELSE "UASR"
      [] r = "RHR"  -> IF Mode(u) = "operational" THEN "RHR" ELSE "DLL"
      [] OTHER -> Reached(u, r)

Found(u, in, reg) ==
    ReachedByRead(IF in = "any" THEN u ELSE UARTRegConfigModeEnable(u, in), reg)

-----------------------------------------------------------------------------
(* Reset, and the console *)

\* What the module holds after a soft reset
UARTModuleReset(u) ==
    [r \in UartRegisters |-> IF r = "MDR1" THEN ModeSelect ELSE {}]

BitsOf(n) == {b \in 0 .. 13 : (n \div 2 ^ b) % 2 = 1}

ConsoleDivisor == BitsOf(UARTDivisorValCompute(48000000, 115200, "16x", 42))

bwio_uart_setup(u) ==
    LET rate  == UARTDivisorLatchWrite(UARTModuleReset(u), ConsoleDivisor)
        inB   == UARTRegConfigModeEnable(rate, "B")
        frame == UARTLineCharacConfig(inB, {0, 1}, {})
        data  == UARTDivisorLatchDisable(frame)
    IN  UARTOperatingModeSelect(UARTBreakCtl(data, {}), {})

-----------------------------------------------------------------------------
(* The calls *)

\* The states in which a caller may have left the UART after a reset: in any
\* mode, with or without EFR[4], MCR[6] and a bit that EFR[4] protects
UartInit ==
    /\ \E lcr \in {{0, 1}, ModeA, ModeB}, efr \in {{}, EnhancedEn}, mcr \in {{}, TcrTlr},
          ier \in {{}, Sleep} :
          uart = [r \in UartRegisters |->
                     CASE r = "LCR" -> lcr [] r = "EFR" -> efr [] r = "MCR" -> mcr
                       [] r = "IER" -> ier [] r = "DLL" -> {1, 3, 4}
                       [] OTHER -> {}]
    /\ asked = [fn |-> "none", arg |-> {}]
    /\ read = [reg |-> "none", field |-> {}]
    /\ calls = 0

Does(fn, arg, u) ==
    /\ calls < MaxCalls
    /\ calls' = calls + 1
    /\ asked' = [fn |-> fn, arg |-> arg]
    /\ uart' = u
    /\ UNCHANGED read

Reads(fn, in, reg, field) ==
    /\ calls < MaxCalls
    /\ calls' = calls + 1
    /\ asked' = [fn |-> fn, arg |-> {}]
    /\ read' = [reg |-> Found(uart, in, reg), field |-> field]
    /\ UNCHANGED uart

ModeCall ==
    \/ \E m \in {"A", "B", "operational"} :
          Does("UARTRegConfigModeEnable", m, UARTRegConfigModeEnable(uart, m))
    \/ Does("UARTEnhanFuncEnable", {}, UARTEnhanFuncEnable(uart))
    \/ Does("UARTSubConfigMSRSPRModeEn", {}, UARTSubConfigMSRSPRModeEn(uart))
    \/ Does("UARTSubConfigTCRTLRModeEn", {}, UARTSubConfigTCRTLRModeEn(uart))
    \/ Does("UARTSubConfigXOFFModeEn", {}, UARTSubConfigXOFFModeEn(uart))
    \/ \E bit \in {{}, {4, 6}} :
          \/ Does("UARTEnhanFuncBitValRestore", bit, UARTEnhanFuncBitValRestore(uart, bit))
          \/ Does("UARTTCRTLRBitValRestore", bit, UARTTCRTLRBitValRestore(uart, bit))
    \/ \E mode \in {{}, {0, 1}} :
          Does("UARTOperatingModeSelect", mode, UARTOperatingModeSelect(uart, mode))

FrameCall ==
    \/ Does("UARTDivisorLatchEnable", {}, UARTDivisorLatchEnable(uart))
    \/ Does("UARTDivisorLatchDisable", {}, UARTDivisorLatchDisable(uart))
    \/ \E d \in {BitsOf(26), BitsOf(312)} :
          Does("UARTDivisorLatchWrite", d, UARTDivisorLatchWrite(uart, d))
    \/ \E state \in {{}, BreakEn} : Does("UARTBreakCtl", state, UARTBreakCtl(uart, state))
    \/ \E parity \in {{}, {3}, {3, 4, 5}} :
          \/ Does("UARTParityModeSet", parity, UARTParityModeSet(uart, parity))
          \/ \E frame \in {{}, {0, 1, 2}} :
                Does("UARTLineCharacConfig", frame \cup parity,
                     UARTLineCharacConfig(uart, frame, parity))

\* Trigger levels: one that FCR has and one for TLR in each direction
FifoConfigs ==
    [rxFine : BOOLEAN, txFine : BOOLEAN, rxTrig : {{0, 3}, {6}},
     txTrig : {{1, 2}, {5}}, viaScr : BOOLEAN, dmaMode : {{0}}, clear : {FALSE}]

FifoCall ==
    \/ \E c \in FifoConfigs : Does("UARTFIFOConfig", c, UARTFIFOConfig(uart, c))
    \/ \E fcr \in {{}, {0, 3, 5, 6}} :
          Does("UARTFIFORegisterWrite", fcr, UARTFIFORegisterWrite(uart, fcr))
    \/ \E mode \in {{}, {0, 1}} : Does("UARTDMAEnable", mode, UARTDMAEnable(uart, mode))
    \/ Does("UARTDMADisable", {}, UARTDMADisable(uart))
    \/ \E g \in {{}, {6}, {7}} :
          Does("UARTFIFOTrigLvlGranControl", g, UARTFIFOTrigLvlGranControl(uart, g, g))

InterruptCall ==
    \E flags \in {{0, 2}, {4, 7}, 0 .. 7} :
        \/ Does("UARTIntEnable", flags, UARTIntEnable(uart, flags))
        \/ Does("UARTIntDisable", flags, UARTIntDisable(uart, flags))

CharCall ==
    \/ Does("UARTCharPut", {0, 6}, UARTCharPut(uart, {0, 6}))
    \/ \E ready \in BOOLEAN :
          Does("UARTCharPutNonBlocking", IF ready THEN {0, 6} ELSE uart.THR,
               UARTCharPutNonBlocking(uart, {0, 6}, ready))

FlowCall ==
    \/ \E cts \in {{}, {7}}, rts \in {{}, {6}} :
          Does("UARTAutoRTSAutoCTSControl", cts \cup rts,
               UARTAutoRTSAutoCTSControl(uart, cts, rts))
    \/ \E on \in BOOLEAN :
          LET If(bits) == IF on THEN bits ELSE {} IN
          \/ Does("UARTSpecialCharDetectControl", If({5}),
                  UARTSpecialCharDetectControl(uart, If({5})))
          \/ Does("UARTSoftwareFlowCtrlOptSet", If({1, 3}),
                  UARTSoftwareFlowCtrlOptSet(uart, If({1, 3})))
          \/ Does("UARTXONAnyFeatureControl", If({5}),
                  UARTXONAnyFeatureControl(uart, If({5})))
          \/ Does("UARTModemControlSet", If({1}), UARTModemControlSet(uart, If({1})))
          \/ Does("UARTModemControlClear", If({1}), UARTModemControlClear(uart, If({1})))
          \/ Does("UARTWakeUpEventsEnable", If({2}), UARTWakeUpEventsEnable(uart, If({2})))
          \/ Does("UARTWakeUpEventsDisable", If({2}), UARTWakeUpEventsDisable(uart, If({2})))
    \/ Does("UARTFlowCtrlTrigLvlConfig", {0, 3, 6}, UARTFlowCtrlTrigLvlConfig(uart, {0, 3}, {2}))
    \/ Does("UARTXON1XOFF1ValProgram", {0}, UARTXON1XOFF1ValProgram(uart, {0}, {0}))
    \/ Does("UARTXON2XOFF2ValProgram", {0}, UARTXON2XOFF2ValProgram(uart, {0}, {0}))

FieldCall ==
    \E fn \in FieldCalls, value \in {{}, 0 .. 7} :
        Does(fn, value, Program(uart, FieldOf(fn).reg, FieldOf(fn).field, value))

ReadCall ==
    \E fn \in ReadCalls : Reads(fn, ReadOf(fn).in, ReadOf(fn).reg, ReadOf(fn).field)

SetupCall ==
    \/ Does("UARTModuleReset", {}, UARTModuleReset(uart))
    \/ Does("bwio_uart_setup", {}, bwio_uart_setup(uart))

UartNext == \/ ModeCall \/ FrameCall \/ FifoCall \/ InterruptCall \/ CharCall
            \/ FlowCall \/ FieldCall \/ ReadCall \/ SetupCall

UartSpec == UartInit /\ [][UartNext]_uartVars

-----------------------------------------------------------------------------
(* Properties *)

Called == calls' # calls

\* Whether the field is the one that the call asked for has to be said without
\* the modes: each register as if it had an offset of its own.
Field(u, r, field, value) == [u EXCEPT ![r] = (@ \ field) \cup (value \cap field)]

\* The trigger level of one direction
Level(u, fine, code, tlr, inTlr, level) ==
    IF fine THEN Field(u, "TLR", tlr, Shift(level \cap 2 .. 5, inTlr - 2))
    ELSE Field(u, "TLR", tlr, IF code THEN {} ELSE Shift(level, inTlr))

FifoPromise(u, c) ==
    LET scr == Field(u, "SCR", RxGranu1 \cup TxGranu1 \cup DmaCtl,
                     (IF c.rxFine THEN RxGranu1 ELSE {}) \cup
                     (IF c.txFine THEN TxGranu1 ELSE {}) \cup
                     (IF c.viaScr THEN DmaCtl ELSE {}))
        dma == IF c.viaScr THEN Field(scr, "SCR", DmaMode2, Shift(c.dmaMode, 1)) ELSE scr
        rx  == Level(dma, c.rxFine, RxCode(c), RxTrigger, 4, c.rxTrig)
        tx  == Level(rx, c.txFine, TxCode(c), TxTrigger, 0, c.txTrig)
    IN  [tx EXCEPT !.FCR = FifoFcr(c)]

Promise(u, fn, x) ==
    CASE fn = "UARTRegConfigModeEnable" ->
            [u EXCEPT !.LCR = CASE x = "A" -> ModeA [] x = "B" -> ModeB [] OTHER -> @ \ DivEn]
      [] fn = "UARTEnhanFuncEnable" -> [u EXCEPT !.EFR = @ \cup EnhancedEn]
      [] fn = "UARTEnhanFuncBitValRestore" -> Field(u, "EFR", EnhancedEn, x)
      [] fn \in {"UARTSubConfigMSRSPRModeEn", "UARTSubConfigXOFFModeEn"} ->
            [u EXCEPT !.MCR = @ \ TcrTlr]
      [] fn = "UARTSubConfigTCRTLRModeEn" -> [u EXCEPT !.MCR = @ \cup TcrTlr]
      [] fn = "UARTTCRTLRBitValRestore" -> Field(u, "MCR", TcrTlr, x)
      [] fn = "UARTOperatingModeSelect" -> Field(u, "MDR1", ModeSelect, x)
      [] fn = "UARTDivisorLatchEnable" -> [u EXCEPT !.LCR = @ \cup DivEn]
      [] fn = "UARTDivisorLatchDisable" -> [u EXCEPT !.LCR = @ \ DivEn]
      [] fn = "UARTDivisorLatchWrite" -> [u EXCEPT !.DLL = Low(x), !.DLH = High(x)]
      [] fn = "UARTBreakCtl" -> Field(u, "LCR", BreakEn, x)
      [] fn = "UARTParityModeSet" -> Field(u, "LCR", Parity, x)
      [] fn = "UARTLineCharacConfig" -> Field(u, "LCR", StopLength \cup Parity, x)
      [] fn = "UARTFIFOConfig" -> FifoPromise(u, x)
      [] fn = "UARTFIFORegisterWrite" -> [u EXCEPT !.FCR = x]
      [] fn = "UARTDMAEnable" ->
            Field(u, "SCR", DmaCtl \cup DmaMode2, DmaCtl \cup Shift(x, 1))
      [] fn = "UARTDMADisable" -> Field(u, "SCR", DmaCtl \cup DmaMode2, DmaCtl)
      [] fn = "UARTFIFOTrigLvlGranControl" -> Field(u, "SCR", RxGranu1 \cup TxGranu1, x)
      [] fn = "UARTIntEnable" -> [u EXCEPT !.IER = @ \cup x]
      [] fn = "UARTIntDisable" -> [u EXCEPT !.IER = @ \ x]
      [] fn \in {"UARTCharPut", "UARTCharPutNonBlocking"} -> [u EXCEPT !.THR = x]
      [] fn = "UARTAutoRTSAutoCTSControl" -> Field(u, "EFR", AutoRtsCts, x)
      [] fn = "UARTSpecialCharDetectControl" -> Field(u, "EFR", SpecialChar, x)
      [] fn = "UARTSoftwareFlowCtrlOptSet" -> Field(u, "EFR", SwFlow, x)
      [] fn = "UARTXONAnyFeatureControl" -> Field(u, "MCR", XonEn, x)
      [] fn = "UARTModemControlSet" -> [u EXCEPT !.MCR = @ \cup x]
      [] fn = "UARTModemControlClear" -> [u EXCEPT !.MCR = @ \ x]
      [] fn = "UARTWakeUpEventsEnable" -> [u EXCEPT !.WER = @ \cup x]
      [] fn = "UARTWakeUpEventsDisable" -> [u EXCEPT !.WER = @ \ x]
      [] fn = "UARTFlowCtrlTrigLvlConfig" -> [u EXCEPT !.TCR = x]
      [] fn = "UARTXON1XOFF1ValProgram" -> [u EXCEPT !.XON1 = x, !.XOFF1 = x]
      [] fn = "UARTXON2XOFF2ValProgram" -> [u EXCEPT !.XON2 = x, !.XOFF2 = x]
      [] fn \in FieldCalls -> Field(u, FieldOf(fn).reg, FieldOf(fn).field, x)
      [] OTHER -> u

\* What a caller has to see to: functions that do not choose a mode are called
\* in one where their registers are reached, and nothing is promised of the
\* others named here (README, section 6).
Reachable(u, fn, x) ==
    CASE fn = "UARTXONAnyFeatureControl" -> FALSE
      [] fn = "UARTFIFOConfig" ->
            /\ EnhancedEn \subseteq u.EFR
            /\ x.rxFine => RxTrigger \cap u.TLR = {}
            /\ x.txFine => TxTrigger \cap u.TLR = {}
      [] fn = "UARTFIFORegisterWrite" -> EnhancedEn \subseteq u.EFR
      [] fn = "UARTIntEnable" -> x \cap 0 .. 3 = {} \/ Mode(u) = "operational"
      [] fn \in {"UARTModemControlSet", "UARTModemControlClear"} -> Mode(u) # "B"
      [] fn = "UARTFlowCtrlTrigLvlConfig" -> SubMode(u) = "TCR_TLR"
      [] fn \in {"UARTXON1XOFF1ValProgram", "UARTXON2XOFF2ValProgram"} ->
            Mode(u) = "B" /\ SubMode(u) # "TCR_TLR"
      [] fn \in FieldCalls -> Reached(u, FieldOf(fn).reg) = FieldOf(fn).reg
      [] OTHER -> TRUE

\* The console comes up at 115200 baud, 8N1, ready for data.
ConsoleReady ==
    [UARTModuleReset(uart) EXCEPT !.LCR = {0, 1}, !.MDR1 = {}, !.DLL = BitsOf(26)]

\* Whatever mode the UART is in, a function changes exactly the fields it is
\* for, and sets them as asked: no access lands in a register that shares the
\* offset, no write is lost because EFR[4] or the running clock protects the
\* bits, and LCR, EFR[4], MCR[6], the sleep bit, the divisor and the operating
\* mode are all put back.  A function that chooses the mode in which it reads
\* finds its register; and the console is set up whatever the boot loader left.
CallAsAsked ==
    Called =>
      LET fn == asked'.fn IN
      /\ fn \notin {"UARTModuleReset", "bwio_uart_setup"}
         /\ Reachable(uart, fn, asked'.arg)
         => uart' = Promise(uart, fn, asked'.arg)
      /\ fn \in ReadCalls /\ ReadOf(fn).in # "any"
         => read' = [reg |-> ReadOf(fn).reg, field |-> ReadOf(fn).field]
      /\ fn = "bwio_uart_setup" => uart' = ConsoleReady

UartAsAsked == [][CallAsAsked]_uartVars
=============================================================================
