------------------------------ MODULE MCBoard ------------------------------
(***************************************************************************)
(* The components that are checked each by itself, for TLC: they share no   *)
(* state, so the first state says which of them runs and the others stay    *)
(* where they start.  The properties are those that the components state.   *)
(***************************************************************************)
EXTENDS BlinkServer, Uart, Gpio, DMTimer, Intc, ClockTree

CONSTANTS FirstTask, FirstPins

VARIABLE part

\* Which task has which pin
Owners == [p \in Pins |-> IF p \in FirstPins THEN FirstTask
                          ELSE CHOOSE t \in GpioTasks : t # FirstTask]

ASSUME MCBoardAssumption ==
    BlinkAssumption /\ UartAssumption /\ GpioAssumption /\ DMTimerAssumption /\ IntcAssumption

\* A part that does not run is in one of its first states, or switched off,
\* when its variables are 0 but for those in which its properties see that.
NoUart == uart = 0 /\ asked = 0 /\ read = 0 /\ calls = 0
NoTimer == /\ use = "none" /\ tmr = 0 /\ phase = 0 /\ job = 0 /\ held = 0
           /\ kept = 0 /\ wanted = 0 /\ clocks = 0 /\ dmCalls = 0
NoController == /\ at = "over" /\ nested = << >> /\ intc = 0 /\ lines = 0
                /\ latched = 0 /\ cpsr = 0 /\ cur = 0 /\ awaiting = 0
                /\ owned = 0 /\ set = 0 /\ intcCalls = 0
NoClocks == script = SubSeq(pll_setup, 1, 1) /\ step = 1 /\ prcm = 0

Init ==
    /\ part \in {"blink", "uart", "gpio", "dmtimer", "intc", "clocktree"}
    /\ BlinkInit
    /\ IF part = "uart" THEN UartInit ELSE NoUart
    /\ GpioInit /\ (part # "gpio" => gpio = Registers(FALSE))
    /\ IF part = "dmtimer" THEN DmInit ELSE NoTimer
    /\ IF part = "intc" THEN IntcInit ELSE NoController
    /\ IF part = "clocktree" THEN ClockTreeInit ELSE NoClocks

OnlyBlink == UNCHANGED <<part, uartVars, gpioVars, dmVars, intcVars, clkTreeVars>>
OnlyUart == UNCHANGED <<part, blinkVars, gpioVars, dmVars, intcVars, clkTreeVars>>
OnlyGpio == UNCHANGED <<part, blinkVars, uartVars, dmVars, intcVars, clkTreeVars>>
OnlyTimer == UNCHANGED <<part, blinkVars, uartVars, gpioVars, intcVars, clkTreeVars>>
OnlyController == UNCHANGED <<part, blinkVars, uartVars, gpioVars, dmVars, clkTreeVars>>
OnlyClocks == UNCHANGED <<part, blinkVars, uartVars, gpioVars, dmVars, intcVars>>

Next ==
    \/ part = "blink" /\ OnlyBlink /\ BlinkNext
    \/ part = "uart" /\ OnlyUart /\ UartNext
    \/ part = "gpio" /\ OnlyGpio /\ GpioNext
    \/ part = "dmtimer" /\ OnlyTimer /\ DmNext
    \/ part = "intc" /\ OnlyController /\ IntcNext
    \/ part = "clocktree" /\ OnlyClocks /\ ClockTreeNext

Spec == Init /\ [][Next]_<<part, blinkVars, uartVars, gpioVars, dmVars, intcVars, clkTreeVars>>
=============================================================================
