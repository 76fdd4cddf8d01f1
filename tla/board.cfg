\* The blink server for two minutes and some seconds, late by up to three
\* quarters of a second; two calls of the UART's driver after any state it can
\* meet; two tasks with a pin each; a timer of eight counts; an interrupt
\* controller of two registers with two IRQs each.
SPECIFICATION Spec
CONSTANTS
    MaxLag = 3
    Grain = 250
    MaxTime = 125000
    MaxCalls = 2
    GpioTasks = {t1, t2}
    Pins = {p1, p2}
    Owner <- Owners
    FirstTask = t1
    FirstPins = {p1}
    MaxGpioCalls = 3
    TimerModulus = 8
    ClocksPerMs = 5
    MaxDmCalls = 3
    Banks = 2
    BankBits = 2
    MaxIntc = 4
INVARIANTS
    BlinksInTime
    
    
    IrqsFindWaiters
    IntcAsAsked
    ClocksComeUp
PROPERTIES
    UartAsAsked
    TimersKeepTime
\* The bounds on time and on calls end each of them.
CHECK_DEADLOCK FALSE
