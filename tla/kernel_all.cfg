\* Every system call, two IRQs, callbacks of both kinds, priorities in and out
\* of range.
SPECIFICATION Spec
CONSTANTS
    MaxTasks = 3
    NPriorities = 3
    SeqCount = 2
    InitPrio = 1
    Irqs = {i1, i2}
    NoIrq = no_irq
    CreatePrios = {0, 1, 3}
    Calls = {"Create", "Query", "Exit", "Undef", "Send", "Receive", "Reply",
             "RegisterCleanup", "RegisterEvent", "AwaitEvent", "Shutdown",
             "Panic"}
    CbResults = {"wake", "ignore"}
INVARIANTS
    TypeOK
    NoAssertFails
    CountersExact
    EventOwnership
    RunsHighest
    HaltJustified
\* An ignored IRQ is never acknowledged, so the idle task may spin for ever.
CHECK_DEADLOCK FALSE
