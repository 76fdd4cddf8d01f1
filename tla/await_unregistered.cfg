\* A task may call AwaitEvent without a registered event.
SPECIFICATION SpecAny
CONSTANTS
    MaxTasks = 3
    NPriorities = 4
    SeqCount = 2
    InitPrio = 0
    Irqs = {i1}
    NoIrq = no_irq
    CreatePrios = {0, 1}
    Calls = {"Create", "Query", "RegisterEvent", "AwaitEvent"}
    CbResults = {"wake"}
INVARIANT NoAssertFails
