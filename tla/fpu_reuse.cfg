\* A task that used the FPU exits and its descriptor is used again.
SPECIFICATION FpSpec
CONSTANTS
    MaxTasks = 3
    NPriorities = 3
    SeqCount = 4
    InitPrio = 1
    Irqs = {}
    NoIrq = no_irq
    CreatePrios = {0, 1}
    Calls = {"Create", "Query", "Exit", "FpuTrap"}
    CbResults = {"wake"}
    StaleFlags = {}
INVARIANT FpuPrivate
