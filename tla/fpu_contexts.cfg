\* Three user tasks use the FPU, exit, are killed and followed by others.
SPECIFICATION FpSpec
CONSTANTS
    MaxTasks = 4
    NPriorities = 3
    SeqCount = 2
    InitPrio = 1
    Irqs = {i1}
    NoIrq = no_irq
    CreatePrios = {0, 1}
    Calls = {"Create", "Exit", "Undef", "Query", "RegisterEvent", "AwaitEvent", "FpuTrap"}
    CbResults = {"wake"}
    StaleFlags = {}

    
PROPERTY FreshOnce
