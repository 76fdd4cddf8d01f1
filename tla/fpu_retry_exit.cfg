\* A task uses the FPU for the first time while no other task is ready.
SPECIFICATION Spec
CONSTANTS
    MaxTasks = 3
    NPriorities = 3
    SeqCount = 2
    InitPrio = 1
    Irqs = {}
    NoIrq = no_irq
    CreatePrios = {0, 1}
    Calls = {"Create", "Query", "FpuTrap"}
    CbResults = {"wake"}
INVARIANT HaltJustified
