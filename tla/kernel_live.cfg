\* Liveness: three user tasks, one of them serving an IRQ.
SPECIFICATION FairSpec
CONSTANTS
    MaxTasks = 4
    NPriorities = 3
    SeqCount = 2
    InitPrio = 1
    Irqs = {i1}
    NoIrq = no_irq
    CreatePrios = {0, 1}
    Calls = {"Create", "Query", "Send", "Receive", "Reply", "RegisterEvent",
             "AwaitEvent"}
    CbResults = {"wake"}
PROPERTIES
    NoStarvation
    IrqServed
