\* Message passing between three user tasks of two priorities, created and
\* exiting, with TIDs that wrap after two incarnations.
SPECIFICATION Spec
CONSTANTS
    MaxTasks = 4
    NPriorities = 3
    SeqCount = 2
    InitPrio = 1
    Irqs = {}
    NoIrq = no_irq
    CreatePrios = {0, 1}
    Calls = {"Create", "Exit", "Send", "Receive", "Reply", "FpuTrap"}
    CbResults = {"wake"}
INVARIANTS
    QueueDiscipline
    NoMisdelivery
    NoLostWakeup
PROPERTIES
    DeliveredToAddressee
    FirstComeFirstServed
    ImplementsMessagePassing
