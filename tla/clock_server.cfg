\* Two clients, one of which comes and goes, three overflows of the timer.
SPECIFICATION ClkFairSpec
CONSTANTS
    Task = {0, 1, 2, 3}
    FirstTasks = {0, 2, 3}
    Incarnations = 2
    Clk = 0
    Notifier = 1
    Mortal = {2}
    MaxTasks = 4
    IntMax = 5
    MaxOverflows = 3
    Delays = {0, 1}
    Times = {2}
INVARIANTS
    DelaysExact
    NeverFast
PROPERTIES
    NeverEarly
    TickCounted
    Answered
\* The bound on overflows ends time.
CHECK_DEADLOCK FALSE
