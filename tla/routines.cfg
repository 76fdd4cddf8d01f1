\* A priority queue of four values and two keys; a ring of three characters; a queue in seven
\* bytes of items of two; copies through every burst and alignment; numbers
\* around each power of a base; two tasks and the kernel.
SPECIFICATION Spec
CONSTANTS
    MaxSize = 4
    Keys = {0, 1}
    Char = {c, d}
    Size = 3
    MaxBuf = 3
    Bufs <- ShortStrings
    Items = {x, y}
    eltsize = 2
    memsize = 7
    Sizes = {0, 1, 2, 3, 4, 5, 7, 8, 11, 12, 13, 16, 19, 20, 24, 32, 35, 36, 39,
             40, 43, 44, 76, 80, 83}
    Alignments = {0, 1, 2, 3}
    AnySize = FALSE
    NumbersTried <- EdgeNumbers
    WidthsTried <- SomeWidths
    PowersTried = {0, 1, 2, 3, 4, 7, 8, 9, 15, 16, 17, 24, 28}
    Tasks = 2
    Room = 1
    MaxSteps = 2
INVARIANTS
    PositionsExact
    CopiesExactly
    NumbersReadBack
PROPERTIES
    OldestFirst
    ImplementsPriorityQueue
    
    
    RegistersPreserved
\* A copy ends, and the bound on steps ends the tasks.
CHECK_DEADLOCK FALSE
