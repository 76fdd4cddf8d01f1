\* A copy of one byte between addresses that are alike modulo four.
SPECIFICATION MemSpec
CONSTANTS
    Sizes = {1}
    Alignments = {0, 1, 2, 3}
    AnySize = TRUE
INVARIANT CopiesExactly
CHECK_DEADLOCK FALSE
