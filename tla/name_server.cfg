\* Three clients, one of which comes and goes, two names and room for one, a
\* node each.
SPECIFICATION NsFairSpec
CONSTANTS
    Task = {0, 1, 2, 3}
    FirstTasks = {0, 1, 2, 3}
    Incarnations = 2
    Ns = 0
    Mortal = {1}
    Names = {spam, eggs}
    MaxNames = 1
    MaxNodes = 3
INVARIANTS
    WaitersExact
PROPERTIES
    WhoIsAnswersLast
    CallsReturn
\* The clients may all wait for a name that nobody registers.
CHECK_DEADLOCK FALSE
