\* Each program with two processes (or none, where it is a computation), small buffers,
\* and two or three calls; most of them may stop.
SPECIFICATION Spec
CONSTANTS
    p1 = p1
    p2 = p2
    c1 = c1
    DATA = DATA
    CLEAR = CLEAR
    NONE = NONE
    NUL = NUL
    NIL = NIL
    ZERO = ZERO
    Callers = {p1, p2}
    Requests <- MCRequests
    BUFF_INITIAL_SIZE = 3
    RingSizes = {0, 2, 5}
    WriteLengths = {2, 5}
    TextLengths = {1, 2}
    Numbers = {0, 1, 2}
    MaxLen = 2
    Tasks = {1, 2, 3}
    Uids = {0, 1}
    ArraySizes = {0, 2, 3}
    MaxTime = 2
    VPages = {1, 2}
    Scores <- MCScores
    Adjs = {10}
    MaxCalls = 2
    MaxBroken = 3
    MaxEvents = 5
    MaxWrites = 2
    RamBlocks = {1, 2}
    PerPage = 2
    PAGE_SIZE = 2
    WORD = 10
    DumpCounts = {1, 3}
    MaxHotplug = 2
SYMMETRY Symmetry
CHECK_DEADLOCK FALSE
INVARIANTS
    MemorySafe
    WritesKept
    
    ListingsComplete
    ReadsWhole
    CoreRight
    AreasKnown
    WritesReported
    EntriesTrue
