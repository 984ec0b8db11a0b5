\* One process writes at position 0 what it then reads behind another's chunk.
SPECIFICATION AnySpec
CONSTANTS
    Procs = {p1, p2}
    INTERNAL_SIZE = 4
    Requests <- MCRequests
    Counts = {9}
    CLEAR = CLEAR
    MaxCalls = 2
    A = A
    B = B
    C = C
INVARIANTS
    InCorrectEntry
