\* Two processes make two calls each, in every order: reads of three bytes end
\* inside a chunk, reads of nine go over the chunks of several writes.
SPECIFICATION AnyFairSpec
CONSTANTS
    Procs = {p1, p2}
    INTERNAL_SIZE = 4
    Requests <- MCRequests
    Counts = {3, 9}
    CLEAR = CLEAR
    MaxCalls = 2
    A = A
    B = B
    C = C
INVARIANTS
    IInv
PROPERTIES
    ImplementsDevice
    EveryCallReturns
