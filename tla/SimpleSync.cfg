\* Two processes read twice each, across the end of a message of two bytes.
SPECIFICATION FairSpec
CONSTANTS
    Procs = {p1, p2}
    msg_len = 2
    Counts = {1, 3}
    NOMEM = NOMEM
    MaxReads = 2
INVARIANTS
    SimpleInv
PROPERTIES
    ImplementsStream
    EveryReadReturns
