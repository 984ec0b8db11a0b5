\* The program as it is: READERS_NUM = 6 readers and WRITERS_NUM = 3 writers.
SPECIFICATION FairSpec
CONSTANTS
    Readers = {r1, r2, r3, r4, r5, r6}
    Writers = {w1, w2, w3}
INVARIANTS
    IInv
PROPERTIES
    ImplementsRWLock
    Termination
