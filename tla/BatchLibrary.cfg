\* Two batches of two letters, with every interleaving and spurious wakeup.
SPECIFICATION FairSpec
CONSTANTS
    QUEUE_ELEMENTS = 2
    Readers = {r1, r2, r3, r4}
    Writers = {w1, w2, w3, w4}
    Letters = {w1, w2, w3, w4}
    NUL = NUL
INVARIANTS
    IInv
PROPERTIES
    ImplementsBatchBuffer
    Termination
