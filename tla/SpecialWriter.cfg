\* Two batches of two letters and a letter that stays behind.  The special
\* writer waits for ever in the end, so the program stops without exiting.
SPECIFICATION FairSpec
CONSTANTS
    QUEUE_ELEMENTS = 5
    SWRITER_SIZE = 2
    BOOKS = 5
    Readers = {r1, r2}
    Writers = {w1, w2, w3, w4, w5}
    Letters = {w1, w2, w3, w4, w5}
    NUL = NUL
    sw = sw
INVARIANTS
    IInv
PROPERTIES
    ImplementsArchive
    Settles
CHECK_DEADLOCK FALSE
