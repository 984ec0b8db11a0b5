\* Four writers, so that one of them waits while another one waits as well
\* and a third letter is under review.  The reviewer waits for ever in the
\* end, so the program stops without exiting.
SPECIFICATION FairSpec
CONSTANTS
    BOOKS = 8
    Readers = {r1, r2, r3, r4}
    Writers = {w1, w2, w3, w4}
    reviewer = reviewer
    R = R
INVARIANTS
    IInv
PROPERTIES
    ImplementsRWLock
    Settles
CHECK_DEADLOCK FALSE
