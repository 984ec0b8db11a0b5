\* zad5, with fewer threads: two libraries of one reader each.
SPECIFICATION FairSpec
CONSTANTS
    Readers = {r1, r2, r3}
    Writers = {w1, w2}
    LIBS_NUM = 2
    LIB_MAX_READERS = 1
    BOOKS = 3
    NUL = NUL
INVARIANTS
    IInv
    WritersExcluded
    BooksKept
PROPERTIES
    EndsUnlessStarved
