\* Two processes.  BIAS only has to be larger than their number.
SPECIFICATION ModulesSpec
CONSTANTS
    Users = {p1, p2}
    Ents = {"d", "f", "g", "linked", "circular", "broken", "simple"}
    Root = Root
    Dir <- MCDir
    Name <- MCName
    Releasing = {"f", "linked"}
    BIAS <- MCBias
    NULL = NULL
    Visitors = {p1}
INVARIANTS
    Consistent
    NoCallIntoGone
    CleanExit
PROPERTIES
    RmmodReturns
CHECK_DEADLOCK FALSE
