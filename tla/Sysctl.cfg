SPECIFICATION MCSpec
CONSTANTS
    Clients = {"c1", "c2", "c3", "d3", "n1", "n2", "n3", "m"}
    Casts = {{"c1", "c2"}, {"c1", "n1"}, {"n1", "n2"}, {"c1", "m"}, {"n1", "m"}, {"c3", "d3"}, {"n1", "d3"}, {"n1", "n3"}}
    Sets <- MCSets
    SetOf <- MCSetOf
    DirOf <- MCDirOf
    FilesOf <- MCFilesOf
    Processes = {"u1"}
    NIL = NIL
INVARIANTS
    UsesCounted
    StaysRegistered
    OwnNamespace
    Settled
    CausesKnown
CHECK_DEADLOCK FALSE
