SPECIFICATION MCSpec
CONSTANTS
    Clients = {"c1", "c2", "c3", "d3", "n1", "n2", "n3", "m"}
    Casts = {{"c1", "c2"}}
    Sets <- MCSets
    SetOf <- MCSetOf
    DirOf <- MCDirOf
    FilesOf <- MCFilesOf
    Processes = {"u1"}
    NIL = NIL
INVARIANTS
    ReferenceKeeps
CHECK_DEADLOCK FALSE
