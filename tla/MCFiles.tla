------------------------------ MODULE MCFiles ------------------------------
(***************************************************************************)
(* Small instances of Programs, and of nine more programs, parts of        *)
(* fs/proc, in the same way: one of them runs in each behaviour, and x1 to *)
(* x14 are its variables, in the order in which its module declares them.  *)
(***************************************************************************)
EXTENDS Programs, TLC

CONSTANTS p1, p2, c1

MCRequests == {<<DATA, DATA>>, <<DATA, CLEAR>>}
MCScores == {-1000}
Symmetry == Permutations({p1, p2})

Listings == INSTANCE Listings WITH
    Numbers <- 1 .. 4, MaxChanges <- 3, NULL <- NIL, kind <- x1, members <- x2,
    pos <- x3, tid <- x4, at <- x5, call <- x6, shown <- x7, steady <- x8,
    arrived <- x9, departed <- x10, changes <- x11
Maps == INSTANCE MapsListing WITH
    Pages <- 1 .. 4, MaxMaps <- 2, NULL <- NIL, mmu <- x1, areas <- x2, index <- x3,
    version <- x4, vma <- x5, lines <- x6, always <- x7, skipped <- x8,
    recounted <- x9, maps <- x10, hiwater <- x11, status <- x12, peak <- x13
Reads == INSTANCE ProcReads WITH
    Counts <- {1, 2, 4}, Top <- 7, max_pfn <- 3, file <- x1,
    arg_end <- x2, env_end <- x3, nuls <- x4, gone <- x5, alive <- x6, start <- x7,
    ppos <- x8, stage <- x9, count <- x10, out <- x11, ret <- x12, got <- x13,
    skipped <- x14
Pids == INSTANCE PidEntries WITH
    Clients <- {c1}, Tasks <- 1 .. 3, Nrs <- {1, 2}, NULL <- NIL, number <- x1,
    pid <- x2, group <- x3, leads <- x4, flushed <- x5, dcache <- x6, pc <- x7,
    name <- x8, task <- x9, inode <- x10, holder <- x11, execs <- x12, late <- x13
Links == INSTANCE LinkEntries WITH
    Slots <- {1, 2}, Files <- {DATA, CLEAR}, Writable <- {CLEAR}, ANON <- NONE,
    NULL <- NIL, MaxChanges <- 2, kind <- x1, slots <- x2, alive <- x3,
    dcache <- x4, pc <- x5, name <- x6, lister <- x7, todo <- x8, since <- x9,
    anew <- x10, noted <- x11, changes <- x12, loaded <- x13
Smaps == INSTANCE Smaps WITH
    Addrs <- {1, 2}, Nodes <- 0 .. 2, N_MEMORY <- {0, 2}, MaxEvents <- 3,
    area <- x1, pte <- x2, object <- x3, sharers <- x4, node <- x5, check <- x6,
    at <- x7, resident <- x8, pss <- x9, swap <- x10, md <- x11, hugetlb <- x12,
    swappedIn <- x13, events <- x14
Lives == INSTANCE TaskFiles WITH
    Clients <- 1 .. 2, Threads <- 1 .. 2, MaxExec <- 1, MaxIO <- 4, image <- x1,
    creds <- x2, readable <- x3, guard <- x4, siglock <- x5, stat <- x6,
    leader <- x7, counts <- x8, fields <- x9, filter <- x10, todo <- x11,
    held <- x12, saw <- x13, written <- x14
Tree == INSTANCE ProcTree WITH
    Clients <- {p1, p2}, Nets <- {1, 2}, MaxOps <- 4, NULL <- NIL, kind <- x1,
    tree <- x2, nlink <- x3, inums <- x4, op <- x5, odd <- x6, net <- x7,
    task_net <- x8, dentry <- x9, since <- x10, mount <- x11, ops <- x12
Paths == INSTANCE SysctlPaths WITH
    Width <- 2, table <- x1, stage <- x2, todo <- x3, new_path <- x4, header <- x5,
    subheaders <- x6, files <- x7, registered <- x8, copies <- x9, refused <- x10

Init ==
    \/ ProgramsInit
    \/ program = "Listings" /\ Listings!ListingInit /\ Idle11
    \/ program = "Maps" /\ Maps!MapsInit /\ Idle13
    \/ program = "Reads" /\ Reads!ReadsInit
    \/ program = "Pids" /\ Pids!PidInit /\ Idle13
    \/ program = "Links" /\ Links!LinkInit /\ Idle13
    \/ program = "Smaps" /\ Smaps!SmapsInit
    \/ program = "Tasks" /\ Lives!TaskInit
    \/ program = "Tree" /\ Tree!TreeInit /\ Idle12
    \/ program = "Paths" /\ Paths!PathsInit /\ Idle10

ListingsStep == program = "Listings" /\ Listings!ListingNext /\ UNCHANGED <<program, Rest11>>
MapsStep     == program = "Maps" /\ Maps!MapsNext /\ UNCHANGED <<program, Rest13>>
ReadsStep    == program = "Reads" /\ Reads!ReadsNext /\ UNCHANGED program
PidsStep     == program = "Pids" /\ Pids!PidNext /\ UNCHANGED <<program, Rest13>>
LinksStep    == program = "Links" /\ Links!LinkNext /\ UNCHANGED <<program, Rest13>>
SmapsStep    == program = "Smaps" /\ Smaps!SmapsNext /\ UNCHANGED program
TasksStep    == program = "Tasks" /\ Lives!TaskNext /\ UNCHANGED program
TreeStep     == program = "Tree" /\ Tree!TreeNext /\ UNCHANGED <<program, Rest12>>
PathsStep    == program = "Paths" /\ Paths!PathsNext /\ UNCHANGED <<program, Rest10>>

Next == \/ ProgramsNext
        \/ ListingsStep \/ MapsStep \/ ReadsStep \/ PidsStep \/ LinksStep
        \/ SmapsStep \/ TasksStep \/ TreeStep \/ PathsStep

Spec == Init /\ [][Next]_slots

-----------------------------------------------------------------------------
\* The parts of fs/proc; each module says what its property is about: directories that
\* change, /proc/N/maps, and the pages of one area, while they are listed, ...
ListingsComplete == /\ In("Listings", Listings!ListedOnce)
                    /\ In("Maps", Maps!MapsShown /\ Maps!SumsRight /\ Maps!PeakRight)
                    /\ In("Smaps", Smaps!PagesCounted)
\* ... reads in pieces of the files that are made from memory, ...
ReadsWhole == In("Reads", Reads!ReadsWhole)
\* ... the directories of processes whose numbers are used again, the links to what a
\* process has open and mapped, the files about a task that exits and execs,
\* the tree itself, and tables of sysctls with tables in them.
EntriesTrue == /\ In("Pids", Pids!NamesRight /\ Pids!DeadFlushed)
               /\ In("Links", Links!LinksRight)
               /\ In("Tasks", Lives!TaskFilesRight)
               /\ In("Tree", Tree!TreeRight)
               /\ In("Paths", Paths!PathsRight)
=============================================================================
