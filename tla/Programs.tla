------------------------------ MODULE Programs ------------------------------
(***************************************************************************)
(* The programs that have no scheduling of their own to rely on, and that  *)
(* are proved: four drivers, the system calls, and four parts of fs/proc.  *)
(* One of them runs in each behaviour, and x1 to x14 are its variables; a  *)
(* name that several programs have stands for the same one in all of them. *)
(***************************************************************************)
EXTENDS Integers, Sequences, FiniteSets

CONSTANTS Callers,                  \* processes that call the drivers
          Requests, DATA, CLEAR,    \* what is written to /dev/linked
          NONE,
          BUFF_INITIAL_SIZE, RingSizes, WriteLengths, NUL,      \* of /dev/circular
          TextLengths,              \* of names and paths in cw04/advanced
          Numbers, MaxLen,          \* what is written to /dev/broken
          Tasks,                    \* processes that are counted, or share memory
          Uids, ArraySizes, MaxTime,
          VPages,                   \* of the process whose bits are cleared
          Scores, Adjs,             \* what is written to oom_score_adj and oom_adj
          RamBlocks, PerPage, ZERO, \* of memory; program headers in a page; zeros
          PAGE_SIZE, WORD, DumpCounts,      \* of /proc/vmcore, and of its reads
          NIL,
          MaxCalls, MaxBroken, MaxEvents, MaxWrites, MaxHotplug     \* bounds

VARIABLES program, x1, x2, x3, x4, x5, x6, x7, x8, x9, x10, x11, x12, x13, x14

Loose == INSTANCE LooseBuffer WITH
    Procs <- Callers, pc <- x1, local <- x2, calls <- x3, left <- x4, live <- x5,
    damaged <- x6, locking <- x7, writer <- x8, readers <- x9, buffer <- x10,
    total_length <- x11, linked <- x12, twoWrites <- x13, stray <- x14
Circ == INSTANCE Circular WITH
    Procs <- Callers, Sizes <- RingSizes, Counts <- WriteLengths, pc <- x1,
    local <- x2, calls <- x3, registered <- x4, f_pos <- x5, last <- x6,
    raced <- x7, stage <- x8, proc_entry <- x9, buff <- x10, buff_size <- x11,
    buff_idx <- x12
Adv == INSTANCE Advanced WITH
    Procs <- Callers, Lengths <- TextLengths, NULL <- NIL, pc <- x1, local <- x2,
    calls <- x3, registered <- x4, live <- x5, damaged <- x6, raced <- x7,
    edition <- x8, module <- x9, process_name <- x10, process_name_len <- x11,
    pathname <- x12, pathname_buf <- x13, pathname_len <- x14
Broken == INSTANCE BrokenDevices WITH
    Procs <- Callers, MaxCalls <- MaxBroken, pc <- x1, local <- x2, calls <- x3,
    version <- x4, f_pos <- x5, buf1 <- x6, buf2 <- x7, numbers_count <- x8,
    counts <- x9, memory <- x10, done <- x11, counted <- x12, wrote <- x13,
    quiet <- x14
Calls == INSTANCE MySyscalls WITH
    Procs <- Tasks, Sizes <- ArraySizes, NULL <- NIL, uid <- x1, utime <- x2,
    call <- x3, proc <- x4, buffer_size <- x5, it <- x6, arr_size <- x7, tab <- x8,
    max_cnt <- x9, max_uid <- x10, kind <- x11, changed <- x12
Dirty == INSTANCE SoftDirty WITH
    pc <- x1, pte <- x2, writable <- x3, left <- x4, soft <- x5, vm_soft <- x6,
    tlb <- x7, fresh <- x8, events <- x9
Oom == INSTANCE OomAdj WITH
    Procs <- Tasks, NULL <- NIL, mm <- x1, vforked <- x2, adj <- x3, left <- x4,
    adj_min <- x5, last <- x6, parent <- x7, write <- x8, apart <- x9, writes <- x10
Core == INSTANCE Kcore WITH
    Openers <- Callers, Blocks <- RamBlocks, NULL <- NIL, HEADER <- NONE,
    EOF <- NUL, pc <- x1, online <- x2, kclist <- x3, kcore_need_update <- x4,
    size <- x5, i_size <- x6, seen <- x7, missed <- x8, alone <- x9,
    plugs <- x10, read <- x11, headers <- x12, shifted <- x13, page <- x14
Vmcore == INSTANCE Vmcore WITH
    Counts <- DumpCounts, notes <- x1, loads <- x2, balloon <- x3, elfclass <- x4,
    held <- x5, vmcore_list <- x6, fpos <- x7, stage <- x8, buflen <- x9,
    acc <- x10, shown <- x11

\* Sizes and lengths of /dev/circular.
RingBounds == BUFF_INITIAL_SIZE \in Nat /\ RingSizes \subseteq Nat /\ WriteLengths \subseteq Nat
\* What may be written to /dev/linked; NONE is neither a process nor a chunk.
LooseBounds == /\ Requests \subseteq Seq({DATA, CLEAR})
               /\ NONE \notin Callers \cup (Callers \X Nat \X Nat)
\* NIL is no buffer.
AdvancedBounds == NIL \notin Callers \X Nat /\ TextLengths \subseteq Nat
\* What is written to /dev/broken are numbers of processes, or 0.
BrokenBounds == Numbers \subseteq Nat /\ IsFiniteSet(Callers) /\ MaxLen \in Nat
\* What the calls may be given; no process has the number 0, from which they set out.
CallsBounds == /\ Tasks \subseteq Nat \ {0} /\ IsFiniteSet(Tasks)
               /\ ArraySizes \subseteq Nat /\ MaxTime \in Nat /\ NIL \notin Uids \cup Nat
\* What a write to oom_score_adj or oom_adj is.
OomWrites == [task : Tasks, value : Int, lowers : BOOLEAN, set : BOOLEAN,
              mm : Tasks \cup {NIL}]
\* Values are numbers, those of oom_adj in its range; NIL is no process and no write;
\* there is an init.
OomBounds == /\ NIL \notin Tasks \cup OomWrites /\ 1 \in Tasks
             /\ Scores \subseteq Int /\ Adjs \subseteq Oom!OOM_DISABLE .. Oom!OOM_ADJUST_MAX
\* Memory is finitely many blocks, and a page holds some program headers.
KcoreBounds == IsFiniteSet(RamBlocks) /\ RamBlocks \subseteq Nat /\ PerPage \in Nat \ {0}
\* A page and a word hold something, and a read asks for some bytes.
DumpBounds == PAGE_SIZE \in Nat \ {0} /\ WORD \in Nat \ {0} /\ DumpCounts \subseteq Nat

ASSUME ProgramBounds == /\ RingBounds /\ LooseBounds /\ AdvancedBounds /\ BrokenBounds
                        /\ CallsBounds /\ OomBounds /\ KcoreBounds /\ DumpBounds

\* A program with n variables leaves the others alone.
Rest9  == <<x10, x11, x12, x13, x14>>
Rest10 == <<x11, x12, x13, x14>>
Rest11 == <<x12, x13, x14>>
Rest12 == <<x13, x14>>
Rest13 == <<x14>>
Idle13 == x14 = 0
Idle12 == x13 = 0 /\ Idle13
Idle11 == x12 = 0 /\ Idle12
Idle10 == x11 = 0 /\ Idle11
Idle9  == x10 = 0 /\ Idle10

ProgramsInit ==
    \/ program = "Loose" /\ Loose!Init
    \/ program = "Circular" /\ Circ!Init /\ Idle12
    \/ program = "Advanced" /\ Adv!Init
    \/ program = "Broken" /\ Broken!BrokenInit
    \/ program = "Calls" /\ Calls!CallsInit /\ Idle12
    \/ program = "Dirty" /\ Dirty!DirtyInit /\ Idle9
    \/ program = "Oom" /\ Oom!OomInit /\ Idle10
    \/ program = "Core" /\ Core!KcoreInit
    \/ program = "Vmcore" /\ Vmcore!VmcoreInit /\ Idle11

LooseStep    == program = "Loose" /\ Loose!Next /\ UNCHANGED program
CircularStep == program = "Circular" /\ Circ!Next /\ UNCHANGED <<program, Rest12>>
AdvancedStep == program = "Advanced" /\ Adv!Next /\ UNCHANGED program
BrokenStep   == program = "Broken" /\ Broken!BrokenNext /\ UNCHANGED program
CallsStep    == program = "Calls" /\ Calls!CallsNext /\ UNCHANGED <<program, Rest12>>
DirtyStep    == program = "Dirty" /\ Dirty!DirtyNext /\ UNCHANGED <<program, Rest9>>
OomStep      == program = "Oom" /\ Oom!OomNext /\ UNCHANGED <<program, Rest10>>
CoreStep     == program = "Core" /\ Core!KcoreNext /\ UNCHANGED program
VmcoreStep   == program = "Vmcore" /\ Vmcore!VmcoreNext /\ UNCHANGED <<program, Rest11>>

ProgramsNext == \/ LooseStep \/ CircularStep \/ AdvancedStep \/ BrokenStep
                \/ CallsStep \/ DirtyStep \/ OomStep \/ CoreStep \/ VmcoreStep

slots == <<program, x1, x2, x3, x4, x5, x6, x7, x8, x9, Rest9>>

ProgramsSpec == ProgramsInit /\ [][ProgramsNext]_slots

-----------------------------------------------------------------------------
In(name, P) == program = name => P

\* No driver uses memory that is not its own: no chunk of the linked list after it is
\* freed while the rwlock holds, and none that is freed stays in the list while writes are
\* kept apart; no byte outside the circular buffer unless sizes race, no path of a mount
\* after its buffer is swapped.
MemorySafe == /\ In("Loose", Loose!IInv /\ Loose!NoUseAfterFree)
              /\ In("Circular", Circ!InBounds)
              /\ In("Advanced", Adv!ReadsLiveBuffer)

\* What was written is there: chunks stay in the linked list whatever write drops their
\* neighbour, and the last undisturbed write is in the circular buffer.
WritesKept == /\ In("Loose", Loose!NoChunkLost)
              /\ In("Circular", Circ!LastWriteKept)

\* When all calls are over, what they leave fits together: lengths, names, buffers,
\* numbers that were looked up, what the system calls have counted, the values of
\* processes that share memory.
RightAtRest == /\ In("Loose", Loose!LengthAtRest)
               /\ In("Advanced", Adv!NameMeasured /\ Adv!BuffersOwned)
               /\ In("Broken", Broken!AnswersRight /\ Broken!CallsCounted)
               /\ In("Calls", Calls!CallsRight)
               /\ In("Oom", Oom!AdjShared)

\* Pages written after a clear of the soft-dirty bits are reported.
WritesReported == In("Dirty", Dirty!WritesReported)

\* The list of areas of the kernel's memory follows the memory, and the size of the file
\* that list; a reader finds there what its headers announce, and the areas of struct pages
\* are those of the RAM.
AreasKnown == In("Core", Core!AreasKnown /\ Core!AreasRead /\ Core!VmemmapsRight)

\* The memory of a crashed kernel, read and mapped, is where its program headers say.
CoreRight == In("Vmcore", Vmcore!CoreRight)
=============================================================================
