---------------------------- MODULE MapsListing ----------------------------
(***************************************************************************)
(* fs/proc, task_mmu.c and task_nommu.c: the areas of a process's memory   *)
(* in /proc/PID/maps.  A call shows some of them under mmap_sem; the next  *)
(* one goes on behind the address that was shown last, or, if nothing is   *)
(* there, or there is no MMU, behind as many areas as were shown.  Between *)
(* the calls the process maps, unmaps, splits and joins areas.  Without an *)
(* MMU status, stat and statm add the areas up, with the objects of the    *)
(* kernel that belong to them.  With one, they read the totals that mm/    *)
(* keeps, without a lock.                                                  *)
(***************************************************************************)
EXTENDS Integers, SequencesExt, FiniteSets

CONSTANTS Pages, MaxMaps, NULL     \* 1 .. n; bound on changes

VARIABLES mmu,
          areas,        \* sequence of <<first page, page behind>>, in order
          index, version,   \* of the seq_file: how many were shown, and an address
          vma,          \* what is to be shown, or NULL between calls
          hiwater,      \* mm->hiwater_vm
          status,       \* what a reader of status has of the totals
          lines, always, skipped, recounted, maps, peak   \* history

memory   == <<mmu, areas, hiwater, always, maps, peak>>
mapsVars == <<memory, index, version, vma, lines, skipped, recounted, status>>

\* The gate area, behind all others; no area; and the version that means so.
Gate == <<1000, 1001>>
Done == <<>>
End  == -1

PagesOf(v) == v[1] .. (v[2] - 1)
Mapped(s)  == UNION {PagesOf(s[i]) : i \in DOMAIN s}
Layouts    == {s \in UNION {[1 .. n -> Pages \X Pages] : n \in 0 .. 3} :
                  /\ \A i \in DOMAIN s : s[i][1] < s[i][2]
                  /\ \A i \in DOMAIN s : i > 1 => s[i - 1][2] <= s[i][1]}

total_vm == Cardinality(Mapped(areas))
NoStatus == [total |-> NULL, hiwater |-> NULL, since |-> NULL, torn |-> FALSE]

MapsInit == /\ mmu \in BOOLEAN /\ areas \in Layouts
            /\ hiwater = total_vm /\ peak = total_vm /\ status = NoStatus
            /\ index = 0 /\ version = 0 /\ vma = NULL /\ lines = <<>>
            /\ always = Mapped(areas) /\ skipped = {} /\ recounted = FALSE /\ maps = 0

\* mmap, munmap, mprotect, ...: any other layout.  update_hiwater_vm comes before
\* total_vm is made less.
Remap == /\ vma = NULL /\ maps < MaxMaps
         /\ areas' \in Layouts \ {areas}
         /\ always' = always \cap Mapped(areas') /\ maps' = maps + 1
         /\ hiwater' = IF Mapped(areas) \subseteq Mapped(areas') THEN hiwater
                       ELSE Max({hiwater, total_vm})
         /\ peak' = Max({peak, total_vm'})
         /\ UNCHANGED <<mmu, index, version, vma, lines, skipped, recounted, status>>

-----------------------------------------------------------------------------
Number(n) == IF n <= Len(areas) THEN areas[n]
             ELSE IF n = Len(areas) + 1 /\ mmu THEN Gate ELSE Done
\* m_next_vma.
NextVma(v) == IF v = Gate THEN Done ELSE Number(1 + CHOOSE i \in DOMAIN areas : areas[i] = v)
\* find_vma: the first area that ends behind an address.
FindVma(a) == LET s == {i \in DOMAIN areas : areas[i][2] > a}
              IN  IF s = {} THEN NULL ELSE areas[CHOOSE i \in s : \A j \in s : i <= j]

\* m_start behind the last address: the area that ends there has been shown.
\* Mutant: one address too far.
BehindOff  == FindVma(version)
Behind     == FindVma(version - 1)
StartByAddress ==
    LET v == Behind IN
    /\ mmu /\ version > 0 /\ v # NULL
    /\ vma' = IF v[1] <= version THEN NextVma(v) ELSE v
    /\ skipped' = IF v[1] <= version /\ \A i \in DOMAIN areas : areas[i][2] # version
                  THEN skipped \cup PagesOf(v) ELSE skipped
    /\ UNCHANGED <<version, recounted>>
\* ... or by number, which also leaves an address behind.
StartByNumber ==
    /\ version # End
    /\ mmu /\ version > 0 => Behind = NULL
    /\ vma' = Number(index + 1)
    /\ version' = IF mmu /\ index \in 1 .. Len(areas) - 1 THEN areas[index][1] ELSE 0
    /\ recounted' = (recounted \/ maps > 0)
    /\ UNCHANGED skipped
StartAtEnd == version = End /\ vma' = Done /\ UNCHANGED <<version, skipped, recounted>>
Start == /\ vma = NULL /\ status = NoStatus
         /\ (StartByAddress \/ StartByNumber \/ StartAtEnd)
         /\ UNCHANGED <<memory, index, lines, status>>

\* show_map and m_cache_vma, and m_next ...
ShowMap == /\ vma \notin {NULL, Done}
           /\ lines' = Append(lines, vma)
           /\ index' = index + 1
           /\ LET next == NextVma(vma) IN
              /\ version' = IF ~mmu THEN 0 ELSE IF next = Done THEN End ELSE vma[2]
              /\ vma' = IF next = Done THEN NULL ELSE next
           /\ UNCHANGED <<memory, skipped, recounted, status>>
\* ... and m_stop, when the buffer is full.
Stop == /\ vma \notin {NULL, Done} /\ index > 0
        /\ vma' = NULL
        /\ UNCHANGED <<memory, index, version, lines, skipped, recounted, status>>

-----------------------------------------------------------------------------
\* What task_nommu.c adds up under mmap_sem.  Sizes are in pages and each object counts
\* as one.  An area may have a region, which then ends where its last pair of pages
\* does.  shared: the first pages of areas that may be shared; several: mm has other
\* users; others: so have fs, files and sighand.
OBJECT == 1
RegionEnd(v)  == v[2] + ((v[2] - v[1]) % 2)
RegionSize(v) == RegionEnd(v) - v[1]
Add(sum, size, isShared) == IF isShared THEN [sum EXCEPT !.sbytes = @ + size]
                            ELSE [sum EXCEPT !.bytes = @ + size]

task_mem(regions, shared, several, others) ==
    LET AddArea(sum, v) ==
            LET private  == ~(several \/ v[1] \in shared)
                withArea == Add(sum, IF regions THEN OBJECT + RegionSize(v) ELSE v[2] - v[1],
                                ~private)
            IN  [withArea EXCEPT !.bytes = @ + OBJECT,
                                 !.slack = IF private /\ regions THEN RegionEnd(v) - v[2] ELSE @]
        inAreas == FoldLeft(AddArea, [bytes |-> 0, sbytes |-> 0, slack |-> 0], areas)
        withMm  == Add(inAreas, OBJECT, several)
        withAll == Add(withMm, 3 * OBJECT, others)
    IN  [withAll EXCEPT !.bytes = @ + OBJECT]
task_vsize == FoldLeft(LAMBDA sum, v : sum + v[2] - v[1], 0, areas)
\* Without the text and the data, which are not looked at.
task_statm(regions) ==
    FoldLeft(LAMBDA sum, v : sum + OBJECT + (IF regions THEN OBJECT + RegionSize(v) ELSE 0),
             OBJECT, areas)

-----------------------------------------------------------------------------
\* task_mem of task_mmu.c.  The two are read in either order, as nothing keeps the
\* compiler or the processor to that of the code; torn: hiwater_vm was read first, and
\* is another one by the time that total_vm is read.  Bound: who reads status and who
\* reads maps change nothing that the other one reads, so there is only one of them.
ReadTotal ==
    /\ mmu /\ vma = NULL /\ lines = <<>> /\ status.total = NULL
    /\ status' = [status EXCEPT !.total = total_vm,
                                !.since = IF @ = NULL THEN peak ELSE @,
                                !.torn = status.hiwater \notin {NULL, hiwater}]
    /\ UNCHANGED <<memory, index, version, vma, lines, skipped, recounted>>
ReadHiwater ==
    /\ mmu /\ vma = NULL /\ lines = <<>> /\ status.hiwater = NULL
    /\ status' = [status EXCEPT !.hiwater = hiwater, !.since = IF @ = NULL THEN peak ELSE @]
    /\ UNCHANGED <<memory, index, version, vma, lines, skipped, recounted>>
VmPeak == Max({status.total, status.hiwater})

MapsNext == Remap \/ Start \/ ShowMap \/ Stop \/ ReadTotal \/ ReadHiwater

-----------------------------------------------------------------------------
\* The lines are in order and show no page twice, and in the end show every page
\* that was mapped all the time, if the calls went on by address.  One that was in
\* an area which now begins or reaches where the last one ended is missing: it
\* passes for the last one.  Nothing holds once a changed list has been counted.
Shown == UNION {PagesOf(lines[i]) : i \in DOMAIN lines}
MapsShown ==
    ~recounted =>
        /\ \A i \in DOMAIN lines : i > 1 => lines[i - 1][2] <= lines[i][1]
        /\ vma = Done => always \subseteq Shown \cup skipped

\* The sums leave nothing out and count nothing twice: what is shared and what is not
\* are together what statm says, but for the objects that it does not look at; nothing
\* is taken for shared that nobody else has ("Non-shared memory is counted accurately",
\* task_nommu.c:14); and the slack is that of one area, however many have some.
SumsRight == ~mmu =>
    \A shared \in SUBSET {areas[i][1] : i \in DOMAIN areas}, regions, several, others \in BOOLEAN :
        LET mem == task_mem(regions, shared, several, others) IN
        /\ task_vsize = Cardinality(Mapped(areas))
        /\ mem.bytes + mem.sbytes = task_statm(regions) + 4 * OBJECT
                                    + (IF regions THEN 0 ELSE task_vsize)
        /\ (mem.sbytes = 0) <=> shared = {} /\ ~several /\ ~others
        /\ mem.slack \in {0} \cup {RegionEnd(areas[i]) - areas[i][2] : i \in DOMAIN areas}

\* The peak that status reports has been reached, and is none less than the one that
\* had been reached when the report began, though hiwater_vm is behind ("maintains
\* hiwater_vm and hiwater_rss only when about to *lower* total_vm or rss",
\* task_mmu.c:34); but not if the memory is made less between two reads that came
\* the other way round.
PeakRight ==
    NULL \notin {status.total, status.hiwater} =>
        VmPeak <= peak /\ (status.torn \/ status.since <= VmPeak)
=============================================================================
