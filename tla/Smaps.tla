------------------------------- MODULE Smaps -------------------------------
(***************************************************************************)
(* fs/proc, task_mmu.c: what /proc/PID/smaps says of one area of memory:   *)
(* how much of it is resident, in proportion to who shares it, and how     *)
(* much is swapped.  The pages of a file in shared memory (shmem) are      *)
(* swapped by that file, without a word in the page table, so they are     *)
(* counted first, or looked up in the walk.  mmap_sem is held, but the     *)
(* process faults pages in, and the kernel swaps and moves them, during    *)
(* the walk (those parts are mm/).  A huge page counts as a page here.     *)
(* /proc/PID/numa_maps walks the area, too, and tells the nodes on which   *)
(* the pages are.  The pages of hugetlb are not swapped, and have sums of  *)
(* their own.                                                              *)
(***************************************************************************)
EXTENDS Integers, FiniteSets

CONSTANTS Addrs,              \* 1 .. n, the pages of the area
          Nodes, N_MEMORY,    \* the nodes, and those of them that have memory
          MaxEvents           \* bound on faults and swapping

VARIABLES area,               \* "anon", "hugetlb", or a mapping of shmem: "shared", "private",
                              \* or "readonly", which is private but not writable any more
          pte,                \* of each page: "none", the file's own page ("object"), a
                              \* private "copy", or a copy that is "swapped"
          object,             \* where the file has the page: "absent", "incore", "swapped"
          sharers,            \* others who have the same page, or swap entry
          node,               \* of the pages (only while numa_maps is read)
          check, at,          \* how swapped pages are counted (check_shmem_swap),
                              \* or "numa"; the page that is next, 0 before
          resident, pss, swap,    \* of struct mem_size_stats
          md,                 \* struct numa_maps
          hugetlb,            \* shared_hugetlb and private_hugetlb, in pages
          swappedIn, events   \* history: a page came back from swap; how much has
                              \* happened since the beginning (also a bound)

pagesVars == <<area, pte, object, sharers, node>>
stats     == <<check, at, resident, pss, swap, md, hugetlb>>
smapsVars == <<pagesVars, stats, swappedIn, events>>

Last  == Cardinality(Addrs)
Share == 2                    \* what a page adds to pss when nobody else has it
Empty == [pages |-> 0, anon |-> 0, mapcount_max |-> 0, node |-> [n \in Nodes |-> 0]]

SmapsInit ==
    /\ area \in {"anon", "shared", "private", "readonly", "hugetlb"}
    /\ pte \in [Addrs -> {"none", "object", "copy", "swapped"}]
    /\ object \in [Addrs -> {"absent", "incore", "swapped"}]
    /\ area = "anon" => \A a \in Addrs : object[a] = "absent"
    /\ area = "hugetlb" => \A a \in Addrs : pte[a] # "swapped" /\ object[a] # "swapped"
    /\ area = "shared" => \A a \in Addrs : pte[a] \in {"none", "object"}
    /\ \A a \in Addrs : pte[a] = "object" => object[a] = "incore"
    /\ sharers \in [Addrs -> 0 .. 1]
    /\ node = [a \in Addrs |-> 0] /\ md = Empty
    /\ check = "sum" /\ at = 0 /\ resident = 0 /\ pss = 0 /\ swap = 0
    /\ hugetlb = [shared |-> 0, private |-> 0] /\ swappedIn = FALSE /\ events = 0

Event == /\ events < MaxEvents /\ at \in Addrs
         /\ events' = events + 1
         /\ UNCHANGED <<area, stats>>

-----------------------------------------------------------------------------
\* A fault: the page is read, or copied for a write; a copy comes back from swap.
FaultIn(a) ==
    /\ Event /\ pte[a] \in {"none", "swapped"}
    /\ \/ /\ pte[a] = "none" /\ area # "anon"
          /\ pte' = [pte EXCEPT ![a] = "object"]
          /\ object' = [object EXCEPT ![a] = "incore"]
       \/ /\ pte[a] = "swapped" \/ area \in {"anon", "private", "hugetlb"}
          /\ pte' = [pte EXCEPT ![a] = "copy"]
          /\ object' = IF pte[a] = "none" /\ area # "anon"
                       THEN [object EXCEPT ![a] = "incore"] ELSE object
    /\ swappedIn' = (swappedIn \/ pte[a] = "swapped" \/ object'[a] # object[a])
    /\ UNCHANGED <<sharers, node>>
\* A copy is swapped; a page of the file is unmapped and then swapped.
SwapOut(a) ==
    /\ Event /\ area # "hugetlb"
    /\ \/ pte[a] = "copy" /\ pte' = [pte EXCEPT ![a] = "swapped"] /\ UNCHANGED object
       \/ pte[a] = "object" /\ pte' = [pte EXCEPT ![a] = "none"] /\ UNCHANGED object
       \/ /\ pte[a] # "object" /\ object[a] = "incore"
          /\ object' = [object EXCEPT ![a] = "swapped"] /\ UNCHANGED pte
    /\ UNCHANGED <<sharers, node, swappedIn>>
Others(a) == /\ Event /\ sharers' = [sharers EXCEPT ![a] = 1 - @]
             /\ UNCHANGED <<pte, object, node, swappedIn>>
Migrate(a) == /\ Event /\ check = "numa" /\ \E n \in Nodes : node' = [node EXCEPT ![a] = n]
              /\ UNCHANGED <<pte, object, sharers, swappedIn>>

-----------------------------------------------------------------------------
\* show_smap: when the area has all that the file has swapped, or nothing is, the file
\* tells; otherwise each page that is not mapped is looked up.
ShmemSwapped == Cardinality({a \in Addrs : object[a] = "swapped"})
Begin == /\ at = 0 /\ at' = 1
         /\ check' = IF area = "private" /\ ShmemSwapped # 0 THEN "look" ELSE "sum"
         /\ swap' = IF area = "anon" \/ check' = "look" THEN 0 ELSE ShmemSwapped
         /\ UNCHANGED <<pagesVars, resident, pss, md, hugetlb, swappedIn, events>>
IsMapped(a) == pte[a] \in {"object", "copy"}

\* smaps_pte_entry and smaps_account; smaps_pte_hole finds the same as the look-up.
Visit == /\ at \in Addrs /\ check # "numa" /\ area # "hugetlb" /\ at' = at + 1
         /\ \/ /\ pte[at] \in {"object", "copy"}
               /\ resident' = resident + 1
               /\ pss' = pss + Share \div (1 + sharers[at])
               /\ UNCHANGED swap
            \/ /\ \/ pte[at] = "swapped"
                  \/ pte[at] = "none" /\ check = "look" /\ object[at] = "swapped"
               /\ swap' = swap + 1
               /\ UNCHANGED <<resident, pss>>
            \/ /\ pte[at] = "none" /\ ~(check = "look" /\ object[at] = "swapped")
               /\ UNCHANGED <<resident, pss, swap>>
         /\ UNCHANGED <<pagesVars, check, md, hugetlb, swappedIn, events>>

\* smaps_hugetlb_range.  What it counts is not resident.
VisitHuge == /\ at \in Addrs /\ check # "numa" /\ area = "hugetlb" /\ at' = at + 1
             /\ hugetlb' = IF ~IsMapped(at) THEN hugetlb
                           ELSE IF sharers[at] > 0 THEN [hugetlb EXCEPT !.shared = @ + 1]
                           ELSE [hugetlb EXCEPT !.private = @ + 1]
             /\ UNCHANGED <<pagesVars, check, resident, pss, swap, md, swappedIn, events>>

\* show_numa_map, can_gather_numa_stats and gather_stats.
BeginNuma == /\ at = 0 /\ at' = 1 /\ check' = "numa" /\ md' = Empty
             /\ node' \in [Addrs -> Nodes]
             /\ UNCHANGED <<area, pte, object, sharers, resident, pss, swap, hugetlb,
                            swappedIn, events>>
CanGatherHuge(a) == area = "hugetlb" /\ IsMapped(a)
CanGather(a) == CanGatherHuge(a) \/ (IsMapped(a) /\ node[a] \in N_MEMORY)
gather_stats(a) == [md EXCEPT !.pages = @ + 1,
                              !.anon = IF pte[a] = "copy" THEN @ + 1 ELSE @,
                              !.mapcount_max = IF 1 + sharers[a] > @ THEN 1 + sharers[a] ELSE @,
                              !.node[node[a]] = @ + 1]
Gather == /\ at \in Addrs /\ check = "numa" /\ at' = at + 1
          /\ md' = IF CanGather(at) THEN gather_stats(at) ELSE md
          /\ UNCHANGED <<pagesVars, check, resident, pss, swap, hugetlb, swappedIn, events>>

SmapsNext == \/ Begin \/ Visit \/ VisitHuge \/ BeginNuma \/ Gather
             \/ \E a \in Addrs : FaultIn(a) \/ SwapOut(a) \/ Others(a) \/ Migrate(a)

-----------------------------------------------------------------------------
\* If nothing happens meanwhile each page is counted once, as resident or as swapped,
\* but for a page that has both a copy and a swapped original, in an area that is not
\* writable any more: there the original counts, too.  Otherwise the sum exceeds the
\* size of the area only if pages came back from swap behind the first count.
\* numa_maps tells a node for each page that it counts, and counts none twice; but
\* for hugetlb it does not look if the node is one that it tells.
Count(P(_))  == Cardinality({a \in Addrs : P(a)})
IsCopied(a)  == pte[a] \in {"copy", "swapped"} /\ object[a] = "swapped"
IsSwapped(a) == pte[a] = "swapped" \/ (pte[a] = "none" /\ object[a] = "swapped")
Doubled      == IF area = "readonly" THEN Count(IsCopied) ELSE 0
Gathered(on) == LET sum[N \in SUBSET on] ==
                        IF N = {} THEN 0
                        ELSE LET n == CHOOSE n \in N : TRUE IN md.node[n] + sum[N \ {n}]
                IN  sum[on]
Quiet        == events = 0
IsAnon(a)    == CanGather(a) /\ pte[a] = "copy"
IsShared(a)  == CanGatherHuge(a) /\ sharers[a] > 0
PagesCounted ==
    /\ md.pages = Gathered(Nodes) /\ (area = "hugetlb" \/ md.pages = Gathered(N_MEMORY))
    /\ md.anon <= md.pages /\ md.pages <= Last
    /\ md.mapcount_max \in 0 .. 2 /\ (md.mapcount_max = 0 <=> md.pages = 0)
    /\ at > Last /\ Quiet /\ check = "numa" =>
          /\ md.pages = Count(CanGather) /\ md.anon = Count(IsAnon)
          /\ md.mapcount_max > 1 <=> \E a \in Addrs : CanGather(a) /\ sharers[a] > 0
    /\ at > Last /\ Quiet /\ check # "numa" =>
          /\ resident + hugetlb.shared + hugetlb.private = Count(IsMapped)
          /\ hugetlb.shared = Count(IsShared)
          /\ swap = Count(IsSwapped) + Doubled
    /\ area = "hugetlb" => resident + swap = 0 /\ hugetlb.shared + hugetlb.private <= Last
    /\ resident + swap > Last => check = "sum" /\ (swappedIn \/ area = "readonly")
    /\ pss \in resident .. Share * resident
=============================================================================
