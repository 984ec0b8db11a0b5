----------------------------- MODULE SoftDirty -----------------------------
(***************************************************************************)
(* fs/proc, task_mmu.c: which pages a process has written since "4" was    *)
(* written to its clear_refs, as pagemap tells.  A clear takes the write   *)
(* permission from each page, so that a write faults and marks the page;   *)
(* until the TLB is flushed the process may write without a fault.  The    *)
(* process maps, unmaps and writes all the while, and its pages are        *)
(* swapped (those parts are the kernel's mm/ and the processor).           *)
(***************************************************************************)
EXTENDS Integers, FiniteSets

CONSTANTS VPages,             \* numbers; each is an area of its own
          MaxEvents           \* bound on what the process does

VARIABLES pte,                \* "unmapped", "none", "present" or "swapped", of each page
          writable, soft,     \* pages whose pte may be written, is soft-dirty
          vm_soft,            \* pages whose area has VM_SOFTDIRTY
          tlb,                \* pages which the processor takes for writable
          pc, left,           \* of the clear; the pages that it has still to visit
          fresh, events       \* history: what was written or mapped after the last
                              \* clear; bound

pages    == <<pte, writable, soft, vm_soft, tlb>>
dirtyVars == <<pages, pc, left, fresh, events>>

Mapped   == {p \in VPages : pte[p] # "unmapped"}
\* mmap_sem is held for writing, or for reading.
Excluded == pc = "flagging"
Reading  == pc \in {"checking", "walking"}

DirtyInit ==
    /\ pte \in [VPages -> {"unmapped", "none", "present"}]
    /\ writable = {} /\ soft = {} /\ vm_soft = Mapped /\ tlb = {}
    /\ pc = "user" /\ left = {} /\ fresh = {} /\ events = 0

Event == events < MaxEvents /\ events' = events + 1
\* What happens while no clear goes on is to be seen afterwards.
Seen(p) == fresh' = IF pc = "user" THEN fresh \cup {p} ELSE fresh

-----------------------------------------------------------------------------
Map(p) == /\ Event /\ ~Excluded /\ ~Reading /\ pte[p] = "unmapped"
          /\ pte' = [pte EXCEPT ![p] = "none"] /\ vm_soft' = vm_soft \cup {p}
          /\ Seen(p)
          /\ UNCHANGED <<writable, soft, tlb, pc, left>>
Unmap(p) == /\ Event /\ ~Excluded /\ ~Reading /\ p \in Mapped
            /\ pte' = [pte EXCEPT ![p] = "unmapped"]
            /\ writable' = writable \ {p} /\ soft' = soft \ {p}
            /\ vm_soft' = vm_soft \ {p} /\ tlb' = tlb \ {p}
            /\ fresh' = fresh \ {p}
            /\ UNCHANGED <<pc, left>>
\* A write without a fault, and one that marks the page.
Write(p) == /\ Event /\ p \in tlb \cup writable
            /\ tlb' = tlb \cup {p}
            /\ Seen(p)
            /\ UNCHANGED <<pte, writable, soft, vm_soft, pc, left>>
WriteFaults(p) == /\ Event /\ ~Excluded /\ p \in Mapped \ (tlb \cup writable)
                  /\ pte' = [pte EXCEPT ![p] = "present"]
                  /\ writable' = writable \cup {p} /\ soft' = soft \cup {p}
                  /\ tlb' = tlb \cup {p}
                  /\ Seen(p)
                  /\ UNCHANGED <<vm_soft, pc, left>>
SwapOut(p) == /\ Event /\ pte[p] = "present"
              /\ pte' = [pte EXCEPT ![p] = "swapped"]
              /\ writable' = writable \ {p} /\ tlb' = tlb \ {p}
              /\ UNCHANGED <<soft, vm_soft, pc, left, fresh>>
SwapIn(p)  == /\ Event /\ ~Excluded /\ pte[p] = "swapped"
              /\ pte' = [pte EXCEPT ![p] = "present"]
              /\ UNCHANGED <<writable, soft, vm_soft, tlb, pc, left, fresh>>

-----------------------------------------------------------------------------
\* clear_refs_write: if an area has VM_SOFTDIRTY it takes mmap_sem for writing, and
\* then all areas lose it; fresh begins anew.
Clear == /\ pc = "user" /\ pc' = "checking" /\ fresh' = {}
         /\ UNCHANGED <<pages, left, events>>
Relock == /\ pc = "checking" /\ vm_soft # {}
          /\ pc' = "relocking"
          /\ UNCHANGED <<pages, left, fresh, events>>
Killed == /\ pc = "relocking" /\ pc' = "user"
          /\ UNCHANGED <<pages, left, fresh, events>>
LockForWriting == /\ pc = "relocking" /\ pc' = "flagging"
                  /\ UNCHANGED <<pages, left, fresh, events>>
ClearAreas == /\ pc = "flagging" \/ (pc = "checking" /\ vm_soft = {})
              /\ vm_soft' = {} /\ pc' = "walking" /\ left' = Mapped
              /\ UNCHANGED <<pte, writable, soft, tlb, fresh, events>>
\* clear_soft_dirty.
ClearPage(p) == /\ pc = "walking" /\ p \in left
                /\ \A q \in left : p <= q
                /\ left' = left \ {p}
                /\ soft' = soft \ {p} /\ writable' = writable \ {p}
                /\ UNCHANGED <<pte, vm_soft, tlb, pc, fresh, events>>
\* flush_tlb_mm.  Mutant: the TLB keeps what it has.
FlushNone == UNCHANGED tlb
Flush     == tlb' = {}
Cleared == /\ pc = "walking" /\ left = {} /\ pc' = "user"
           /\ Flush
           /\ UNCHANGED <<pte, writable, soft, vm_soft, left, fresh, events>>

DirtyNext == \/ \E p \in VPages : \/ Map(p) \/ Unmap(p) \/ Write(p) \/ WriteFaults(p)
                                  \/ SwapOut(p) \/ SwapIn(p) \/ ClearPage(p)
             \/ Clear \/ Relock \/ Killed \/ LockForWriting \/ ClearAreas \/ Cleared

-----------------------------------------------------------------------------
\* pte_to_pagemap_entry, and pagemap_pte_hole for a page that has none.
Reported(p) == p \in vm_soft \/ (pte[p] \in {"present", "swapped"} /\ p \in soft)

\* A page that was mapped or written after a clear has returned is reported, however
\* the writes, mappings and swapping run into the clear.
WritesReported == \A p \in fresh : Reported(p)
=============================================================================
