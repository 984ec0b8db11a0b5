------------------------------- MODULE Kcore -------------------------------
(***************************************************************************)
(* fs/proc, kcore.c: the kernel's own memory as a core file.  Its list of  *)
(* areas is made anew by whoever opens the file after memory has come or   *)
(* gone, and without a lock until the new list is put in the place of the  *)
(* old one.  A reader reads the headers, which tell where in the file each *)
(* area is, and then the areas, looking for each page in the list of then. *)
(* An area is a block of one page, known by its address; so are the pages. *)
(***************************************************************************)
EXTENDS Integers, SequencesExt, FiniteSetsExt

CONSTANTS Openers, Blocks,    \* who opens the file; the blocks of memory
          MaxHotplug,         \* bound on changes of memory
          PerPage,            \* how many program headers fill a page
          NULL, ZERO, HEADER, EOF   \* no headers read; what else a read shows

VARIABLES online,             \* the blocks that are RAM
          kclist, kcore_need_update,
          size, i_size,       \* of the file: in its proc entry and in its inode
          pc, seen,           \* of each opener: where it is, the RAM that it has found
                              \* and the size that it has loaded
          read,               \* of a read: fpos, start, and the pages left
          missed, alone, plugs,   \* history: memory changed behind somebody who had
                              \* walked; the last opening that began has met no
                              \* other one; changes of memory
          headers, shifted,   \* what the reader has been told, and since when no block
                              \* that is steady has gone; elf_buflen has changed since
          page                \* the offset and contents of the page that was read last

kclists   == <<kclist, kcore_need_update, size>>
hotplugs  == <<online, plugs, missed>>
openers   == <<i_size, pc, seen, alone>>
reader    == <<read, headers, shifted, page>>
kcoreVars == <<hotplugs, kclists, openers, reader>>

\* get_kcore_size: up to the end of the last area, behind the headers of all.
elf_buflen(list) == 1 + Cardinality(list) \div PerPage
SizeOf(list)     == Max(list) + 1 + elf_buflen(list)

\* get_sparsemem_vmemmap_info: the struct pages of each range of RAM (its first pfn and
\* the one behind it) are an area, too, of whole pages.  Areas are of type KCORE_VMEMMAP
\* here, and are added in the order of walk_system_ram_range.
STRUCTS == 3                  \* struct pages in a page
FirstOf(ram)  == ram[1] \div STRUCTS
BehindOf(ram) == (ram[2] + STRUCTS - 1) \div STRUCTS
get_sparsemem_vmemmap_info(list, ram) ==
    LET start == FirstOf(ram)
        end   == Min({BehindOf(ram)} \cup
                     {t[1] : t \in {u \in list : start < u[2] /\ BehindOf(ram) > u[1]}})
    IN  IF start < end THEN list \cup {<<start, end>>} ELSE list
Vmemmaps(rams) == FoldLeft(get_sparsemem_vmemmap_info, {}, rams)

Unseen == [ram |-> {}, size |-> 0]

KcoreInit ==
    /\ online \in (SUBSET Blocks) \ {{}}
    /\ kclist = online /\ kcore_need_update = FALSE
    /\ size = SizeOf(kclist) /\ i_size = 0
    /\ pc = [o \in Openers |-> "closed"] /\ seen = [o \in Openers |-> Unseen]
    /\ missed = FALSE /\ alone = FALSE /\ plugs = 0
    /\ read = [fpos |-> 0, start |-> 0, left |-> 0]
    /\ headers = NULL /\ shifted = FALSE /\ page = NULL

\* kcore_callback, when memory has come or gone.  Mutant: only when it has come.
NoteOnline == kcore_need_update' = (kcore_need_update \/ online \subseteq online')
Note       == kcore_need_update' = TRUE
Hotplug == /\ plugs < MaxHotplug
           /\ online' \in (SUBSET Blocks) \ {{}, online}
           /\ Note
           /\ plugs' = plugs + 1
           /\ missed' = (missed \/ \E o \in Openers : pc[o] = "walked")
           /\ headers' = IF headers = NULL THEN NULL
                         ELSE [headers EXCEPT !.steady = @ \cap online']
           /\ UNCHANGED <<kclist, size, openers, read, shifted, page>>

-----------------------------------------------------------------------------
Goto(o, from, to) == pc[o] = from /\ pc' = [pc EXCEPT ![o] = to]

Opening(o) == pc[o] \notin {"closed", "open"}

\* open_kcore and kcore_update_ram, which finds the RAM (or has no memory for that).
Open(o) == /\ Goto(o, "closed", IF kcore_need_update THEN "updating" ELSE "sizing")
           /\ alone' = ~\E q \in Openers : Opening(q)
           /\ UNCHANGED <<hotplugs, kclists, i_size, seen, reader>>
Walk(o) == /\ Goto(o, "updating", "walked")
           /\ seen' = [seen EXCEPT ![o].ram = online]
           /\ UNCHANGED <<hotplugs, kclists, i_size, alone, reader>>
WalkFails(o) == /\ Goto(o, "updating", "sizing")
                /\ UNCHANGED <<hotplugs, kclists, i_size, seen, alone, reader>>
\* __kcore_update_ram: unless somebody has changed the list meanwhile.
Update(o) == /\ Goto(o, "walked", "sizing")
             /\ kclist' = IF kcore_need_update THEN seen[o].ram ELSE kclist
             /\ kcore_need_update' = FALSE
             /\ size' = SizeOf(kclist')
             /\ shifted' = (shifted \/ elf_buflen(kclist') # elf_buflen(kclist))
             /\ seen' = [seen EXCEPT ![o] = Unseen]
             /\ UNCHANGED <<hotplugs, i_size, alone, read, headers, page>>
\* i_size is compared with size, and the size of then is loaded and stored under
\* inode_lock; but size changes under kclist_lock, at any of these steps.
LoadInodeSize(o) == /\ Goto(o, "sizing", "comparing")
                    /\ seen' = [seen EXCEPT ![o].size = i_size]
                    /\ UNCHANGED <<hotplugs, kclists, i_size, alone, reader>>
CompareSize(o) == /\ Goto(o, "comparing", IF seen[o].size = size THEN "open" ELSE "resizing")
                  /\ seen' = [seen EXCEPT ![o] = Unseen]
                  /\ UNCHANGED <<hotplugs, kclists, i_size, alone, reader>>
LoadSize(o) == /\ Goto(o, "resizing", "storing")
               /\ \A q \in Openers : pc[q] # "storing"
               /\ seen' = [seen EXCEPT ![o].size = size]
               /\ UNCHANGED <<hotplugs, kclists, i_size, alone, reader>>
StoreSize(o) == /\ Goto(o, "storing", "open")
                /\ i_size' = seen[o].size
                /\ seen' = [seen EXCEPT ![o] = Unseen]
                /\ UNCHANGED <<hotplugs, kclists, alone, reader>>
Close(o) == /\ Goto(o, "open", "closed")
            /\ UNCHANGED <<hotplugs, kclists, i_size, seen, alone, reader>>

-----------------------------------------------------------------------------
\* elf_kcore_store_hdr: where the data begins, and which areas there are.
ReadHeaders ==
    /\ read.left = 0
    /\ headers' = [dataoff |-> elf_buflen(kclist), areas |-> kclist,
                   steady |-> kclist \cap online]
    /\ shifted' = FALSE /\ page' = NULL
    /\ UNCHANGED <<hotplugs, kclists, openers, read>>
\* read_kcore of n pages, at the p_offset of an area: trimmed to the end of the file, and
\* counted from where the data begins now, which may be behind it.
ReadArea(b, n) ==
    /\ read.left = 0 /\ headers # NULL /\ b \in headers.areas
    /\ LET fpos == headers.dataoff + b
           left == Min({n, SizeOf(kclist) - fpos})
           hdrs == Min({left, Max({elf_buflen(kclist) - fpos, 0})})
       IN  IF left <= 0 THEN page' = <<fpos, EOF>> /\ UNCHANGED read
           ELSE /\ read' = [fpos  |-> fpos + hdrs, left |-> left - hdrs,
                            start |-> fpos + hdrs - elf_buflen(kclist)]
                /\ page' = IF hdrs > 0 THEN <<fpos, HEADER>> ELSE page
    /\ UNCHANGED <<hotplugs, kclists, openers, headers, shifted>>
\* What is in no area reads as zeros, and so may what is no RAM any more.
ReadPage ==
    /\ read.left > 0
    /\ \E v \in {read.start, ZERO} :
          /\ read.start \notin kclist => v = ZERO
          /\ read.start \in kclist \cap online => v = read.start
          /\ page' = <<read.fpos, v>>
    /\ read' = [fpos |-> read.fpos + 1, start |-> read.start + 1, left |-> read.left - 1]
    /\ UNCHANGED <<hotplugs, kclists, openers, headers, shifted>>
\* EFAULT: the reader's buffer is not there.
ReadFaults == /\ read.left > 0
              /\ read' = [read EXCEPT !.left = 0]
              /\ UNCHANGED <<hotplugs, kclists, openers, headers, shifted, page>>

KcoreNext == \/ Hotplug
             \/ ReadHeaders \/ ReadPage \/ ReadFaults
             \/ \E b \in Blocks, n \in 1 .. 2 : ReadArea(b, n)
             \/ \E o \in Openers : \/ Open(o) \/ Walk(o) \/ WalkFails(o)
                                   \/ Update(o) \/ Close(o)
                                   \/ LoadInodeSize(o) \/ CompareSize(o)
                                   \/ LoadSize(o) \/ StoreSize(o)

-----------------------------------------------------------------------------
\* A list that nobody is to make anew has every block there is, and no other, unless
\* memory changed between somebody's walk and the end of it: then kcore_need_update
\* is cleared for a list that was old already.  When nobody is opening the file its
\* inode has the size of its entry, if the last opening went on alone: of two that
\* overlap, one may store an old size last, or find that there is nothing to store.
AreasKnown ==
    /\ kcore_need_update \/ missed \/ kclist = online
    /\ alone /\ (\A o \in Openers : ~Opening(o)) => i_size = size

\* What a reader finds where the headers told it to look for an area is that area, if
\* it has been there all the time.  Only when the headers have grown or shrunk by a
\* page since then is it any other page, since every offset is counted from them.
AreasRead ==
    headers # NULL /\ page # NULL /\ ~shifted =>
        \A b \in headers.areas : page[1] = headers.dataoff + b =>
            /\ page[2] \in {b, ZERO, EOF}
            /\ b \in headers.steady /\ ~missed => page[2] = b

\* No two areas of struct pages overlap, and they show those of all RAM, but for a
\* range that begins in the page in which the one before it ends: the overlap check
\* cuts it off at the beginning of that one, so that nothing is left of it.
Ranges == {r \in (0 .. 7) \X (1 .. 8) : r[1] < r[2]}
Rams   == {s \in UNION {[1 .. n -> Ranges] : n \in 1 .. 3} :
              \A i \in DOMAIN s : i > 1 => s[i - 1][2] <= s[i][1]}
Struct(ram) == FirstOf(ram) .. BehindOf(ram) - 1
VmemmapsRight ==
    \A rams \in Rams : LET list == Vmemmaps(rams) IN
        /\ \A t, u \in list : t # u => t[2] <= u[1] \/ u[2] <= t[1]
        /\ \A i \in DOMAIN rams :
              \/ \A p \in Struct(rams[i]) : \E t \in list : p \in t[1] .. t[2] - 1
              \/ i > 1 /\ FirstOf(rams[i]) \in Struct(rams[i - 1])
=============================================================================
