------------------------------- MODULE Vmcore -------------------------------
(***************************************************************************)
(* fs/proc, vmcore.c: the memory of a kernel that crashed, as a core file. *)
(* Its ELF headers, of 64 or 32 bits, are read once, step by step, each of *)
(* which may fail: the notes of all its processors become one segment, and *)
(* each piece of memory one that begins and ends with a page.  Then the    *)
(* file is read, in pieces, or mapped.  A byte of old memory is known by   *)
(* its address; ZERO is a byte of a page that is no RAM (those of the      *)
(* balloon).                                                               *)
(***************************************************************************)
EXTENDS Integers, SequencesExt

CONSTANTS PAGE_SIZE, ZERO, WORD,  \* an Elf32_Off is less than WORD
          Counts              \* what a read may ask for

VARIABLES notes,              \* of each processor: sizes of its notes, and the room it has
          loads,              \* of each piece of memory: where it is, and how long
          balloon,            \* the pages that are no RAM
          elfclass,           \* 32 or 64
          held, vmcore_list,  \* what has been allocated; the pieces of memory in the list
          fpos, buflen, acc,  \* of a read that goes on: the file position, what is
                              \* left to read, and what has been copied
          stage, shown        \* how far it has been set up, "rest" or "reading", or
                              \* "failed" or "gone"; history: what a read or a mapping
                              \* has shown last, and at which offset

core       == <<notes, loads, balloon, elfclass>>
setup      == <<held, vmcore_list>>
vmcoreVars == <<core, setup, fpos, buflen, acc, stage, shown>>

EHDR == 1                     \* sizes of the ELF header and of a program header
PHDR == 1

SumOf(s)     == FoldLeft(LAMBDA a, b : a + b, 0, s)
RoundDown(n) == (n \div PAGE_SIZE) * PAGE_SIZE
RoundUp(n)   == RoundDown(n + PAGE_SIZE - 1)

\* Bounds: one processor or two, with notes that fit or not; one piece or two.
Notes == {[sizes |-> s, room |-> 2] : s \in {<<1>>, <<2, 1>>}}
Loads == {[paddr |-> p, memsz |-> n] : p \in {0, 1, PAGE_SIZE + 1}, n \in {1, PAGE_SIZE + 1}}

\* kexec writes the notes before the memory, and at least one.  Bound: the headers of 32
\* bits are used without a balloon.
VmcoreInit ==
    /\ notes \in {<<a>> : a \in Notes} \cup {<<a, b>> : a, b \in Notes}
    /\ loads \in {<<a>> : a \in Loads} \cup {<<a, b>> : a, b \in Loads}
    /\ balloon \in {{}, {1}} /\ elfclass \in {32, 64}
    /\ elfclass = 32 => balloon = {}
    /\ held = {} /\ vmcore_list = <<>>
    /\ fpos = 0 /\ buflen = 0 /\ acc = <<>> /\ stage = "off"
    /\ shown = [at |-> 0, bytes |-> <<>>]

-----------------------------------------------------------------------------
\* update_note_header_size_elf64 and _elf32: the notes that are within the room.
Fitting(n)  == {x \in {SumOf(SubSeq(n.sizes, 1, k)) : k \in 0 .. Len(n.sizes)} : x <= n.room}
RealSize(n) == Max(Fitting(n))
\* copy_notes_elf64 and _elf32: one after another, each byte known by its processor and
\* place.
NoteBytes(i) == [k \in 1 .. RealSize(notes[i]) |-> <<"note", i, k>>]
NotesBuf == FlattenSeq([i \in DOMAIN notes |-> NoteBytes(i)])
sz_ptnote == SumOf([i \in DOMAIN notes |-> RealSize(notes[i])])
notes_sz == RoundUp(sz_ptnote)

\* merge_note_headers_elf64: one program header is left of those of the notes.
phnum      == Len(notes) + Len(loads)
headers_sz == RoundUp(EHDR + phnum * PHDR - (Len(notes) - 1) * PHDR)
NoteOffset == RoundUp(EHDR + (phnum - Len(notes) + 1) * PHDR)
vmcore_off == headers_sz + notes_sz

\* process_ptload_program_headers_elf64 and set_vmcore_list_offsets.
Start(l)   == RoundDown(l.paddr)
Size(l)    == RoundUp(l.paddr + l.memsz) - Start(l)
Offset(i)  == vmcore_off + SumOf([j \in 1 .. i - 1 |-> Size(loads[j])])
\* p_offset, of which an Elf32_Phdr has only 32 bits.
Off(n) == IF elfclass = 32 THEN n % WORD ELSE n
LoadOffset(i) == Off(Offset(i) + (loads[i].paddr - Start(loads[i])))
vmcore_size == Offset(Len(loads) + 1)

Old(a) == IF a \div PAGE_SIZE \in balloon THEN ZERO ELSE <<"old", a>>

-----------------------------------------------------------------------------
\* vmcore_init: the steps in order.  What fails is undone by free_elfcorebuf alone: the
\* headers of the architecture and the list stay.
SetUp(from, to, what) == /\ stage = from /\ stage' = to /\ held' = held \cup what
                         /\ UNCHANGED <<core, fpos, buflen, acc, shown>>
Bufs == {"elfcorebuf", "elfnotes_buf"}
elfcorehdr_alloc == SetUp("off", "ident", {"elfcorehdr"}) /\ UNCHANGED vmcore_list
parse_crash_elf_headers == SetUp("ident", "headers", {}) /\ UNCHANGED vmcore_list
LoadHeaders == SetUp("headers", "merge", {"elfcorebuf"}) /\ UNCHANGED vmcore_list
MergeNotes  == SetUp("merge", "list", {"elfnotes_buf"}) /\ UNCHANGED vmcore_list
AddMemory   == LET l == loads[Len(vmcore_list) + 1]
               IN  /\ Len(vmcore_list) < Len(loads) /\ SetUp("list", "list", {})
                   /\ vmcore_list' = Append(vmcore_list, [paddr |-> Start(l), size |-> Size(l)])
free_elfcorebuf == held' = held \ Bufs
SetUpFails == /\ stage \in {"ident", "headers", "merge", "list"}
              /\ Len(vmcore_list) < Len(loads)
              /\ free_elfcorebuf /\ stage' = "failed"
              /\ UNCHANGED <<core, vmcore_list, fpos, buflen, acc, shown>>
\* The entry may not be created, and nobody notices.
CreateEntry == /\ stage = "list" /\ Len(vmcore_list) = Len(loads)
               /\ \/ stage' = "rest" /\ held' = (held \ {"elfcorehdr"}) \cup {"proc_vmcore"}
                  \/ stage' = "unseen" /\ held' = held \ {"elfcorehdr"}
               /\ UNCHANGED <<core, vmcore_list, fpos, buflen, acc, shown>>
\* It waits for reads.
vmcore_cleanup == /\ stage \in {"rest", "unseen", "failed"} /\ stage' = "gone"
                  /\ held' = held \ (Bufs \cup {"proc_vmcore"}) /\ vmcore_list' = <<>>
                  /\ UNCHANGED <<core, fpos, buflen, acc, shown>>

-----------------------------------------------------------------------------
\* __read_vmcore, trimmed to the end of the file.
ReadVmcore(n) == /\ stage = "rest" /\ fpos < vmcore_size
                 /\ buflen' = Min({n, vmcore_size - fpos}) /\ acc' = <<>>
                 /\ stage' = "reading"
                 /\ UNCHANGED <<core, setup, fpos, shown>>
Piece(bytes) == /\ acc' = acc \o bytes
                /\ fpos' = fpos + Len(bytes) /\ buflen' = buflen - Len(bytes)
                /\ UNCHANGED <<core, setup, stage, shown>>
Upto(end) == Min({end - fpos, buflen})

ReadHeaders == /\ stage = "reading" /\ buflen > 0 /\ fpos < headers_sz
               /\ Piece([k \in 1 .. Upto(headers_sz) |-> <<"headers", fpos + k - 1>>])
ReadNotes == /\ stage = "reading" /\ buflen > 0 /\ fpos \in headers_sz .. vmcore_off - 1
             /\ Piece([k \in 1 .. Upto(vmcore_off) |->
                   LET j == fpos - headers_sz + k
                   IN  IF j <= Len(NotesBuf) THEN NotesBuf[j] ELSE ZERO])
\* read_from_oldmem: up to the end of a page.  Mutant: a page at a time.
ToPageEndWhole(a) == PAGE_SIZE
ToPageEnd(a)      == PAGE_SIZE - (a % PAGE_SIZE)
ReadMemory(i) ==
    /\ stage = "reading" /\ buflen > 0 /\ fpos \in Offset(i) .. Offset(i + 1) - 1
    /\ LET a == Start(loads[i]) + fpos - Offset(i)
           n == Min({Upto(Offset(i + 1)), ToPageEnd(a)})
       IN  Piece([k \in 1 .. n |->
               IF a \div PAGE_SIZE \in balloon THEN ZERO ELSE <<"old", a + k - 1>>])
ReadReturns == /\ stage = "reading" /\ buflen = 0
               /\ shown' = [at |-> fpos - Len(acc), bytes |-> acc]
               /\ stage' = "rest" /\ acc' = <<>>
               /\ UNCHANGED <<core, setup, fpos, buflen>>
\* EFAULT: what was copied is not reported, but fpos has moved.
ReadFaults == /\ stage = "reading" /\ buflen > 0
              /\ stage' = "rest" /\ acc' = <<>> /\ buflen' = 0
              /\ UNCHANGED <<core, setup, fpos, shown>>

\* remap_oldmem_pfn_checked: pages up to one that is no RAM at once, the zero page for
\* that one; from + len is where the next ones go.
RemapStep(m, pos) ==
    IF pos \notin balloon THEN m
    ELSE [start |-> pos + 1,
          bytes |-> m.bytes \o [k \in 1 .. (pos - m.start) * PAGE_SIZE |->
                                   <<"old", m.start * PAGE_SIZE + k - 1>>]
                            \o [k \in 1 .. PAGE_SIZE |-> ZERO]]
Remap(pfn, n) ==
    LET m == FoldLeft(RemapStep, [start |-> pfn, bytes |-> <<>>],
                      [k \in 1 .. n |-> pfn + k - 1])
    IN  m.bytes \o [k \in 1 .. (pfn + n - m.start) * PAGE_SIZE |->
                       <<"old", m.start * PAGE_SIZE + k - 1>>]

\* mmap_vmcore of whole pages within one segment of memory.
Mmap(i, first, n) ==
    /\ stage = "rest"
    /\ LET o == Offset(i) + first * PAGE_SIZE
       IN  /\ o + n * PAGE_SIZE <= Offset(i + 1)
           /\ shown' = [at    |-> o,
                        bytes |-> Remap(Start(loads[i]) \div PAGE_SIZE + first, n)]
    /\ UNCHANGED <<core, setup, fpos, buflen, acc, stage>>

VmcoreNext == \/ elfcorehdr_alloc \/ parse_crash_elf_headers \/ LoadHeaders \/ MergeNotes
              \/ AddMemory \/ SetUpFails \/ CreateEntry \/ vmcore_cleanup
              \/ \E n \in Counts : ReadVmcore(n)
              \/ ReadHeaders \/ ReadNotes \/ ReadReturns \/ ReadFaults
              \/ \E i \in DOMAIN loads : ReadMemory(i)
              \/ \E i \in DOMAIN loads, first \in 0 .. 1, n \in 1 .. 2 : Mmap(i, first, n)

-----------------------------------------------------------------------------
\* Where the program headers say that a piece of memory is, a read or a mapping, cut up
\* in any way, shows that piece, unless the file is longer than 32 bits can say; and
\* where they say the notes are, those of each processor that fit into its room, in
\* order.  Nothing is left that can be read, or freed again, when the setup has failed.
At(o) == shown.bytes[o - shown.at + 1]
Shows == shown.at .. shown.at + Len(shown.bytes) - 1
CoreRight ==
    /\ elfclass = 64 \/ vmcore_size <= WORD =>
       \A i \in DOMAIN loads : LET o == LoadOffset(i) IN
          \A k \in 0 .. loads[i].memsz - 1 :
             o + k \in Shows => At(o + k) = Old(loads[i].paddr + k)
    /\ \A o \in Shows \cap NoteOffset .. NoteOffset + sz_ptnote - 1 :
          At(o) = NotesBuf[o - NoteOffset + 1]
    /\ stage \in {"rest", "reading"} => /\ held = Bufs \cup {"proc_vmcore"}
                                        /\ vmcore_off + SumOf([i \in DOMAIN vmcore_list |->
                                              vmcore_list[i].size]) = vmcore_size
    /\ stage \in {"failed", "gone"} => held \subseteq {"elfcorehdr"}
    /\ stage = "gone" => vmcore_list = <<>>
=============================================================================
