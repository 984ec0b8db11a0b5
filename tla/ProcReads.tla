----------------------------- MODULE ProcReads -----------------------------
(***************************************************************************)
(* fs/proc: reads that are put together from pieces.  cmdline, environ and *)
(* mem copy the memory of a process through one page, of which less may be *)
(* there than was asked for; kpagecount, kpageflags and kpagecgroup give   *)
(* one entry after another, and pagemap those of a walk over some pages at *)
(* a time.  A reader reads on until a read returns nothing.  A byte of     *)
(* memory is NUL or is known by its address, and a byte of an array by its *)
(* place, but the first of an entry about a page is its value.             *)
(***************************************************************************)
EXTENDS Integers, SequencesExt

CONSTANTS PAGE_SIZE, Counts,  \* what a read may ask for
          Top, NUL,           \* the addresses are 1 .. Top - 1
          max_pfn             \* physical pages, 0 .. max_pfn - 1

VARIABLES file,
          arg_end, env_end,   \* the command line begins at 1, the environment behind it
          nuls, gone,         \* the addresses that hold NUL, or, for the files about
                              \* physical pages, what each is; the first not there
          alive,              \* the process has its memory
          start, ppos,        \* where the reader began, and is
          stage, count,       \* "rest", "copying", "final" or "oops"; what is left to copy
          out, ret,           \* what a read has copied; what it has returned
          got, skipped        \* history: what the reads have reported; what they have
                              \* returned that moved behind what they did not report

area      == <<file, arg_end, env_end, nuls, gone, start>>
history   == <<got, skipped>>
readsVars == <<area, alive, ppos, stage, count, out, ret, history>>

\* The environ of cw04/debug takes env_end from env_start and keeps its page; the one
\* of cw05 gives the page's address for its struct page, and what lies there decides.
Environs == {"environ_cw04", "environ_cw05"}
Kpages == {"kpagecount", "kpageflags", "kpagecgroup"}
Arrays == Kpages \cup {"pagemap"}
Files  == {"cmdline", "mem"} \cup Environs \cup Arrays
ENTRY  == 2                   \* bytes of an entry: KPMSIZE, PM_ENTRY_BYTES
WALK   == 2                   \* pages of a walk: PAGEMAP_WALK_SIZE
EIO    == -5
EFAULT == -14

\* A physical page is a hole, a page of its own, the first of a compound page or of
\* a free block, or another one of it.  Bound: they stay as they are.
Compounds == {"slab", "huge", "thp", "huge_zero", "driver"}
Sorts     == {"hole", "user", "zero", "tail", "free"} \cup Compounds
Layouts   == {s \in [0 .. max_pfn - 1 -> Sorts] :
                \A n \in DOMAIN s :
                    /\ s[n] = "tail" => n > 0 /\ s[n - 1] \in Compounds \cup {"tail"}
                    /\ s[n] \in {"huge", "thp", "huge_zero"} => n + 1 < max_pfn /\ s[n + 1] = "tail"}
KEnd      == max_pfn * ENTRY

\* The arrays are read at entries, whatever else is refused with EINVAL.
ReadsInit ==
    /\ file \in Files
    /\ arg_end \in 1 .. Top - 2 /\ env_end \in {arg_end, Top - 1}
    /\ file \in Arrays \cup {"mem"} => arg_end = 1
    /\ file \in Arrays => env_end = 1
    /\ IF file \in Kpages THEN nuls \in Layouts /\ gone = Top
       ELSE IF file = "pagemap" THEN nuls = {} /\ gone = Top
       ELSE nuls \in SUBSET (1 .. Top - 2) /\ gone \in {4, Top}
    /\ alive = TRUE
    /\ start \in IF file \in Kpages THEN {0, ENTRY, KEnd + ENTRY}
                ELSE IF file = "pagemap" THEN {0, ENTRY}
                ELSE IF file = "mem" THEN {1, 2} ELSE 0 .. 3
    /\ ppos = start /\ stage = "rest" /\ count = 0 /\ out = <<>> /\ ret = NUL
    /\ got = <<>> /\ skipped = {}

Byte(a)  == IF a \in nuls THEN NUL ELSE a
\* What access_remote_vm gets of n bytes at a.
Remote(a, n) == [k \in 1 .. Min({n, Max({gone - a, 0})}) |-> Byte(a + k - 1)]

-----------------------------------------------------------------------------
\* Of what a page is part.  Behind max_pfn there is no page.
Sort(n)    == IF n \in DOMAIN nuls THEN nuls[n] ELSE "hole"
compound_head(n) == CHOOSE h \in 0 .. n : /\ Sort(h) # "tail"
                                         /\ \A k \in h + 1 .. n : Sort(k) = "tail"
PageTail(n) == Sort(n) = "tail"
PageHead(n) == ~PageTail(n) /\ Sort(n + 1) = "tail"
PageSlab(n) == Sort(compound_head(n)) = "slab"
PageAnon(n) == Sort(compound_head(n)) \in {"user", "thp"}

\* The flags of kpageflags, but for most of those that are copied one by one.
If(flag, condition) == {x \in {flag} : condition}
stable_page_flags(n) ==
    LET of == Sort(compound_head(n)) IN
    IF of = "hole" THEN {"NOPAGE"} ELSE
    UNION {If("MMAP", of \in {"user", "thp", "huge"}), If("ANON", PageAnon(n)),
           If("COMPOUND_HEAD", PageHead(n)), If("COMPOUND_TAIL", PageTail(n)),
           IF of = "huge" THEN {"HUGE"}
           ELSE IF PageHead(n) \/ PageTail(n)
           THEN If("THP", PageAnon(compound_head(n)) \/ of = "huge_zero")
                \cup If("ZERO_PAGE", of = "huge_zero")
           ELSE If("ZERO_PAGE", of = "zero"),
           If("BUDDY", of = "free"),
           If("SLAB", Sort(n) = "slab" \/ (PageTail(n) /\ PageSlab(compound_head(n))))}

\* An entry, as the place of its first byte where the kernel gives a number.
Entry(n) == CASE file = "kpageflags"  -> stable_page_flags(n)
              [] file = "kpagecount"  -> IF Sort(n) = "hole" \/ PageSlab(n) THEN 0 ELSE n * ENTRY + 1
              [] file = "kpagecgroup" -> IF Sort(n) = "hole" THEN 0 ELSE n * ENTRY + 1

-----------------------------------------------------------------------------
\* The last byte of the command line tells whether it is several strings, or one,
\* which may go on in the environment.
len1     == arg_end - 1
OneString == file = "cmdline" /\ arg_end - 1 \notin nuls
Begun    == len1 # 0 /\ arg_end - 1 < gone
EnvEnd   == IF file = "environ_cw04" THEN arg_end ELSE env_end

\* What is left of the environment when the command line goes on in it.  Mutant: as if
\* the read had begun with the environment.
EnvRestAll(q) == env_end - arg_end
EnvRest(q)    == len1 + (env_end - arg_end) - q

\* How far the part goes that a read which is at q is in.
Walk(q) == (q \div ENTRY) \div WALK
Part(q) ==
    CASE file = "cmdline" -> IF ~Begun THEN 0 ELSE IF q < len1 THEN len1 - q
                             ELSE IF OneString THEN EnvRest(q) ELSE 0
      [] file \in Environs -> EnvEnd - (arg_end + q)
      [] file = "mem" -> PAGE_SIZE
      [] file \in Kpages -> ENTRY
      [] OTHER -> Min({(Walk(q) + 1) * WALK, Top - 1}) * ENTRY - q

\* Where in memory it is: the environment lies right behind the command line.
From(q) == IF file = "mem" THEN q ELSE IF file = "cmdline" THEN 1 + q ELSE arg_end + q
Piece(q) ==
    IF file \in Kpages THEN <<Entry(q \div ENTRY), q + 1>>
    ELSE IF file = "pagemap" THEN [k \in 1 .. Min({count, Part(q)}) |-> q + k - 1]
    ELSE Remote(From(q), Min({count, Part(q), PAGE_SIZE}))

Before(s) == LET f == SelectInSeq(s, LAMBDA b : b = NUL)
             IN  IF f = 0 THEN s ELSE SubSeq(s, 1, f - 1)

-----------------------------------------------------------------------------
at   == ppos + Len(out)
Over == count = 0 \/ Part(at) <= 0

\* The end of the pages is the end of the file, but not for a read that is behind it:
\* the difference is unsigned.
Wanted(n)    == IF file \in Kpages /\ ppos <= KEnd THEN Min({n, KEnd - ppos}) ELSE n
ReadBegin(n) == /\ stage = "rest" /\ alive
                /\ ppos <= KEnd + 2 * ENTRY \/ file \notin Kpages    \* bound
                /\ count' = Wanted(n) /\ stage' = "copying" /\ out' = <<>>
                /\ UNCHANGED <<area, alive, ppos, ret, history>>
CopyPiece == /\ stage = "copying" /\ ~Over /\ Piece(at) # <<>>
             /\ LET piece == Piece(at)
                    shown == IF OneString THEN Before(piece) ELSE piece
                IN  /\ out' = out \o shown
                    /\ count' = count - Len(shown)
                    /\ stage' = IF shown = piece THEN "copying" ELSE "final"
             /\ UNCHANGED <<area, alive, ppos, ret, history>>

\* ppos moves on by what is returned, or by what has been copied.
Finish(r) == /\ ret' = r /\ count' = 0
             /\ stage' \in {"rest"} \cup {x \in {"oops"} : file = "environ_cw05"}
             /\ ppos' = IF file \in {"cmdline", "pagemap"} THEN ppos + Max({r, 0}) ELSE at
             /\ got' = IF r > 0 THEN got \o out ELSE got
             /\ skipped' = IF ppos' = ppos + Max({r, 0}) THEN skipped ELSE skipped \cup {r}
             /\ UNCHANGED <<area, alive, out>>
ReadEnd  == /\ stage = "final" \/ (stage = "copying" /\ Over)
            /\ Finish(Len(out))
\* The rest of the memory is not there.  environ returns nothing even if it has
\* copied something.
NotThere == /\ stage = "copying" /\ ~Over /\ Piece(at) = <<>>
            /\ Finish(CASE file \in Environs -> 0
                        [] file = "mem" /\ out = <<>> -> EIO
                        [] OTHER -> Len(out))
\* The reader's buffer is not there (for a piece, or a part of the command line).
Fault == stage = "copying" /\ ~Over /\ Piece(at) # <<>> /\ Finish(EFAULT)

\* When the process has exited mem and environ are at their end, and cmdline is an
\* error; kpagecount is not about a process.
Exit == /\ alive /\ stage = "rest" /\ alive' = FALSE
        /\ UNCHANGED <<area, ppos, stage, count, out, ret, history>>

ReadsNext == \/ \E n \in Counts : (file \in Arrays => n % ENTRY = 0) /\ ReadBegin(n)
             \/ CopyPiece \/ ReadEnd \/ NotThere \/ Fault \/ Exit

-----------------------------------------------------------------------------
\* What there is to read from start on.
Contents ==
    CASE file = "cmdline" ->
             IF ~Begun THEN <<>>
             ELSE IF OneString THEN Before(Remote(1 + start, env_end - 1 - start))
             ELSE Remote(1 + start, Max({len1 - start, 0}))
      [] file = "environ_cw05" -> Remote(arg_end + start, Max({env_end - arg_end - start, 0}))
      [] file = "environ_cw04" -> <<>>
      [] file = "mem"          -> Remote(start, Top)
      [] file \in Kpages -> [k \in 1 .. KEnd - start |->
                               IF k % ENTRY = 1 THEN Entry((start + k) \div ENTRY) ELSE start + k - 1]
      [] OTHER -> [k \in 1 .. (Top - 1) * ENTRY - start |-> start + k - 1]

\* However the reads cut it up, what they report is what there is, from the beginning
\* and with nothing twice, and when one returns nothing it was all.  Only after an
\* error, or, for environ, when memory was not there, has one moved behind what it
\* did not report (base.c:974, page.c:65); the command line and pagemap do not.  A read
\* of the files about pages that begins behind their end finds entries, and no end.
\* What kpageflags gives tells where compound pages begin and end ("they together
\* define a compound page's start/end pos and order", page.c:118), and of all pages of
\* one the same, which is at most one thing.
BehindEnd == file \in Kpages /\ start > KEnd
Told(n)   == got[n * ENTRY + 1]
CompoundsTold ==
    \A n \in 0 .. max_pfn - 1 :
        /\ "COMPOUND_TAIL" \in Told(n) <=> nuls[n] = "tail"
        /\ n + 1 < max_pfn => ("COMPOUND_HEAD" \in Told(n) <=>
               "COMPOUND_TAIL" \in Told(n + 1) /\ "COMPOUND_TAIL" \notin Told(n))
        /\ "COMPOUND_TAIL" \in Told(n) =>
               \A flag \in {"SLAB", "HUGE", "THP", "ANON"} : flag \in Told(n) <=> flag \in Told(n - 1)
        /\ Cardinality({"SLAB", "HUGE", "THP", "BUDDY", "NOPAGE"} \cap Told(n)) <= 1
ReadsWhole ==
    /\ skipped = {} /\ ~BehindEnd =>
           /\ IsPrefix(got, Contents)
           /\ stage = "rest" => ppos = start + Len(got)
           /\ stage = "rest" /\ ret \in {0, EIO} => got = Contents
    /\ skipped # {} => file \notin {"cmdline", "pagemap"}
    /\ 0 \in skipped => file = "environ_cw05" /\ gone < Top
    /\ BehindEnd => ret # 0
    /\ file = "kpageflags" /\ start = 0 /\ skipped = {} /\ Len(got) = KEnd => CompoundsTold
=============================================================================
