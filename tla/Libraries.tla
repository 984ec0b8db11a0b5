------------------------------ MODULE Libraries ------------------------------
(***************************************************************************)
(* cw01/zad5: writers and readers share LIBS_NUM libraries.  A thread that *)
(* fails to lock a library tries the next one; at most LIB_MAX_READERS     *)
(* readers are let into a library.  cw01/zad3 is the same program without  *)
(* that limit, that is, with a limit no smaller than its READERS_NUM.      *)
(*                                                                         *)
(* The reader's test readers_count == 1 (zad3 line 73, zad5 line 79) reads *)
(* the global of that name, which stays 0, not the library's own count.    *)
(* So a reader never locks w_mutex, yet the last one out unlocks it, even  *)
(* when a writer holds it.  Unlocking another thread's mutex is undefined; *)
(* a default mutex of glibc is simply free afterwards.  A second writer    *)
(* may then be let in, so the writers' accesses to top are separate steps. *)
(***************************************************************************)
EXTENDS Pthreads

CONSTANTS Readers, Writers, LIBS_NUM, LIB_MAX_READERS, BOOKS,
          NUL                          \* an empty cell

ASSUME Sizes == /\ LIBS_NUM \in Nat \ {0}
                /\ LIB_MAX_READERS \in Nat \ {0}
                /\ BOOKS \in Nat /\ BOOKS >= Cardinality(Writers)
ASSUME Roles == /\ IsFiniteSet(Readers) /\ IsFiniteSet(Writers)
                /\ Readers \cap Writers = {} /\ NUL \notin Writers

VARIABLES books, top, r_mutex, w_mutex, readers_count,   \* of each library
          it,       \* the library each thread is at, or tries
          pc, idx   \* where each thread is; the top each writer has read

sharedVars == <<books, top, r_mutex, w_mutex, readers_count>>
vars == <<sharedVars, it, pc, idx>>

Libs == 0 .. LIBS_NUM - 1
Threads == Readers \cup Writers

Init == /\ books = [l \in Libs |-> [k \in 0 .. BOOKS - 1 |-> NUL]]
        /\ top = [l \in Libs |-> 0]
        /\ r_mutex = [l \in Libs |-> 1]
        /\ w_mutex = [l \in Libs |-> 1]
        /\ readers_count = [l \in Libs |-> 0]
        /\ it = [t \in Threads |-> 0]
        /\ pc = [t \in Threads |-> "trying"]
        /\ idx = [w \in Writers |-> 0]

Goto(t, label) == pc' = [pc EXCEPT ![t] = label]
Set(lib, l, value) == lib' = [lib EXCEPT ![l] = value]

\* The call succeeds on a free mutex only.  Mutant: on any mutex.
TryLockAnyway(mutex, l) == Set(mutex, l, 0)
TryLock(mutex, l) == mutex[l] = 1 /\ Set(mutex, l, 0)

TryNext(t, mutex) == /\ pc[t] = "trying"
                     /\ mutex[it[t]] = 0
                     /\ it' = [it EXCEPT ![t] = (@ + 1) % LIBS_NUM]
                     /\ UNCHANGED <<sharedVars, pc, idx>>

-----------------------------------------------------------------------------
WriterLocks(w) == /\ pc[w] = "trying"
                  /\ TryLock(w_mutex, it[w])
                  /\ Goto(w, "writing")
                  /\ UNCHANGED <<books, top, r_mutex, readers_count, it, idx>>

\* libs[it].books[libs[it].top] = letter, whose index is read before the store
LoadTop(w) == /\ pc[w] = "writing"
              /\ idx' = [idx EXCEPT ![w] = top[it[w]]]
              /\ Goto(w, "storing")
              /\ UNCHANGED <<sharedVars, it>>

\* The store, and the read of libs[it].top++.
StoreBook(w) == /\ pc[w] = "storing"
                /\ books' = [books EXCEPT ![it[w]][idx[w]] = w]
                /\ idx' = [idx EXCEPT ![w] = top[it[w]]]
                /\ Goto(w, "counting")
                /\ UNCHANGED <<top, r_mutex, w_mutex, readers_count, it>>

\* The write of libs[it].top++, and the unlock.
\* Mutant: top is left alone.
LeaveTop(w) == /\ pc[w] = "counting"
               /\ Set(w_mutex, it[w], 1)
               /\ Goto(w, "done")
               /\ UNCHANGED <<books, top, r_mutex, readers_count, it, idx>>
StoreTop(w) == /\ pc[w] = "counting"
               /\ Set(top, it[w], idx[w] + 1)
               /\ Set(w_mutex, it[w], 1)
               /\ Goto(w, "done")
               /\ UNCHANGED <<books, r_mutex, readers_count, it, idx>>

-----------------------------------------------------------------------------
ReaderLocks(r) == /\ pc[r] = "trying"
                  /\ TryLock(r_mutex, it[r])
                  /\ Goto(r, "entering")
                  /\ UNCHANGED <<books, top, w_mutex, readers_count, it, idx>>

\* The library still takes a reader.
Room(l) == readers_count[l] < LIB_MAX_READERS

\* The full library is released, and tried again.  Mutant: it is not released.
KeepFullLibrary(r) == /\ pc[r] = "entering"
                      /\ ~Room(it[r])
                      /\ Goto(r, "trying")
                      /\ UNCHANGED <<sharedVars, it, idx>>
TurnedAway(r) == /\ pc[r] = "entering"
                 /\ ~Room(it[r])
                 /\ Set(r_mutex, it[r], 1)
                 /\ Goto(r, "trying")
                 /\ UNCHANGED <<books, top, w_mutex, readers_count, it, idx>>

ReaderEnters(r) ==
    /\ pc[r] = "entering"
    /\ Room(it[r])
    /\ Set(readers_count, it[r], readers_count[it[r]] + 1)
    /\ Set(r_mutex, it[r], 1)
    /\ Goto(r, "reading")
    /\ UNCHANGED <<books, top, w_mutex, it, idx>>

ReaderRelocks(r) == /\ pc[r] = "reading"
                    /\ TryLock(r_mutex, it[r])     \* waits until it is free
                    /\ Goto(r, "leaving")
                    /\ UNCHANGED <<books, top, w_mutex, readers_count, it, idx>>

\* The last reader out unlocks w_mutex, whoever holds it.
\* Mutant: the reader is not counted out.
LeaveCounted(r) == /\ pc[r] = "leaving"
                   /\ Set(r_mutex, it[r], 1)
                   /\ Goto(r, "done")
                   /\ UNCHANGED <<books, top, w_mutex, readers_count, it, idx>>
ReaderLeaves(r) ==
    /\ pc[r] = "leaving"
    /\ Set(readers_count, it[r], readers_count[it[r]] - 1)
    /\ Set(w_mutex, it[r], IF readers_count'[it[r]] = 0 THEN 1 ELSE w_mutex[it[r]])
    /\ Set(r_mutex, it[r], 1)
    /\ Goto(r, "done")
    /\ UNCHANGED <<books, top, it, idx>>

Writer(w) == \/ TryNext(w, w_mutex) \/ WriterLocks(w)
             \/ LoadTop(w) \/ StoreBook(w) \/ StoreTop(w)
Reader(r) == \/ TryNext(r, r_mutex) \/ ReaderLocks(r) \/ TurnedAway(r)
             \/ ReaderEnters(r) \/ ReaderRelocks(r) \/ ReaderLeaves(r)

\* main joins every thread and returns.
AllDone == \A t \in Threads : pc[t] = "done"
Exited  == AllDone /\ UNCHANGED vars

Next == \/ \E w \in Writers : Writer(w)
        \/ \E r \in Readers : Reader(r)
        \/ Exited

Spec == Init /\ [][Next]_vars

\* Every thread that can run does.  A default mutex promises no more: who of those
\* that wait for it gets it is anybody's.
FairSpec == /\ Spec
            /\ \A w \in Writers : WF_vars(Writer(w))
            /\ \A r \in Readers : WF_vars(Reader(r))

-----------------------------------------------------------------------------
At(l, labels) == {t \in Threads : it[t] = l /\ pc[t] \in labels}
ReadersAt(l, labels) == At(l, labels) \cap Readers
Inside(l) == At(l, {"writing", "storing", "counting"})

\* A reader has left the library.
Visited(l) == ReadersAt(l, {"done"}) # {}

\* Known places, and an index that never leaves the array of books.
TypeOK == /\ books \in [Libs -> [0 .. BOOKS - 1 -> Writers \cup {NUL}]]
          /\ top \in [Libs -> 0 .. BOOKS]
          /\ r_mutex \in [Libs -> {0, 1}] /\ w_mutex \in [Libs -> {0, 1}]
          /\ readers_count \in [Libs -> 0 .. LIB_MAX_READERS]
          /\ it \in [Threads -> Libs]
          /\ pc \in [Threads -> {"trying", "writing", "storing", "counting",
                                 "entering", "reading", "leaving", "done"}]
          /\ idx \in [Writers -> 0 .. BOOKS]

\* A library's own count is right and below the limit (zad5 lines 73-92),
\* however long the readers have been retrying.
CountConsistent ==
    \A l \in Libs :
        /\ readers_count[l] = Cardinality(ReadersAt(l, {"reading", "leaving"}))
        /\ readers_count[l] <= LIB_MAX_READERS

\* r_mutex, unlike w_mutex, is only unlocked by the reader that locked it.
ReadersMutexConsistent ==
    \A l \in Libs : LET held == ReadersAt(l, {"entering", "leaving"})
                    IN  /\ r_mutex[l] = 0 <=> held # {}
                        /\ \A r, s \in held : r = s

\* Of the locks and the counts this is all that the program keeps.
IInv == TypeOK /\ CountConsistent /\ ReadersMutexConsistent

\* Two writers are in one library only after a reader has left it.
WritersExcluded ==
    \A l \in Libs : ~Visited(l) => \A v, w \in Inside(l) : v = w

\* A library that no reader has left yet holds, below top, one letter of each
\* writer that is done with it, and nothing is above the one being written.
BooksKept ==
    \A l \in Libs :
        LET written == At(l, {"done"}) \cap Writers
        IN  ~Visited(l) =>
            /\ top[l] = Cardinality(written)
            /\ {books[l][k] : k \in 0 .. top[l] - 1} = written
            /\ \A k \in top[l] + 1 .. BOOKS - 1 : books[l][k] = NUL

\* A reader is kept in a full library for ever, since those that lock r_mutex, find
\* no room and lock it again have it whenever it wants to leave (zad5 lines 68-77).
Starved(r) == /\ <>[](pc[r] = "reading")
              /\ []<>(\E s \in Readers : it[s] = it[r] /\ pc[s] = "entering" /\ ~Room(it[s]))

\* Every writer finds a library and finishes, whatever the readers do; and main joins
\* every thread and returns, unless a reader is starved by those that it keeps out.
\* In zad3, where there always is room, nobody is.
EndsUnlessStarved == /\ \A w \in Writers : <>(pc[w] = "done")
                     /\ <>AllDone \/ \E r \in Readers : Starved(r)
=============================================================================
