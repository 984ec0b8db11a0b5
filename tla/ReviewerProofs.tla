--------------------------- MODULE ReviewerProofs ---------------------------
(***************************************************************************)
(* cw01/zad4 for any number of readers and writers: one mutex as monitor   *)
(* and as door, letters and reviews that alternate, and the refinement of  *)
(* RWLock.  What a reader does to the gate is proved in                    *)
(* ReadersWritersProofs; its lemmas leave the door open to others.         *)
(***************************************************************************)
EXTENDS Reviewer, FiniteSetTheorems, TLAPS

Gate == INSTANCE ReadersWritersProofs
    WITH writerSem <- mutex, Writers <- {}, wpc <- <<>>, main <- "joining"

\* The gate of zad1, with the mutex for its door, is the gate here.
LEMMA SameGate ==
    /\ GateTypeOK <=> Gate!GateTypeOK
    /\ GateConsistent <=> Gate!GateConsistent
    /\ DoorHeld <=> Gate!DoorHeld
    /\ \A r \in Readers : Reader(r) <=> Gate!Reader(r)
<1>1. \A S : Gate!Cardinality(S) = Cardinality(S)
  BY DEF Cardinality, Gate!Cardinality, IsFiniteSet, Gate!IsFiniteSet
<1>2. \A where : Gate!ReaderAt(where) = ReaderAt(where)
  BY DEF ReaderAt, Gate!ReaderAt
<1>3. Gate!Updating = Updating /\ Gate!Counted = Counted
  BY <1>2 DEF Updating, Gate!Updating, Counted, Gate!Counted
<1>4. GateTypeOK <=> Gate!GateTypeOK
  BY <1>1 DEF GateTypeOK, Gate!GateTypeOK
<1>5. GateConsistent <=> Gate!GateConsistent
  BY <1>1, <1>2, <1>3 DEF GateConsistent, Gate!GateConsistent
<1>6. DoorHeld <=> Gate!DoorHeld
  BY <1>2 DEF DoorHeld, Gate!DoorHeld
<1>7. \A r \in Readers : Reader(r) <=> Gate!Reader(r)
  BY DEF Reader, Enter, CloseDoor, StartReading, Exit, OpenDoor, Finish,
         First, Last, Goto, Wait, Post,
         Gate!Reader, Gate!Enter, Gate!CloseDoor, Gate!StartReading, Gate!Exit,
         Gate!OpenDoor, Gate!Finish, Gate!First, Gate!Last, Gate!Goto,
         Gate!Wait, Gate!Post
<1> QED  BY <1>4, <1>5, <1>6, <1>7

\* A step of a reader keeps the gate consistent, and takes the mutex when the readers
\* did not hold it, gives it back when none of them needs it, or leaves it alone.
LEMMA ReaderStep ==
    ASSUME GateTypeOK, GateConsistent, NEW r \in Readers, Reader(r)
    PROVE  /\ GateTypeOK' /\ GateConsistent'
           /\ \/ mutex > 0 /\ mutex' = mutex - 1 /\ ~DoorHeld /\ DoorHeld'
              \/ mutex' = mutex + 1 /\ DoorHeld /\ ~DoorHeld'
              \/ mutex' = mutex /\ (DoorHeld' <=> DoorHeld)
<1>1. Gate!ReadersFinite /\ Gate!RolesDisjoint
  BY Roles DEF Gate!ReadersFinite, Gate!RolesDisjoint, IsFiniteSet, Gate!IsFiniteSet
<1>2. Gate!GateTypeOK /\ Gate!GateConsistent /\ Gate!Reader(r)
  BY SameGate
<1>3. Gate!GateTypeOK' /\ Gate!GateConsistent'
  BY <1>1, <1>2, Gate!GateStep
<1>4. \/ mutex > 0 /\ mutex' = mutex - 1 /\ ~Gate!DoorHeld /\ Gate!DoorHeld'
      \/ mutex' = mutex + 1 /\ Gate!DoorHeld /\ ~Gate!DoorHeld'
      \/ mutex' = mutex /\ (Gate!DoorHeld' <=> Gate!DoorHeld)
  BY <1>1, <1>2, Gate!GateDoor
<1>5. /\ GateTypeOK' <=> Gate!GateTypeOK'
      /\ GateConsistent' <=> Gate!GateConsistent'
      /\ DoorHeld' <=> Gate!DoorHeld'
  BY SameGate, PTL
<1> QED  BY <1>3, <1>4, <1>5, SameGate

\* A step that leaves the readers alone leaves the gate as it is.
LEMMA GateUntouched ==
    ASSUME GateTypeOK, GateConsistent,
           UNCHANGED <<readerSem, readers_count, rpc>>
    PROVE  /\ GateTypeOK' /\ GateConsistent'
           /\ DoorHeld' = DoorHeld /\ Reading' = Reading
BY DEF GateTypeOK, GateConsistent, Updating, Counted, DoorHeld, Reading, ReaderAt

-----------------------------------------------------------------------------
\* The writers that are done can be counted, and there are at most all of them.
LEMMA DoneFinite ==
    /\ IsFiniteSet(Done)
    /\ Cardinality(Done) \in Nat /\ Cardinality(Done) <= Cardinality(Writers)
    /\ Cardinality(Writers) \in Nat
BY Roles, FS_Subset, FS_CardinalityType DEF Done

\* As long as letters and reviews alternate, the books have room for both.
LEMMA RoomInBooks == Alternation => Len(books) <= BOOKS
BY DoneFinite, Roles DEF Alternation, Due

\* The program starts in a state that satisfies the inductive invariant.
LEMMA InitInv == Init => IInv
<1> SUFFICES ASSUME Init PROVE IInv
  OBVIOUS
<1>1. /\ Counted = {} /\ Updating = {} /\ ~DoorHeld
      /\ ReaderAt({"lock"}) = {} /\ ReaderAt({"unlock"}) = {}
  BY DEF Init, GateInit, Counted, Updating, DoorHeld, ReaderAt
<1>2. Cardinality(Readers) \in Nat /\ Cardinality({}) = 0
  BY Roles, FS_CardinalityType, FS_EmptySet
<1>3. GateTypeOK /\ GateConsistent
  BY <1>1, <1>2 DEF Init, GateInit, GateTypeOK, GateConsistent
<1>4. Inside = {} /\ Done = {} /\ Letters = {}
  BY DEF Init, Inside, Done, Letters, Threads
<1>5. DoorConsistent
  BY <1>1, <1>4 DEF Init, DoorConsistent
<1>6. Alternation
  BY <1>2, <1>4 DEF Init, Alternation, Due
<1>7. TypeOK
  BY <1>3, Roles DEF Init, TypeOK, Threads
<1> QED  BY <1>3, <1>5, <1>6, <1>7 DEF IInv

\* What keeps books, state and the writers that are done keeps the alternation.
LEMMA BooksUntouched ==
    ASSUME Alternation, UNCHANGED <<books, reviewer_state>>, Done' = Done
    PROVE  Alternation'
BY DEF Alternation, Due, Letters

\* A writer in the monitor whose turn it is adds its letter to what is all reviewed.
LEMMA LetterAdded ==
    ASSUME TypeOK, Alternation, NEW w \in Writers, WriterAdds(w)
    PROVE  Alternation' /\ books' \in Seq(Writers \cup {R})
<1> DEFINE n == Len(books)
<1>1. /\ books' = Append(books, w) /\ books \in Seq(Writers \cup {R})
      /\ reviewer_state = "NOT_REQUIRED" /\ reviewer_state' = "REQUIRED"
      /\ w # R
  BY Roles DEF WriterAdds, Add, TypeOK
<1>2. books' \in Seq(Writers \cup {R})
  BY <1>1
<1>3. /\ n \in Nat /\ DOMAIN books = 1 .. n /\ DOMAIN books' = 1 .. n + 1
      /\ Len(books') = n + 1 /\ books'[n + 1] = w
      /\ \A i \in 1 .. n : books'[i] = books[i]
  BY <1>1
<1>4. w \notin Done /\ Done' = Done \cup {w}
  BY DEF WriterAdds, Done, TypeOK, Threads
<1>5. Cardinality(Done') = Cardinality(Done) + 1
  BY <1>4, DoneFinite, FS_AddElement
<1>6. n = 2 * Cardinality(Done) /\ n + 1 = 2 * Cardinality(Done') - 1
  BY <1>1, <1>5, DoneFinite DEF Alternation, Due
<1>7. (n + 1) % 2 = 1
  BY <1>6, DoneFinite
<1>8. Letters' = Letters \cup {n + 1}
  BY <1>1, <1>3 DEF Letters
<1>9. Letters' = {i \in DOMAIN books' : i % 2 = 1}
  BY <1>3, <1>7, <1>8 DEF Alternation
<1>10. Letters \subseteq 1 .. n /\ n + 1 \notin Letters
  BY <1>3 DEF Letters
<1>11. {books'[i] : i \in Letters'} = Done'
  BY <1>3, <1>4, <1>8, <1>10 DEF Alternation
<1>12. \A i, j \in Letters' : books'[i] = books'[j] => i = j
  <2>1. \A i \in Letters : books'[i] \in Done /\ books'[i] # w
    BY <1>3, <1>4, <1>10 DEF Alternation
  <2> QED  BY <1>3, <1>8, <1>10, <2>1 DEF Alternation
<1>13. Len(books') = 2 * Cardinality(Done') - Due'
  BY <1>1, <1>3, <1>6 DEF Due
<1> QED  BY <1>2, <1>9, <1>11, <1>12, <1>13 DEF Alternation

\* The reviewer in the monitor whose turn it is adds its mark behind the last letter.
LEMMA ReviewAdded ==
    ASSUME TypeOK, Alternation, Review
    PROVE  Alternation' /\ books' \in Seq(Writers \cup {R})
<1> DEFINE n == Len(books)
<1>1. /\ books' = Append(books, R) /\ books \in Seq(Writers \cup {R})
      /\ reviewer_state = "REQUIRED" /\ reviewer_state' = "NOT_REQUIRED"
  BY DEF Review, Add, TypeOK
<1>2. books' \in Seq(Writers \cup {R})
  BY <1>1
<1>3. /\ n \in Nat /\ DOMAIN books = 1 .. n /\ DOMAIN books' = 1 .. n + 1
      /\ Len(books') = n + 1 /\ books'[n + 1] = R
      /\ \A i \in 1 .. n : books'[i] = books[i]
  BY <1>1
<1>4. Done' = Done
  BY Roles DEF Review, Done, TypeOK, Threads
<1>5. n = 2 * Cardinality(Done) - 1
  BY <1>1, DoneFinite DEF Alternation, Due
<1>6. (n + 1) % 2 = 0
  BY <1>5, DoneFinite
<1>7. Letters' = Letters
  BY <1>1, <1>3 DEF Letters
<1>8. Letters' = {i \in DOMAIN books' : i % 2 = 1}
  BY <1>3, <1>6, <1>7 DEF Alternation
<1>9. \A i \in Letters : books'[i] = books[i]
  BY <1>3 DEF Letters
<1>10. Len(books') = 2 * Cardinality(Done') - Due'
  BY <1>1, <1>3, <1>4, <1>5, DoneFinite DEF Due
<1> QED  BY <1>2, <1>4, <1>7, <1>8, <1>9, <1>10 DEF Alternation

\* Every step of the program preserves the inductive invariant.
LEMMA NextInv == IInv /\ [Next]_vars => IInv'
<1> SUFFICES ASSUME IInv, [Next]_vars PROVE IInv'
  OBVIOUS
<1> USE DEF IInv
<1>1. ASSUME NEW r \in Readers, ReaderThread(r) PROVE IInv'
  <2>1. Reader(r) /\ UNCHANGED <<cond, reviewer_state, pc, books>>
    BY <1>1 DEF ReaderThread
  <2>2. Inside' = Inside /\ Done' = Done
    BY <2>1 DEF Inside, Done
  <2>3. GateTypeOK' /\ GateConsistent'
    BY <2>1, ReaderStep DEF TypeOK
  <2>4. mutex' \in {0, 1} /\ DoorConsistent'
    BY <2>1, <2>2, ReaderStep DEF TypeOK, DoorConsistent
  <2> QED  BY <2>1, <2>2, <2>3, <2>4, BooksUntouched DEF TypeOK
<1>2. ASSUME NEW t \in Threads, Acquire(t) PROVE IInv'
  <2>1. /\ GateTypeOK' /\ GateConsistent' /\ DoorHeld' = DoorHeld
        /\ mutex = 1 /\ mutex' = 0 /\ UNCHANGED <<cond, reviewer_state, books>>
    BY <1>2, GateUntouched DEF Acquire, Lock, TypeOK
  <2>2. Inside' = Inside \cup {t} /\ Done' = Done
    BY <1>2 DEF Acquire, Inside, Done, TypeOK, Threads
  <2>3. Inside = {} /\ ~DoorHeld
    BY <2>1 DEF DoorConsistent
  <2>4. DoorConsistent'
    BY <2>1, <2>2, <2>3 DEF DoorConsistent
  <2>5. TypeOK'
    BY <1>2, <2>1 DEF Acquire, TypeOK
  <2> QED  BY <2>1, <2>2, <2>4, <2>5, BooksUntouched
<1>3. ASSUME NEW t \in Threads, NEW turn, Sleep(t, turn) PROVE IInv'
  <2>1. /\ GateTypeOK' /\ GateConsistent' /\ DoorHeld' = DoorHeld
        /\ mutex' = 1 /\ UNCHANGED <<reviewer_state, books>>
    BY <1>3, GateUntouched DEF Sleep, CondWait, Unlock, TypeOK
  <2>2. t \in Inside /\ Inside' = Inside \ {t} /\ Done' = Done
    BY <1>3 DEF Sleep, Inside, Done, TypeOK, Threads
  <2>3. ~DoorHeld /\ Inside' = {}
    BY <2>2 DEF DoorConsistent
  <2>4. DoorConsistent'
    BY <2>1, <2>3 DEF DoorConsistent
  <2>5. TypeOK'
    BY <1>3, <2>1 DEF Sleep, CondWait, TypeOK
  <2> QED  BY <2>1, <2>2, <2>4, <2>5, BooksUntouched
<1>4. ASSUME NEW t \in Threads,
             /\ pc[t] = "inside" /\ Unlock(mutex)
             /\ UNCHANGED <<readerSem, readers_count, rpc>>,
             pc' = [pc EXCEPT ![t] = "done"] \/ pc' = [pc EXCEPT ![t] = "outside"]
      PROVE  GateTypeOK' /\ GateConsistent' /\ DoorConsistent'
  <2>1. /\ GateTypeOK' /\ GateConsistent' /\ DoorHeld' = DoorHeld /\ mutex' = 1
    BY <1>4, GateUntouched DEF Unlock, TypeOK
  <2>2. t \in Inside /\ Inside' = Inside \ {t}
    BY <1>4 DEF Inside, TypeOK, Threads
  <2>3. ~DoorHeld /\ Inside' = {}
    BY <2>2 DEF DoorConsistent
  <2> QED  BY <2>1, <2>3 DEF DoorConsistent
<1>5. ASSUME NEW w \in Writers, WriterAdds(w) PROVE IInv'
  <2>1. GateTypeOK' /\ GateConsistent' /\ DoorConsistent'
    BY <1>4, <1>5 DEF WriterAdds, Threads
  <2>2. Alternation' /\ books' \in Seq(Writers \cup {R})
    BY <1>5, LetterAdded
  <2>3. Alternation' => (Len(books) <= BOOKS)'
    BY RoomInBooks, PTL
  <2>4. TypeOK'
    BY <1>5, <2>1, <2>2, <2>3 DEF WriterAdds, Add, Broadcast, Unlock, TypeOK
  <2> QED  BY <2>1, <2>2, <2>4
<1>6. CASE Review
  <2>1. GateTypeOK' /\ GateConsistent' /\ DoorConsistent'
    BY <1>4, <1>6 DEF Review, Threads
  <2>2. Alternation' /\ books' \in Seq(Writers \cup {R})
    BY <1>6, ReviewAdded
  <2>3. Alternation' => (Len(books) <= BOOKS)'
    BY RoomInBooks, PTL
  <2>4. TypeOK'
    BY <1>6, <2>1, <2>2, <2>3 DEF Review, Add, Broadcast, Unlock, TypeOK
  <2> QED  BY <2>1, <2>2, <2>4
<1>7. ASSUME UNCHANGED <<readerSem, readers_count, rpc, mutex, reviewer_state, pc, books>>,
             cond' \subseteq cond
      PROVE  IInv'
  <2>1. GateTypeOK' /\ GateConsistent' /\ DoorHeld' = DoorHeld
    BY <1>7, GateUntouched DEF TypeOK
  <2>2. Inside' = Inside /\ Done' = Done
    BY <1>7 DEF Inside, Done
  <2> QED  BY <1>7, <2>1, <2>2, BooksUntouched DEF TypeOK, DoorConsistent
<1>8. ASSUME NEW t \in Threads, SpuriousWakeup(t) PROVE IInv'
  BY <1>7, <1>8 DEF SpuriousWakeup, Spurious
<1>9. CASE UNCHANGED vars
  BY <1>7, <1>9 DEF vars
<1> QED
  BY <1>1, <1>2, <1>3, <1>5, <1>6, <1>8, <1>9 DEF Next, Writer, Critic, Threads

\* zad4, any number of threads: the one mutex is locked exactly while the readers
\* or one thread of the monitor hold it, letters and reviews alternate, and each
\* writer that is done has its letter in the books once.
THEOREM Invariance == Spec => []IInv
BY InitInv, NextInv, PTL DEF Spec

-----------------------------------------------------------------------------
\* Every step is a step of the readers-writers lock or leaves it alone.
LEMMA StepRefines ==
    IInv /\ [Next]_vars => [RW!Next]_(Reading \cup Inside)
<1> DEFINE active == Reading \cup Inside
<1> SUFFICES ASSUME IInv, [Next]_vars, active' # active
             PROVE  RW!Next
  OBVIOUS
<1> USE DEF IInv
<1>1. /\ Reading \subseteq Readers /\ Inside \subseteq Threads
      /\ Readers \cap Threads = {}
  BY Roles DEF Reading, ReaderAt, Inside, Threads
<1>2. Reading # {} => DoorHeld
  BY DEF Reading, DoorHeld, ReaderAt
<1>3. ASSUME NEW r \in Readers, ReaderThread(r) PROVE RW!Next
  <2>1. Reader(r) /\ Inside' = Inside /\ r \notin Threads
    BY <1>1, <1>3 DEF ReaderThread, Inside
  <2>2. CASE StartReading(r)
    <3>1. DoorHeld /\ r \notin Reading /\ Reading' = Reading \cup {r}
      BY <2>2 DEF StartReading, Goto, DoorHeld, Reading, ReaderAt, GateTypeOK, TypeOK
    <3>2. active \cap Threads = {} /\ r \in Readers \ active
      BY <1>1, <2>1, <3>1 DEF DoorConsistent
    <3>3. active' = active \cup {r}
      BY <2>1, <3>1
    <3> QED  BY <3>2, <3>3 DEF RW!Next, RW!EnterReader
  <2>3. CASE Exit(r)
    <3>1. r \in Reading /\ Reading' = Reading \ {r}
      BY <2>3 DEF Exit, Goto, Reading, ReaderAt, GateTypeOK, TypeOK
    <3>2. r \in active /\ active' = active \ {r}
      BY <1>1, <2>1, <3>1
    <3> QED  BY <3>2 DEF RW!Next, RW!Leave
  <2>4. CASE Enter(r) \/ CloseDoor(r) \/ OpenDoor(r) \/ Finish(r)
    <3>1. Reading' = Reading
      BY <2>4 DEF Enter, CloseDoor, OpenDoor, Finish, Goto, Reading, ReaderAt,
                  GateTypeOK, TypeOK
    <3> QED  BY <2>1, <3>1
  <2> QED  BY <2>1, <2>2, <2>3, <2>4 DEF Reader
<1>4. ASSUME NEW t \in Threads, Acquire(t) PROVE RW!Next
  <2>1. Reading' = Reading /\ Inside' = Inside \cup {t} /\ mutex = 1
    BY <1>4, GateUntouched DEF Acquire, Lock, Inside, TypeOK
  <2>2. active = {} /\ active' = {t}
    BY <1>2, <2>1 DEF DoorConsistent
  <2> QED  BY <2>2 DEF RW!Next, RW!EnterWriter
<1>5. ASSUME NEW t \in Threads, pc[t] = "inside", UNCHANGED <<readerSem, readers_count, rpc>>,
             pc' = [pc EXCEPT ![t] = "done"] \/ pc' = [pc EXCEPT ![t] = "outside"]
      PROVE  RW!Next
  <2>1. Reading' = Reading /\ t \in Inside /\ Inside' = Inside \ {t} /\ t \notin Reading
    BY <1>1, <1>5, GateUntouched DEF Inside, TypeOK
  <2>2. t \in active /\ active' = active \ {t}
    BY <2>1
  <2> QED  BY <2>2 DEF RW!Next, RW!Leave
<1>6. ASSUME NEW t \in Threads PROVE ~SpuriousWakeup(t)
  BY DEF SpuriousWakeup, Reading, ReaderAt, Inside
<1>7. ~UNCHANGED vars
  BY DEF vars, Reading, ReaderAt, Inside
<1> QED
  BY <1>3, <1>4, <1>5, <1>6, <1>7
     DEF Next, Writer, Critic, Sleep, WriterAdds, Review, Threads

\* zad4, any number of threads: gate and monitor together are a readers-writers lock,
\* in which every writer and the reviewer is a writer.
THEOREM Refinement == Spec => ImplementsRWLock
<1>1. Init => RW!Init
  BY DEF Init, GateInit, RW!Init, Reading, ReaderAt, Inside, Threads
<1> QED  BY <1>1, Invariance, StepRefines, PTL DEF Spec, ImplementsRWLock, RW!Spec
=============================================================================
