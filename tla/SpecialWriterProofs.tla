------------------------- MODULE SpecialWriterProofs -------------------------
(***************************************************************************)
(* cw01/zad2 for any number of readers and writers and any batch that fits *)
(* the queue: neither array overflows, no letter is lost or copied twice,  *)
(* no reader sees half a batch, and the refinement of LetterArchive.  What *)
(* a reader does to the gate is proved in ReadersWritersProofs, and that   *)
(* the ring is a queue in BatchLibraryProofs.                              *)
(***************************************************************************)
EXTENDS SpecialWriter, FiniteSetTheorems, SequenceTheorems, TLAPS

Gate == INSTANCE ReadersWritersProofs
    WITH Writers <- {}, wpc <- <<>>, main <- "joining"

\* The gate of zad1 is the gate here.
LEMMA SameGate ==
    /\ GateTypeOK <=> Gate!GateTypeOK
    /\ GateConsistent <=> Gate!GateConsistent
    /\ DoorHeld <=> Gate!DoorHeld
    /\ \A r \in Readers : Reader(r) <=> Gate!Reader(r)
<1>1. \A S : Gate!Cardinality(S) = Cardinality(S)
  BY DEF Cardinality, Gate!Cardinality, IsFiniteSet, Gate!IsFiniteSet
<1>2. \A where : Gate!ReaderAt(where) = ReaderAt(where)
  BY DEF ReaderAt, Gate!ReaderAt
<1>3. Gate!Updating = Updating /\ Gate!Counted = Counted
  BY <1>2 DEF Updating, Gate!Updating, Counted, Gate!Counted
<1>4. GateTypeOK <=> Gate!GateTypeOK
  BY <1>1 DEF GateTypeOK, Gate!GateTypeOK
<1>5. GateConsistent <=> Gate!GateConsistent
  BY <1>1, <1>2, <1>3 DEF GateConsistent, Gate!GateConsistent
<1>6. DoorHeld <=> Gate!DoorHeld
  BY <1>2 DEF DoorHeld, Gate!DoorHeld
<1>7. \A r \in Readers : Reader(r) <=> Gate!Reader(r)
  BY DEF Reader, Enter, CloseDoor, StartReading, Exit, OpenDoor, Finish,
         First, Last, Goto, Wait, Post,
         Gate!Reader, Gate!Enter, Gate!CloseDoor, Gate!StartReading, Gate!Exit,
         Gate!OpenDoor, Gate!Finish, Gate!First, Gate!Last, Gate!Goto,
         Gate!Wait, Gate!Post
<1> QED  BY <1>4, <1>5, <1>6, <1>7

\* A step of a reader keeps the gate consistent, and takes writerSem when the readers
\* did not hold it, gives it back when none of them needs it, or leaves it alone.
LEMMA ReaderStep ==
    ASSUME GateTypeOK, GateConsistent, NEW r \in Readers, Reader(r)
    PROVE  /\ GateTypeOK' /\ GateConsistent'
           /\ \/ writerSem > 0 /\ writerSem' = writerSem - 1 /\ ~DoorHeld /\ DoorHeld'
              \/ writerSem' = writerSem + 1 /\ DoorHeld /\ ~DoorHeld'
              \/ writerSem' = writerSem /\ (DoorHeld' <=> DoorHeld)
<1>1. Gate!ReadersFinite /\ Gate!RolesDisjoint
  BY ReadersFinite DEF Gate!ReadersFinite, Gate!RolesDisjoint, IsFiniteSet, Gate!IsFiniteSet
<1>2. Gate!GateTypeOK /\ Gate!GateConsistent /\ Gate!Reader(r)
  BY SameGate
<1>3. Gate!GateTypeOK' /\ Gate!GateConsistent'
  BY <1>1, <1>2, Gate!GateStep
<1>4. \/ writerSem > 0 /\ writerSem' = writerSem - 1 /\ ~Gate!DoorHeld /\ Gate!DoorHeld'
      \/ writerSem' = writerSem + 1 /\ Gate!DoorHeld /\ ~Gate!DoorHeld'
      \/ writerSem' = writerSem /\ (Gate!DoorHeld' <=> Gate!DoorHeld)
  BY <1>1, <1>2, Gate!GateDoor
<1>5. /\ GateTypeOK' <=> Gate!GateTypeOK'
      /\ GateConsistent' <=> Gate!GateConsistent'
      /\ DoorHeld' <=> Gate!DoorHeld'
  BY SameGate, PTL
<1> QED  BY <1>3, <1>4, <1>5, SameGate

\* A step that leaves the readers alone leaves the gate as it is.
LEMMA GateUntouched ==
    ASSUME GateTypeOK, GateConsistent,
           UNCHANGED <<readerSem, readers_count, rpc>>
    PROVE  /\ GateTypeOK' /\ GateConsistent'
           /\ DoorHeld' = DoorHeld /\ Reading' = Reading
BY DEF GateTypeOK, GateConsistent, Updating, Counted, DoorHeld, Reading, ReaderAt

-----------------------------------------------------------------------------
Ring == INSTANCE BatchLibraryProofs
    WITH Readers <- {}, cond_empty <- cond, cond_full <- cond, writers_mode <- TRUE, got <- <<>>

\* The place that lies k cells after QueueOut, and what is in the ring.
Place(k) == IF QueueOut + k <= QUEUE_ELEMENTS THEN QueueOut + k
                                              ELSE QueueOut + k - QUEUE_SIZE
ASequence == /\ QueueItems \in Seq(Letters \cup {NUL})
             /\ Len(QueueItems) = QueueLen
             /\ QueueItems = [i \in 1 .. QueueLen |-> Queue[Place(i - 1)]]

\* The ring of zad6 is the ring here.
LEMMA SameRing ==
    /\ Ring!QueueElements /\ Ring!NULNotALetter /\ Ring!Roles
    /\ QueueTypeOK <=> Ring!QueueTypeOK
    /\ QueueConsistent <=> Ring!QueueConsistent
    /\ QueueItems = Ring!QueueItems /\ QUEUE_SIZE = Ring!QUEUE_SIZE
    /\ \A new : QueuePut(new) <=> Ring!QueuePut(new)
    /\ \A k : Place(k) = Ring!Place(k)
    /\ ASequence <=> Ring!ASequence
<1>1. Ring!QueueElements /\ Ring!NULNotALetter /\ Ring!Roles
  BY QueueElements, NULNotALetter, Capacity
     DEF Ring!QueueElements, Ring!NULNotALetter, Ring!Roles
<1>2. QUEUE_SIZE = Ring!QUEUE_SIZE
  BY DEF QUEUE_SIZE, Ring!QUEUE_SIZE
<1>3. QueueItems = Ring!QueueItems
  BY DEF QueueItems, Ring!QueueItems, QUEUE_SIZE, Ring!QUEUE_SIZE
<1>4. \A k : Place(k) = Ring!Place(k)
  BY DEF Place, Ring!Place, QUEUE_SIZE, Ring!QUEUE_SIZE
<1>5. ASequence <=> Ring!ASequence
  BY <1>3 DEF ASequence, Ring!ASequence, Place, Ring!Place, QUEUE_SIZE, Ring!QUEUE_SIZE
<1>6. /\ QueueTypeOK <=> Ring!QueueTypeOK
      /\ QueueConsistent <=> Ring!QueueConsistent
  BY <1>2 DEF QueueTypeOK, Ring!QueueTypeOK, QueueConsistent, Ring!QueueConsistent
<1>7. \A new : QueuePut(new) <=> Ring!QueuePut(new)
  BY DEF QueuePut, Ring!QueuePut, QueueFull, Ring!QueueFull, After, Ring!After,
         QUEUE_SIZE, Ring!QUEUE_SIZE, queueVars, Ring!queueVars
<1> QED  BY <1>1, <1>2, <1>3, <1>4, <1>5, <1>6, <1>7

\* A cell at a distance from QueueOut, without %.
LEMMA PlaceIs ==
    ASSUME QueueTypeOK, NEW k \in 0 .. QUEUE_ELEMENTS
    PROVE  /\ (QueueOut + k) % QUEUE_SIZE = Place(k)
           /\ Place(k) \in 0 .. QUEUE_ELEMENTS
BY SameRing, Ring!PlaceIs

\* QueueItems is a sequence of QueueLen letters, cell by cell.
LEMMA ItemsAre == QueueTypeOK => ASequence
BY SameRing, Ring!ItemsAre

\* QueuePut with room appends the letter, and keeps the ring consistent.
LEMMA PutAppends ==
    ASSUME QueueTypeOK, QueueConsistent, QueueLen < QUEUE_ELEMENTS,
           NEW new \in Letters, QueuePut(new)
    PROVE  /\ QueueTypeOK' /\ QueueConsistent'
           /\ QueueLen' = QueueLen + 1
           /\ QueueItems' = Append(QueueItems, new)
<1>1. /\ Ring!QueueTypeOK' /\ Ring!QueueConsistent'
      /\ QueueLen' = QueueLen + 1
      /\ Ring!QueueItems' = Append(Ring!QueueItems, new)
  BY SameRing, Ring!PutAppends
<1>2. /\ QueueTypeOK' <=> Ring!QueueTypeOK'
      /\ QueueConsistent' <=> Ring!QueueConsistent'
  BY SameRing, PTL
<1>3. QueueItems' = Ring!QueueItems'
  BY DEF QueueItems, Ring!QueueItems, QUEUE_SIZE, Ring!QUEUE_SIZE
<1> QED  BY <1>1, <1>2, <1>3, SameRing

-----------------------------------------------------------------------------
\* A batch more is still a number of whole batches.
LEMMA OneMore ==
    ASSUME NEW letters \in Nat, Whole(letters)
    PROVE  Whole(letters + SWRITER_SIZE)
<1>1. SWRITER_SIZE \in Nat \ {0}
  BY QueueElements, Capacity
<1>2. PICK k \in 0 .. letters : letters = k * SWRITER_SIZE
  BY DEF Whole
<1>3. letters + SWRITER_SIZE = (k + 1) * SWRITER_SIZE
  BY <1>1, <1>2
<1>4. k + 1 \in 0 .. letters + SWRITER_SIZE
  BY <1>1, <1>2
<1> QED  BY <1>3, <1>4 DEF Whole

\* A batch less, too.
LEMMA OneLess ==
    ASSUME NEW letters \in Nat, Whole(letters + SWRITER_SIZE)
    PROVE  Whole(letters)
<1>1. SWRITER_SIZE \in Nat \ {0}
  BY QueueElements, Capacity
<1>2. PICK k \in 0 .. letters + SWRITER_SIZE :
          letters + SWRITER_SIZE = k * SWRITER_SIZE
  BY DEF Whole
<1>3. letters = (k - 1) * SWRITER_SIZE /\ k # 0
  BY <1>1, <1>2
<1>4. k - 1 \in 0 .. letters
  <2>1. k - 1 \in Nat
    BY <1>1, <1>2, <1>3
  <2>2. k - 1 <= (k - 1) * SWRITER_SIZE
    BY <1>1, <2>1
  <2> QED  BY <1>3, <2>1, <2>2
<1> QED  BY <1>3, <1>4 DEF Whole

\* A sequence that consists of two others is their concatenation.
LEMMA Joined ==
    ASSUME NEW S, NEW a \in Seq(S), NEW b \in Seq(S), NEW c \in Seq(S),
           Len(c) = Len(a) + Len(b),
           \A i \in 1 .. Len(a) : a[i] = c[i],
           \A i \in 1 .. Len(b) : b[i] = c[i + Len(a)]
    PROVE  a \o b = c
<1>1. /\ a \o b \in Seq(S) /\ Len(a \o b) = Len(c)
      /\ Len(a) \in Nat /\ Len(b) \in Nat
  BY ConcatProperties, LenProperties
<1>2. ASSUME NEW i \in 1 .. Len(c) PROVE (a \o b)[i] = c[i]
  <2>1. (a \o b)[i] = IF i <= Len(a) THEN a[i] ELSE b[i - Len(a)]
    BY ConcatProperties
  <2>2. CASE i <= Len(a)
    BY <1>1, <2>1, <2>2
  <2>3. CASE i > Len(a)
    <3>1. i - Len(a) \in 1 .. Len(b) /\ (i - Len(a)) + Len(a) = i
      BY <1>1, <2>3
    <3> QED  BY <1>1, <2>1, <2>3, <3>1
  <2> QED  BY <1>1, <2>2, <2>3
<1> QED  BY <1>1, <1>2, SeqEqual

\* What is appended to the last of two sequences is appended to their concatenation.
LEMMA AppendedLast ==
    ASSUME NEW S, NEW a \in Seq(S), NEW b \in Seq(S), NEW e \in S
    PROVE  a \o Append(b, e) = Append(a \o b, e)
<1>1. <<e>> \in Seq(S) /\ a \o b \in Seq(S)
  BY ConcatProperties
<1>2. Append(b, e) = b \o <<e>> /\ Append(a \o b, e) = (a \o b) \o <<e>>
  BY <1>1, AppendIsConcat
<1> QED  BY <1>1, <1>2, ConcatAssociative

\* What is taken off the front of a sequence and put behind the one before it stays
\* where it was in their concatenation.
LEMMA HeadMoved ==
    ASSUME NEW S, NEW a \in Seq(S), NEW b \in Seq(S), b # <<>>
    PROVE  Append(a, Head(b)) \o Tail(b) = a \o b
<1>1. /\ Head(b) \in S /\ Tail(b) \in Seq(S) /\ <<Head(b)>> \in Seq(S)
      /\ b = <<Head(b)>> \o Tail(b)
  BY HeadTailProperties, ConcatProperties, SeqEqual, LenProperties
<1>2. Append(a, Head(b)) = a \o <<Head(b)>>
  BY <1>1, AppendIsConcat
<1> QED  BY <1>1, <1>2, ConcatAssociative

\* What TakeBatch takes off the queue comes first in rcv, and nothing else changes.
LEMMA BatchTaken ==
    ASSUME QueueTypeOK, QueueConsistent, QueueLen >= SWRITER_SIZE,
           {QueueItems[i] : i \in 1 .. QueueLen} \subseteq Letters,
           TakeBatch, UNCHANGED <<Queue, QueueIn>>
    PROVE  /\ QueueTypeOK' /\ QueueConsistent'
           /\ rcv' \in Seq(Letters) /\ Len(rcv') = SWRITER_SIZE
           /\ rcv' \o QueueItems' = QueueItems
<1> DEFINE n == SWRITER_SIZE
<1>1. /\ QUEUE_ELEMENTS \in Nat /\ n \in 1 .. QUEUE_ELEMENTS
      /\ QueueLen \in n .. QUEUE_ELEMENTS
      /\ QueueIn \in 0 .. QUEUE_ELEMENTS /\ QueueOut \in 0 .. QUEUE_ELEMENTS
      /\ Queue \in [0 .. QUEUE_ELEMENTS -> Letters \cup {NUL}]
  BY QueueElements, Capacity DEF QueueTypeOK
<1>2. /\ rcv' = SubSeq(QueueItems, 1, n)
      /\ QueueOut' = Place(n) /\ Place(n) \in 0 .. QUEUE_ELEMENTS
      /\ QueueLen' = QueueLen - n
      /\ Queue' = Queue /\ QueueIn' = QueueIn
  BY <1>1, PlaceIs DEF TakeBatch
<1>3. QueueTypeOK'
  BY <1>1, <1>2 DEF QueueTypeOK
<1>4. QueueConsistent'
  BY <1>1, <1>2 DEF QueueConsistent, QUEUE_SIZE, Place
<1>5. ASequence /\ ASequence'
  <2>1. (QueueTypeOK => ASequence)'
    BY ItemsAre, PTL
  <2> QED  BY <1>3, <2>1, ItemsAre
<1>6. /\ QueueItems \in Seq(Letters \cup {NUL}) /\ Len(QueueItems) = QueueLen
      /\ QueueItems' \in Seq(Letters \cup {NUL}) /\ Len(QueueItems') = QueueLen - n
  BY <1>2, <1>5 DEF ASequence
<1>7. ASSUME NEW i \in 0 .. QueueLen - n - 1
      PROVE  Place(i)' = Place(i + n)
  <2>1. QueueOut' = IF QueueOut + n <= QUEUE_ELEMENTS THEN QueueOut + n
                                                    ELSE QueueOut + n - QUEUE_SIZE
    BY <1>2 DEF Place
  <2>2. Place(i)' = IF QueueOut' + i <= QUEUE_ELEMENTS THEN QueueOut' + i
                                                     ELSE QueueOut' + i - QUEUE_SIZE
    BY DEF Place, QUEUE_SIZE
  <2>3. Place(i + n) = IF QueueOut + (i + n) <= QUEUE_ELEMENTS THEN QueueOut + (i + n)
                                              ELSE QueueOut + (i + n) - QUEUE_SIZE
    BY DEF Place
  <2>4. i \in Nat /\ i + n < QUEUE_SIZE /\ QUEUE_SIZE = QUEUE_ELEMENTS + 1
    BY <1>1 DEF QUEUE_SIZE
  <2> HIDE DEF n
  <2> QED  BY <1>1, <2>1, <2>2, <2>3, <2>4
<1>8. ASSUME NEW i \in 1 .. QueueLen - n
      PROVE  QueueItems'[i] = QueueItems[i + n]
  <2>1. QueueItems'[i] = Queue[Place(i - 1)']
    BY <1>1, <1>2, <1>5 DEF ASequence
  <2>2. Place(i - 1)' = Place(i + n - 1)
    BY <1>1, <1>7
  <2>3. i + n \in 1 .. QueueLen
    BY <1>1
  <2>4. QueueItems[i + n] = Queue[Place(i + n - 1)]
    BY <1>1, <1>5, <2>3 DEF ASequence
  <2> QED  BY <2>1, <2>2, <2>4
<1>9. /\ Len(rcv') = n /\ \A i \in 1 .. n : rcv'[i] = QueueItems[i]
      /\ rcv' \in Seq(Letters)
  <2>1. Len(rcv') = n /\ \A i \in 1 .. n : rcv'[i] = QueueItems[i]
    BY <1>1, <1>2, <1>6
  <2>2. rcv' = [i \in 1 .. n |-> QueueItems[i]]
    BY <1>1, <1>2, <1>6
  <2>3. \A i \in 1 .. n : QueueItems[i] \in Letters
    BY <1>1
  <2> QED  BY <1>1, <2>1, <2>2, <2>3
<1>10. rcv' \o QueueItems' = QueueItems
  <2>1. rcv' \in Seq(Letters \cup {NUL})
    BY <1>9, SeqMonotonic
  <2>2. Len(QueueItems) = Len(rcv') + Len(QueueItems')
    BY <1>1, <1>6, <1>9
  <2>3. /\ \A i \in 1 .. Len(rcv') : rcv'[i] = QueueItems[i]
        /\ \A i \in 1 .. Len(QueueItems') : QueueItems'[i] = QueueItems[i + Len(rcv')]
    BY <1>6, <1>8, <1>9
  <2> QED  BY <1>6, <2>1, <2>2, <2>3, Joined
<1> QED  BY <1>3, <1>4, <1>9, <1>10

-----------------------------------------------------------------------------
\* The writers that are done can be counted, and there are at most all of them.
LEMMA DoneFinite ==
    /\ IsFiniteSet(Done)
    /\ Cardinality(Done) \in Nat /\ Cardinality(Done) <= Cardinality(Writers)
    /\ Cardinality(Writers) \in Nat
    /\ \A w \in Writers \ Done : /\ Cardinality(Done \cup {w}) = Cardinality(Done) + 1
                                /\ Cardinality(Done) < Cardinality(Writers)
<1>1. /\ IsFiniteSet(Done) /\ Cardinality(Writers) \in Nat
      /\ Cardinality(Done) \in Nat /\ Cardinality(Done) <= Cardinality(Writers)
  BY Capacity, FS_Subset, FS_CardinalityType DEF Done
<1>2. ASSUME NEW w \in Writers \ Done
      PROVE  /\ Cardinality(Done \cup {w}) = Cardinality(Done) + 1
             /\ Cardinality(Done) < Cardinality(Writers)
  <2>1. Cardinality(Done \cup {w}) = Cardinality(Done) + 1
    BY <1>1, FS_AddElement
  <2>2. Cardinality(Done \cup {w}) <= Cardinality(Writers)
    BY Capacity, FS_Subset DEF Done
  <2> QED  BY <1>1, <2>1, <2>2
<1> QED  BY <1>1, <1>2

\* The log is a sequence, of the lengths of its parts; the letters in the queue are
\* where they are in the log.
LEMMA LogIs ==
    ASSUME TypeOK
    PROVE  LET S == Letters \cup {NUL} IN
           /\ books \in Seq(S) /\ rcv \in Seq(S) /\ QueueItems \in Seq(S)
           /\ books \o rcv \in Seq(S) /\ Log \in Seq(S)
           /\ Len(books) \in Nat /\ Len(rcv) \in Nat
           /\ Len(QueueItems) = QueueLen /\ QueueLen \in Nat
           /\ Len(Log) = Len(books) + Len(rcv) + QueueLen
           /\ \A i \in 1 .. QueueLen : QueueItems[i] = Log[Len(books) + Len(rcv) + i]
<1> DEFINE S == Letters \cup {NUL}
<1>1. books \in Seq(S) /\ rcv \in Seq(S)
  BY SeqMonotonic DEF TypeOK
<1>2. QueueItems \in Seq(S) /\ Len(QueueItems) = QueueLen /\ QueueLen \in Nat
  BY ItemsAre, QueueElements DEF TypeOK, ASequence, QueueTypeOK
<1>3. /\ Len(books) \in Nat /\ Len(rcv) \in Nat
      /\ books \o rcv \in Seq(S) /\ Len(books \o rcv) = Len(books) + Len(rcv)
  BY <1>1, LenProperties, ConcatProperties
<1>4. /\ Log \in Seq(S) /\ Len(Log) = Len(books \o rcv) + Len(QueueItems)
      /\ \A i \in 1 .. Len(books \o rcv) + Len(QueueItems) :
             Log[i] = IF i <= Len(books \o rcv) THEN (books \o rcv)[i]
                      ELSE QueueItems[i - Len(books \o rcv)]
  <2> DEFINE taken == books \o rcv
  <2>1. Log = taken \o QueueItems
    BY DEF Log
  <2>2. taken \in Seq(S) /\ QueueItems \in Seq(S)
    BY <1>2, <1>3
  <2> HIDE DEF S, taken
  <2>3. /\ taken \o QueueItems \in Seq(S)
        /\ Len(taken \o QueueItems) = Len(taken) + Len(QueueItems)
        /\ \A i \in 1 .. Len(taken) + Len(QueueItems) :
             (taken \o QueueItems)[i] = IF i <= Len(taken) THEN taken[i]
                                        ELSE QueueItems[i - Len(taken)]
    BY <2>2, ConcatProperties
  <2> QED  BY <2>1, <2>3 DEF taken
<1>5. ASSUME NEW i \in 1 .. QueueLen
      PROVE  QueueItems[i] = Log[Len(books) + Len(rcv) + i]
  <2> HIDE DEF S
  <2>1. /\ Len(books) + Len(rcv) + i \in 1 .. Len(books \o rcv) + Len(QueueItems)
        /\ ~(Len(books) + Len(rcv) + i <= Len(books \o rcv))
        /\ Len(books) + Len(rcv) + i - Len(books \o rcv) = i
    BY <1>2, <1>3
  <2> QED  BY <1>4, <2>1
<1> QED  BY <1>1, <1>2, <1>3, <1>4, <1>5

\* The program starts in a state that satisfies the inductive invariant.
LEMMA InitInv == Init => IInv
<1> SUFFICES ASSUME Init PROVE IInv
  OBVIOUS
<1>1. /\ Counted = {} /\ Updating = {} /\ ~DoorHeld /\ Reading = {}
      /\ ReaderAt({"lock"}) = {} /\ ReaderAt({"unlock"}) = {}
  BY DEF Init, GateInit, Counted, Updating, DoorHeld, Reading, ReaderAt
<1>2. Cardinality(Readers) \in Nat /\ Cardinality({}) = 0
  BY ReadersFinite, FS_CardinalityType, FS_EmptySet
<1>3. GateTypeOK /\ GateConsistent
  BY <1>1, <1>2 DEF Init, GateInit, GateTypeOK, GateConsistent
<1>4. QueueTypeOK /\ QueueConsistent /\ QueueLen = 0
  BY QueueElements DEF Init, QueueInit, QueueTypeOK, QueueConsistent
<1>5. Inside = {} /\ Done = {} /\ Copying = {}
  BY DEF Init, Inside, Done, Copying
<1>6. LocksConsistent
  BY <1>1, <1>5 DEF Init, LocksConsistent
<1>7. TypeOK
  BY <1>3, <1>4, QueueElements, Capacity DEF Init, TypeOK
<1>8. Len(books) = 0 /\ Len(rcv) = 0 /\ rcv = <<>>
  BY DEF Init
<1>9. Whole(0)
  BY QueueElements, Capacity DEF Whole
<1>10. HandConsistent
  BY <1>8, <1>9 DEF Init, HandConsistent
<1>11. Len(Log) = 0 /\ DOMAIN Log = {}
  BY <1>4, <1>7, <1>8, LogIs, LenProperties
<1>12. Delivered
  BY <1>2, <1>5, <1>11 DEF Delivered
<1> QED  BY <1>1, <1>3, <1>4, <1>6, <1>7, <1>10, <1>12 DEF IInv, NoTornBatch

-----------------------------------------------------------------------------
\* A reader that reads holds the door, so the special writer is not copying, and
\* what it has in hand is nothing or a whole batch.
LEMMA NothingTorn == TypeOK /\ LocksConsistent /\ HandConsistent => NoTornBatch
<1> SUFFICES ASSUME TypeOK, LocksConsistent, HandConsistent, Reading # {}
             PROVE  Whole(Len(books))
  BY DEF NoTornBatch
<1>1. pc[sw] # "copying"
  BY DEF LocksConsistent, Copying, DoorHeld, Reading, ReaderAt
<1>2. pc[sw] \in {"outside", "inside", "loaded"}
  BY <1>1 DEF TypeOK
<1>3. Len(books) \in Nat /\ (rcv = <<>> => Len(books) + Len(rcv) = Len(books))
  BY DEF TypeOK
<1>4. CASE pc[sw] = "loaded"
  BY <1>3, <1>4, OneLess DEF HandConsistent
<1>5. CASE pc[sw] # "loaded"
  BY <1>2, <1>3, <1>5 DEF HandConsistent
<1> QED  BY <1>4, <1>5

\* What keeps the log and the writers that are done delivers nothing new.
LEMMA LogKept ==
    ASSUME Delivered, Log' = Log, Done' = Done
    PROVE  Delivered'
BY DEF Delivered

\* What leaves the books, the hand and the queue alone keeps the log.
LEMMA LogUntouched ==
    ASSUME UNCHANGED <<books, rcv, queueVars>> PROVE Log' = Log
BY DEF Log, QueueItems, queueVars

\* A thread that goes into the monitor finds it empty, one that leaves it leaves it
\* empty; the door is not theirs.
LEMMA MonitorEntered ==
    ASSUME TypeOK, LocksConsistent, NEW t \in Writers \cup {sw},
           pc[t] = "outside", Lock(mutex), pc' = [pc EXCEPT ![t] = "inside"],
           UNCHANGED writerSem, DoorHeld' = DoorHeld
    PROVE  LocksConsistent' /\ mutex' \in {0, 1}
<1>1. Inside = {} /\ Inside' = {t} /\ Copying' = Copying /\ mutex' = 0
  BY Capacity DEF LocksConsistent, Inside, Copying, Lock, TypeOK
<1> QED  BY <1>1 DEF LocksConsistent

LEMMA MonitorLeft ==
    ASSUME TypeOK, LocksConsistent, NEW t \in Writers \cup {sw},
           NEW to \in {"outside", "loaded", "done"},
           pc[t] = "inside", Unlock(mutex), pc' = [pc EXCEPT ![t] = to],
           UNCHANGED writerSem, DoorHeld' = DoorHeld
    PROVE  LocksConsistent' /\ mutex' \in {0, 1}
<1>1. Inside = {t} /\ Inside' = {} /\ Copying' = Copying /\ mutex' = 1
  BY Capacity DEF LocksConsistent, Inside, Copying, Unlock, TypeOK
<1> QED  BY <1>1 DEF LocksConsistent

\* A letter that a writer puts is the last one of the log, and a new one; the queue
\* has room for it.
LEMMA LetterPut ==
    ASSUME IInv, NEW w \in Writers, WriterPuts(w)
    PROVE  /\ QueueTypeOK' /\ QueueConsistent' /\ Delivered'
           /\ Log' = Append(Log, w)
<1> DEFINE S == Letters \cup {NUL}
           n == Len(Log)
<1>1. w \notin Done /\ w \in Letters /\ w \in S
  BY Capacity DEF WriterPuts, Done
<1>2. Done' = Done \cup {w}
  BY DEF WriterPuts, Done, IInv, TypeOK
<1>3. /\ n = Cardinality(Done) /\ n \in Nat
      /\ Cardinality(Done') = n + 1 /\ n < Cardinality(Writers)
  BY <1>1, <1>2, DoneFinite DEF IInv, Delivered
<1>4. QueueLen < QUEUE_ELEMENTS
  BY <1>3, LogIs, QueueElements, Capacity, DoneFinite DEF IInv
<1>5. /\ QueueTypeOK' /\ QueueConsistent'
      /\ QueueItems' = Append(QueueItems, w)
  BY <1>1, <1>4, PutAppends DEF WriterPuts, IInv, TypeOK
<1>6. Log' = Append(Log, w) /\ Log \in Seq(S)
  <2>1. Log' = (books \o rcv) \o Append(QueueItems, w)
    BY <1>5 DEF Log, WriterPuts
  <2>2. books \o rcv \in Seq(S) /\ QueueItems \in Seq(S) /\ Log \in Seq(S)
    BY LogIs DEF IInv
  <2> QED  BY <1>1, <2>1, <2>2, AppendedLast DEF Log
<1>7. /\ DOMAIN Log = 1 .. n /\ DOMAIN Log' = 1 .. n + 1
      /\ Len(Log') = n + 1 /\ Log'[n + 1] = w
      /\ \A i \in 1 .. n : Log'[i] = Log[i]
  BY <1>1, <1>6, LenProperties, AppendProperties
<1>8. {Log[i] : i \in 1 .. n} = Done /\ \A i, j \in 1 .. n : Log[i] = Log[j] => i = j
  BY <1>7 DEF IInv, Delivered
<1>9. {Log'[i] : i \in DOMAIN Log'} = Done'
  BY <1>2, <1>3, <1>7, <1>8
<1>10. \A i, j \in DOMAIN Log' : Log'[i] = Log'[j] => i = j
  <2>1. \A i \in 1 .. n : Log'[i] # w
    BY <1>1, <1>7, <1>8
  <2> QED  BY <1>3, <1>7, <1>8, <2>1
<1> QED  BY <1>3, <1>5, <1>6, <1>7, <1>9, <1>10 DEF Delivered

\* A batch that the special writer takes stays where it was in the log.
LEMMA BatchMoved ==
    ASSUME IInv, SpecialTakes
    PROVE  /\ QueueTypeOK' /\ QueueConsistent' /\ Log' = Log
           /\ rcv' \in Seq(Letters) /\ Len(rcv') = SWRITER_SIZE
<1> DEFINE S == Letters \cup {NUL}
<1>1. rcv = <<>> /\ books' = books
  BY DEF SpecialTakes, IInv, HandConsistent
<1>2. {QueueItems[i] : i \in 1 .. QueueLen} \subseteq Letters
  <2>1. ASSUME NEW i \in 1 .. QueueLen PROVE QueueItems[i] \in Letters
    <3>1. /\ Len(books) + Len(rcv) + i \in DOMAIN Log
          /\ QueueItems[i] = Log[Len(books) + Len(rcv) + i]
      BY LogIs, LenProperties DEF IInv
    <3>2. \A k \in DOMAIN Log : Log[k] \in Done
      BY DEF IInv, Delivered
    <3>3. QueueItems[i] \in Done
      BY <3>1, <3>2
    <3> QED  BY <3>3, Capacity DEF Done
  <2> QED  BY <2>1
<1>3. /\ QueueTypeOK' /\ QueueConsistent'
      /\ rcv' \in Seq(Letters) /\ Len(rcv') = SWRITER_SIZE
      /\ rcv' \o QueueItems' = QueueItems
  BY <1>2, BatchTaken DEF SpecialTakes, IInv, TypeOK
<1>4. Log' = Log
  <2>1. QueueItems' \in Seq(S) /\ rcv' \in Seq(S) /\ books \in Seq(S)
    <3>1. (QueueTypeOK => ASequence)'
      BY ItemsAre, PTL
    <3> QED  BY <1>3, <3>1, LogIs, SeqMonotonic DEF ASequence, IInv
  <2>2. Log' = (books \o rcv') \o QueueItems'
    BY <1>1 DEF Log
  <2>3. (books \o rcv') \o QueueItems' = books \o (rcv' \o QueueItems')
    BY <2>1, ConcatAssociative
  <2> QED  BY <1>1, <1>3, <2>1, <2>2, <2>3, ConcatEmptySeq DEF Log
<1> QED  BY <1>3, <1>4

\* A letter that the special writer copies stays where it was in the log; the books
\* have room for it.
LEMMA LetterCopied ==
    ASSUME IInv, SpecialCopies
    PROVE  /\ Log' = Log
           /\ rcv' \in Seq(Letters) /\ Len(rcv') = Len(rcv) - 1
           /\ books' \in Seq(Letters) /\ Len(books') = Len(books) + 1
           /\ Len(books) + 1 <= BOOKS
<1>1. /\ rcv # <<>> /\ rcv \in Seq(Letters) /\ books \in Seq(Letters)
      /\ books' = Append(books, Head(rcv)) /\ rcv' = Tail(rcv)
  BY DEF SpecialCopies, IInv, TypeOK
<1>2. /\ rcv' \in Seq(Letters) /\ Len(rcv') = Len(rcv) - 1 /\ Head(rcv) \in Letters
      /\ books' \in Seq(Letters) /\ Len(books') = Len(books) + 1
      /\ Len(rcv) \in Nat \ {0} /\ Len(books) \in Nat
  BY <1>1, HeadTailProperties, AppendProperties, LenProperties
<1>3. Log' = Log
  <2>1. books' \o rcv' = books \o rcv
    BY <1>1, HeadMoved
  <2>2. QueueItems' = QueueItems
    BY DEF SpecialCopies, queueVars, QueueItems
  <2> QED  BY <2>1, <2>2 DEF Log
<1>4. Len(books) + 1 <= Len(Log) /\ Len(Log) \in Nat
  BY <1>2, LogIs DEF IInv
<1>5. Len(Log) <= BOOKS
  BY <1>4, DoneFinite, Capacity DEF IInv, Delivered
<1>6. Len(books) + 1 <= BOOKS
  BY <1>2, <1>4, <1>5, Capacity
<1> QED  BY <1>1, <1>2, <1>3, <1>6

-----------------------------------------------------------------------------
\* Every step of the program preserves the inductive invariant.
LEMMA NextInv == IInv /\ [Next]_vars => IInv'
<1> SUFFICES ASSUME IInv, [Next]_vars PROVE IInv'
  OBVIOUS
<1> USE DEF IInv
<1>1. (TypeOK /\ LocksConsistent /\ HandConsistent => NoTornBatch)'
  BY NothingTorn, PTL
<1>2. ASSUME UNCHANGED queueVars PROVE QueueTypeOK' /\ QueueConsistent'
  BY <1>2 DEF queueVars, QueueTypeOK, QueueConsistent, TypeOK
<1>3. ASSUME NEW r \in Readers, ReaderThread(r) PROVE IInv'
  <2>1. Reader(r) /\ UNCHANGED <<queueVars, mutex, cond, pc, rcv, books>>
    BY <1>3 DEF ReaderThread
  <2>2. Inside' = Inside /\ Copying' = Copying /\ Done' = Done /\ Log' = Log
    BY <2>1, LogUntouched DEF Inside, Copying, Done
  <2>3. GateTypeOK' /\ GateConsistent'
    BY <2>1, ReaderStep DEF TypeOK
  <2>4. writerSem' \in {0, 1} /\ LocksConsistent'
    BY <2>1, <2>2, ReaderStep DEF TypeOK, LocksConsistent
  <2>5. TypeOK' /\ HandConsistent'
    BY <1>2, <2>1, <2>3, <2>4 DEF TypeOK, HandConsistent
  <2> QED  BY <1>1, <1>2, <2>1, <2>2, <2>3, <2>4, <2>5, LogKept
<1>4. ASSUME UNCHANGED gateVars
      PROVE  GateTypeOK' /\ GateConsistent' /\ DoorHeld' = DoorHeld /\ writerSem' = writerSem
  BY <1>4, GateUntouched DEF gateVars, TypeOK
<1>5. ASSUME NEW t \in Writers \cup {sw}, Acquire(t) PROVE IInv'
  <2>1. LocksConsistent' /\ mutex' \in {0, 1} /\ GateConsistent'
    BY <1>4, <1>5, MonitorEntered DEF Acquire
  <2>2. Done' = Done /\ Log' = Log
    BY <1>5, LogUntouched DEF Acquire, Done, TypeOK
  <2>3. TypeOK' /\ QueueConsistent'
    BY <1>2, <1>4, <1>5, <2>1 DEF Acquire, TypeOK
  <2>4. HandConsistent'
    BY <1>5 DEF Acquire, HandConsistent, TypeOK
  <2> QED  BY <1>1, <2>1, <2>2, <2>3, <2>4, LogKept
<1>6. ASSUME NEW w \in Writers, WriterPuts(w) PROVE IInv'
  <2>1. LocksConsistent' /\ mutex' \in {0, 1} /\ GateConsistent'
    BY <1>4, <1>6, MonitorLeft DEF WriterPuts
  <2>2. QueueTypeOK' /\ QueueConsistent' /\ Delivered'
    BY <1>6, LetterPut
  <2>3. TypeOK'
    BY <1>4, <1>6, <2>1, <2>2, Capacity DEF WriterPuts, WakeSpecial, Broadcast, TypeOK
  <2>4. HandConsistent'
    BY <1>6, Capacity DEF WriterPuts, HandConsistent, TypeOK
  <2> QED  BY <1>1, <2>1, <2>2, <2>3, <2>4
<1>7. CASE SpecialWaits
  <2>1. LocksConsistent' /\ mutex' \in {0, 1} /\ GateConsistent'
    BY <1>4, <1>7, MonitorLeft DEF SpecialWaits, CondWait
  <2>2. Done' = Done /\ Log' = Log
    BY <1>7, LogUntouched, Capacity DEF SpecialWaits, Done, TypeOK
  <2>3. TypeOK' /\ QueueConsistent'
    BY <1>2, <1>4, <1>7, <2>1 DEF SpecialWaits, CondWait, TypeOK
  <2>4. HandConsistent'
    BY <1>7 DEF SpecialWaits, HandConsistent, TypeOK
  <2> QED  BY <1>1, <2>1, <2>2, <2>3, <2>4, LogKept
<1>8. CASE SpecialTakes
  <2>1. LocksConsistent' /\ mutex' \in {0, 1} /\ GateConsistent'
    BY <1>4, <1>8, MonitorLeft DEF SpecialTakes
  <2>2. /\ QueueTypeOK' /\ QueueConsistent' /\ Log' = Log
        /\ rcv' \in Seq(Letters) /\ Len(rcv') = SWRITER_SIZE
    BY <1>8, BatchMoved
  <2>3. Done' = Done
    BY <1>8, Capacity DEF SpecialTakes, Done, TypeOK
  <2>4. TypeOK'
    BY <1>4, <1>8, <2>1, <2>2, Capacity, QueueElements DEF SpecialTakes, TypeOK
  <2>5. HandConsistent'
    <3>1. Len(books) \in Nat /\ Len(books) + Len(rcv) = Len(books) /\ books' = books
      BY <1>8 DEF SpecialTakes, HandConsistent, TypeOK
    <3>2. Whole(Len(books) + SWRITER_SIZE)
      BY <3>1, OneMore DEF HandConsistent
    <3>3. Whole(Len(books') + Len(rcv'))
      BY <2>2, <3>1, <3>2
    <3> QED  BY <1>8, <2>2, <3>3 DEF SpecialTakes, HandConsistent, TypeOK, Whole
  <2> QED  BY <1>1, <2>1, <2>2, <2>3, <2>4, <2>5, LogKept
<1>9. CASE SpecialEnters
  <2>1. GateTypeOK' /\ GateConsistent' /\ DoorHeld' = DoorHeld
    BY <1>9, GateUntouched DEF SpecialEnters, TypeOK
  <2>2. /\ Inside' = Inside /\ Done' = Done /\ Log' = Log
        /\ Copying = {} /\ Copying' = {sw}
    BY <1>9, LogUntouched, Capacity DEF SpecialEnters, Inside, Done, Copying, TypeOK
  <2>3. LocksConsistent' /\ writerSem' \in {0, 1}
    BY <1>9, <2>1, <2>2 DEF SpecialEnters, Wait, LocksConsistent, TypeOK
  <2>4. TypeOK' /\ QueueConsistent'
    BY <1>2, <1>9, <2>1, <2>3 DEF SpecialEnters, TypeOK
  <2>5. HandConsistent'
    BY <1>9 DEF SpecialEnters, HandConsistent, TypeOK
  <2> QED  BY <1>1, <2>1, <2>2, <2>3, <2>4, <2>5, LogKept
<1>10. CASE SpecialCopies
  <2>1. GateTypeOK' /\ GateConsistent' /\ DoorHeld' = DoorHeld /\ writerSem' = writerSem
    BY <1>4, <1>10 DEF SpecialCopies
  <2>2. Inside' = Inside /\ Done' = Done /\ Copying' = Copying
    BY <1>10 DEF SpecialCopies, Inside, Done, Copying
  <2>3. LocksConsistent'
    BY <1>10, <2>1, <2>2 DEF SpecialCopies, LocksConsistent
  <2>4. /\ Log' = Log
        /\ rcv' \in Seq(Letters) /\ Len(rcv') = Len(rcv) - 1
        /\ books' \in Seq(Letters) /\ Len(books') = Len(books) + 1
        /\ Len(books') <= BOOKS
    BY <1>10, LetterCopied
  <2>5. Len(rcv) \in Nat /\ Len(books) \in Nat /\ SWRITER_SIZE \in Nat
    BY Capacity, QueueElements DEF TypeOK
  <2>6. Len(books') + Len(rcv') = Len(books) + Len(rcv) /\ Len(rcv') <= SWRITER_SIZE
    BY <2>4, <2>5 DEF TypeOK
  <2>7. TypeOK' /\ QueueConsistent'
    BY <1>2, <1>10, <2>1, <2>4, <2>6 DEF SpecialCopies, TypeOK
  <2>8. HandConsistent'
    <3>1. Whole(Len(books') + Len(rcv'))
      BY <2>6 DEF HandConsistent
    <3> QED  BY <1>10, <3>1 DEF SpecialCopies, HandConsistent, Whole
  <2> QED  BY <1>1, <2>1, <2>2, <2>3, <2>4, <2>7, <2>8, LogKept
<1>11. CASE SpecialLeaves
  <2>1. GateTypeOK' /\ GateConsistent' /\ DoorHeld' = DoorHeld
    BY <1>11, GateUntouched DEF SpecialLeaves, TypeOK
  <2>2. /\ Inside' = Inside /\ Done' = Done /\ Log' = Log
        /\ Copying = {sw} /\ Copying' = {}
    BY <1>11, LogUntouched, Capacity DEF SpecialLeaves, Inside, Done, Copying, TypeOK
  <2>3. LocksConsistent' /\ writerSem' \in {0, 1}
    BY <1>11, <2>1, <2>2 DEF SpecialLeaves, Post, LocksConsistent, TypeOK
  <2>4. TypeOK' /\ QueueConsistent'
    BY <1>2, <1>11, <2>1, <2>3 DEF SpecialLeaves, TypeOK
  <2>5. HandConsistent'
    BY <1>11 DEF SpecialLeaves, HandConsistent, TypeOK
  <2> QED  BY <1>1, <2>1, <2>2, <2>3, <2>4, <2>5, LogKept
<1>12. ASSUME UNCHANGED <<gateVars, queueVars, mutex, pc, rcv, books>>, cond' \subseteq cond
       PROVE  IInv'
  <2>1. /\ Inside' = Inside /\ Done' = Done /\ Log' = Log /\ Copying' = Copying
        /\ GateTypeOK' /\ GateConsistent' /\ DoorHeld' = DoorHeld
    BY <1>4, <1>12, LogUntouched DEF Inside, Done, Copying
  <2>2. LocksConsistent' /\ TypeOK' /\ QueueConsistent' /\ HandConsistent'
    BY <1>2, <1>4, <1>12, <2>1 DEF LocksConsistent, TypeOK, HandConsistent
  <2> QED  BY <1>1, <2>1, <2>2, LogKept
<1>13. CASE SpuriousWakeup
  BY <1>12, <1>13 DEF SpuriousWakeup, Spurious
<1>14. CASE UNCHANGED vars
  BY <1>12, <1>14 DEF vars
<1> QED
  BY <1>3, <1>5, <1>6, <1>7, <1>8, <1>9, <1>10, <1>11, <1>13, <1>14
     DEF Next, Writer, Special

\* zad2, any number of threads and any batch that fits the queue: the locks are held
\* by those who are inside, queue and books never overflow, every letter put is in
\* the books, in hand or in the queue once, and no reader sees half a batch.
THEOREM Invariance == Spec => []IInv
BY InitInv, NextInv, PTL DEF Spec

-----------------------------------------------------------------------------
\* Every step is a step of the archive or leaves it alone.
LEMMA StepRefines == IInv /\ [Next]_vars => [Archive!Next]_<<Log, Visible>>
<1> SUFFICES ASSUME IInv, [Next]_vars, ~(Log' = Log /\ Visible' = Visible)
             PROVE  Archive!Next
  OBVIOUS
<1> USE DEF IInv, Visible
<1>1. /\ Len(books) \in Nat /\ Len(rcv) \in Nat /\ SWRITER_SIZE \in Nat
      /\ Len(Log) = Len(books) + Len(rcv) + QueueLen /\ QueueLen \in Nat
  BY LogIs, Capacity, QueueElements
<1>2. ASSUME UNCHANGED <<books, rcv, queueVars>>, Copying' = Copying PROVE FALSE
  BY <1>2, LogUntouched
<1>3. ASSUME NEW w \in Writers, WriterPuts(w) PROVE Archive!Next
  <2>1. Log' = Append(Log, w) /\ w \in Letters
    BY <1>3, LetterPut, Capacity
  <2>2. Visible' = Visible
    BY <1>3, Capacity DEF WriterPuts, Copying, TypeOK
  <2> QED  BY <2>1, <2>2 DEF Archive!Next, Archive!HandIn
<1>4. ASSUME SpecialTakes PROVE FALSE
  <2>1. Copying = {} /\ Copying' = {} /\ books' = books
    BY <1>4 DEF SpecialTakes, Copying, TypeOK
  <2> QED  BY <1>4, <2>1, BatchMoved
<1>5. ASSUME SpecialEnters PROVE FALSE
  <2>1. /\ Copying = {} /\ Copying' = {sw} /\ UNCHANGED <<books, rcv, queueVars>>
        /\ Len(rcv) = SWRITER_SIZE
    BY <1>5 DEF SpecialEnters, Copying, TypeOK, HandConsistent
  <2> QED  BY <1>1, <2>1, LogUntouched
<1>6. ASSUME SpecialCopies PROVE FALSE
  <2>1. Copying = {sw} /\ Copying' = {sw}
    BY <1>6 DEF SpecialCopies, Copying
  <2>2. Len(books') + Len(rcv') - SWRITER_SIZE = Len(books) + Len(rcv) - SWRITER_SIZE
    BY <1>1, <1>6, LetterCopied
  <2> QED  BY <1>6, <2>1, <2>2, LetterCopied
<1>7. CASE SpecialLeaves
  <2>1. /\ Copying = {sw} /\ Copying' = {} /\ rcv = <<>>
        /\ UNCHANGED <<books, rcv, queueVars>>
    BY <1>7 DEF SpecialLeaves, Copying, TypeOK
  <2>2. Visible' = Visible + SWRITER_SIZE /\ Visible + SWRITER_SIZE <= Len(Log)
    BY <1>1, <2>1
  <2> QED  BY <2>1, <2>2, LogUntouched DEF Archive!Next, Archive!Publish
<1>8. ASSUME \/ \E r \in Readers : ReaderThread(r)
             \/ \E t \in Writers \cup {sw} : Acquire(t)
             \/ SpecialWaits \/ SpuriousWakeup \/ UNCHANGED vars
      PROVE  FALSE
  <2>1. UNCHANGED <<books, rcv, queueVars>>
    BY <1>8 DEF ReaderThread, Acquire, SpecialWaits, SpuriousWakeup, vars
  <2>2. Copying' = Copying
    BY <1>8, Capacity DEF ReaderThread, Acquire, SpecialWaits, SpuriousWakeup, vars, Copying, TypeOK
  <2> QED  BY <1>2, <2>1, <2>2
<1> QED  BY <1>3, <1>4, <1>5, <1>6, <1>7, <1>8 DEF Next, Writer, Special

\* zad2, any number of threads and any batch that fits the queue: the letters are
\* archived in the order in which they were put, and become visible batch by batch.
THEOREM Refinement == Spec => ImplementsArchive
<1>1. Init => Archive!Init
  <2> SUFFICES ASSUME Init PROVE Archive!Init
    OBVIOUS
  <2>1. Len(Log) = 0 /\ Log \in Seq(Letters \cup {NUL})
    BY InitInv, LogIs DEF IInv, Init, QueueInit
  <2>2. Copying = {} /\ Len(books) = 0
    BY DEF Init, Copying
  <2> QED  BY <2>1, <2>2 DEF Archive!Init, Visible
<1> QED  BY <1>1, Invariance, StepRefines, PTL DEF Spec, ImplementsArchive, Archive!Spec
=============================================================================
