------------------------ MODULE BatchLibraryProofs ------------------------
(***************************************************************************)
(* cw01/zad6 for any batch size, any set of letters with a writer each and *)
(* any set of readers: the ring buffer (zad2 has the same) is a queue, the *)
(* inductive invariant, no lost wakeup, delivery, and the refinement of    *)
(* BatchBuffer.                                                            *)
(***************************************************************************)
EXTENDS BatchLibrary, TLAPS

\* % on a number that does not go round the ring, ...
LEMMA ModSmall ==
    ASSUME NEW n \in Nat \ {0}, NEW x \in 0 .. n - 1
    PROVE  x % n = x
BY Z3

\* ... and on one that goes round exactly once.
LEMMA ModOnce ==
    ASSUME NEW n \in Nat \ {0}, NEW x \in n .. 2 * n - 1
    PROVE  x % n = x - n
BY Z3

\* The place that lies k cells after QueueOut.
Place(k) == IF QueueOut + k <= QUEUE_ELEMENTS THEN QueueOut + k
                                              ELSE QueueOut + k - QUEUE_SIZE

\* The next cell (QueuePut and QueueGet), without %.
LEMMA AfterIs ==
    ASSUME NEW index \in 0 .. QUEUE_ELEMENTS
    PROVE  After(index) = IF index = QUEUE_ELEMENTS THEN 0 ELSE index + 1
<1>1. QUEUE_SIZE \in Nat \ {0} /\ QUEUE_ELEMENTS \in Nat
  BY QueueElements DEF QUEUE_SIZE
<1>2. CASE index = QUEUE_ELEMENTS
  <2>1. index + 1 \in QUEUE_SIZE .. 2 * QUEUE_SIZE - 1 /\ index + 1 - QUEUE_SIZE = 0
    BY <1>1, <1>2 DEF QUEUE_SIZE
  <2> QED  BY <1>1, <1>2, <2>1, ModOnce DEF After
<1>3. CASE index # QUEUE_ELEMENTS
  <2>1. index + 1 \in 0 .. QUEUE_SIZE - 1
    BY <1>1, <1>3 DEF QUEUE_SIZE
  <2> QED  BY <1>1, <1>3, <2>1, ModSmall DEF After
<1> QED  BY <1>2, <1>3

\* A cell at a distance from QueueOut, without %.
LEMMA PlaceIs ==
    ASSUME QueueTypeOK, NEW k \in 0 .. QUEUE_ELEMENTS
    PROVE  /\ (QueueOut + k) % QUEUE_SIZE = Place(k)
           /\ Place(k) \in 0 .. QUEUE_ELEMENTS
<1>1. QUEUE_SIZE \in Nat \ {0} /\ QUEUE_ELEMENTS \in Nat /\ QueueOut \in 0 .. QUEUE_ELEMENTS
  BY QueueElements DEF QUEUE_SIZE, QueueTypeOK
<1>2. CASE QueueOut + k <= QUEUE_ELEMENTS
  <2>1. QueueOut + k \in 0 .. QUEUE_SIZE - 1
    BY <1>1, <1>2 DEF QUEUE_SIZE
  <2> QED  BY <1>1, <1>2, <2>1, ModSmall DEF Place
<1>3. CASE QueueOut + k > QUEUE_ELEMENTS
  <2>1. /\ QueueOut + k \in QUEUE_SIZE .. 2 * QUEUE_SIZE - 1
        /\ QueueOut + k - QUEUE_SIZE \in 0 .. QUEUE_ELEMENTS
    BY <1>1, <1>3 DEF QUEUE_SIZE
  <2>2. (QueueOut + k) % QUEUE_SIZE = QueueOut + k - QUEUE_SIZE
    BY <1>1, <2>1, ModOnce
  <2>3. Place(k) = QueueOut + k - QUEUE_SIZE
    BY <1>1, <1>3 DEF Place
  <2> QED  BY <2>1, <2>2, <2>3
<1> QED  BY <1>1, <1>2, <1>3

ASequence == /\ QueueItems \in Seq(Letters \cup {NUL})
             /\ Len(QueueItems) = QueueLen
             /\ QueueItems = [i \in 1 .. QueueLen |-> Queue[Place(i - 1)]]

\* QueueItems is a sequence of QueueLen letters, cell by cell.
LEMMA ItemsAre == QueueTypeOK => ASequence
<1> SUFFICES ASSUME QueueTypeOK PROVE ASequence
  OBVIOUS
<1>1. QUEUE_ELEMENTS \in Nat /\ QueueLen \in 0 .. QUEUE_ELEMENTS
      /\ Queue \in [0 .. QUEUE_ELEMENTS -> Letters \cup {NUL}]
      /\ QueueOut \in 0 .. QUEUE_ELEMENTS
  BY QueueElements DEF QueueTypeOK
<1>2. ASSUME NEW i \in 1 .. QueueLen
      PROVE  /\ (QueueOut + i - 1) % QUEUE_SIZE = Place(i - 1)
             /\ Place(i - 1) \in 0 .. QUEUE_ELEMENTS
  <2>1. i - 1 \in 0 .. QUEUE_ELEMENTS /\ QueueOut + i - 1 = QueueOut + (i - 1)
    BY <1>1
  <2> QED  BY <2>1, PlaceIs
<1>3. QueueItems = [i \in 1 .. QueueLen |-> Queue[Place(i - 1)]]
  BY <1>2 DEF QueueItems
<1>4. QueueItems \in [1 .. QueueLen -> Letters \cup {NUL}]
  BY <1>1, <1>2, <1>3
<1> QED  BY <1>1, <1>3, <1>4 DEF ASequence

\* The two refusals come exactly when the counter says full, or empty.
LEMMA FullIs ==
    ASSUME QueueTypeOK, QueueConsistent
    PROVE  /\ QueueFull <=> QueueLen = QUEUE_ELEMENTS
           /\ QueueEmpty <=> QueueLen = 0
<1>1. /\ QUEUE_ELEMENTS \in Nat /\ QueueLen \in 0 .. QUEUE_ELEMENTS
      /\ QueueIn \in 0 .. QUEUE_ELEMENTS /\ QueueOut \in 0 .. QUEUE_ELEMENTS
  BY QueueElements DEF QueueTypeOK
<1>2. (QueueOut - 1 + QUEUE_SIZE) % QUEUE_SIZE = Place(QUEUE_ELEMENTS)
  <2>1. QueueOut - 1 + QUEUE_SIZE = QueueOut + QUEUE_ELEMENTS
    BY <1>1 DEF QUEUE_SIZE
  <2> QED  BY <1>1, <2>1, PlaceIs
<1>3. QueueFull <=> QueueLen = QUEUE_ELEMENTS
  BY <1>1, <1>2 DEF QueueFull, QueueConsistent, Place, QUEUE_SIZE
<1> QED  BY <1>1, <1>3 DEF QueueEmpty, QueueConsistent, QUEUE_SIZE

\* QueuePut with room appends the letter, and keeps the ring consistent.
THEOREM PutAppends ==
    ASSUME QueueTypeOK, QueueConsistent, QueueLen < QUEUE_ELEMENTS,
           NEW new \in Letters, QueuePut(new)
    PROVE  /\ QueueTypeOK' /\ QueueConsistent'
           /\ QueueLen' = QueueLen + 1
           /\ QueueItems' = Append(QueueItems, new)
<1>1. /\ QUEUE_ELEMENTS \in Nat /\ QueueLen \in 0 .. QUEUE_ELEMENTS
      /\ QueueIn \in 0 .. QUEUE_ELEMENTS /\ QueueOut \in 0 .. QUEUE_ELEMENTS
      /\ Queue \in [0 .. QUEUE_ELEMENTS -> Letters \cup {NUL}]
  BY QueueElements DEF QueueTypeOK
<1>2. /\ Queue' = [Queue EXCEPT ![QueueIn] = new]
      /\ QueueIn' = IF QueueIn = QUEUE_ELEMENTS THEN 0 ELSE QueueIn + 1
      /\ QueueLen' = QueueLen + 1
      /\ QueueOut' = QueueOut
  BY <1>1, FullIs, AfterIs DEF QueuePut
<1>3. QueueTypeOK'
  BY <1>1, <1>2 DEF QueueTypeOK
<1>4. QueueConsistent'
  BY <1>1, <1>2 DEF QueueConsistent, QUEUE_SIZE
<1>5. ASequence /\ ASequence'
  <2>1. (QueueTypeOK => ASequence)'
    BY ItemsAre, PTL
  <2> QED  BY <1>3, <2>1, ItemsAre
<1>6. QueueIn = Place(QueueLen)
  BY <1>1 DEF QueueConsistent, Place, QUEUE_SIZE
<1>7. \A i \in 1 .. QueueLen : Place(i - 1) # QueueIn /\ Place(i - 1) \in 0 .. QUEUE_ELEMENTS
  BY <1>1 DEF QueueConsistent, Place, QUEUE_SIZE
<1>8. \A i : Place(i)' = Place(i)
  BY <1>2 DEF Place, QUEUE_SIZE
<1>9. ASSUME NEW i \in 1 .. QueueLen + 1
      PROVE  QueueItems'[i] = IF i <= QueueLen THEN QueueItems[i] ELSE new
  <2>1. QueueItems'[i] = Queue'[Place(i - 1)]
    BY <1>1, <1>2, <1>8, <1>5 DEF ASequence
  <2>2. CASE i <= QueueLen
    BY <1>1, <1>2, <1>7, <2>1, <2>2, <1>5 DEF ASequence
  <2>3. CASE i = QueueLen + 1
    BY <1>1, <1>2, <1>6, <2>1, <2>3
  <2> QED  BY <1>1, <2>2, <2>3
<1>10. QueueItems' = Append(QueueItems, new)
  <2>1. /\ QueueItems \in Seq(Letters \cup {NUL}) /\ Len(QueueItems) = QueueLen
        /\ QueueItems' \in Seq(Letters \cup {NUL}) /\ Len(QueueItems') = QueueLen + 1
    BY <1>1, <1>2, <1>5 DEF ASequence
  <2> QED  BY <1>1, <1>9, <2>1
<1> QED  BY <1>2, <1>3, <1>4, <1>10

\* QueueGet on a queue that is not empty takes the first letter off.
THEOREM GetTakes ==
    ASSUME QueueTypeOK, QueueConsistent, QueueLen > 0, QueueGet
    PROVE  /\ QueueTypeOK' /\ QueueConsistent'
           /\ QueueLen' = QueueLen - 1
           /\ QueueItems' = Tail(QueueItems)
           /\ QueueRead(NUL) = Head(QueueItems)
<1>1. /\ QUEUE_ELEMENTS \in Nat /\ QueueLen \in 1 .. QUEUE_ELEMENTS
      /\ QueueIn \in 0 .. QUEUE_ELEMENTS /\ QueueOut \in 0 .. QUEUE_ELEMENTS
      /\ Queue \in [0 .. QUEUE_ELEMENTS -> Letters \cup {NUL}]
  BY QueueElements DEF QueueTypeOK
<1>2. /\ ~QueueEmpty
      /\ QueueOut' = IF QueueOut = QUEUE_ELEMENTS THEN 0 ELSE QueueOut + 1
      /\ QueueLen' = QueueLen - 1
      /\ Queue' = Queue /\ QueueIn' = QueueIn
  BY <1>1, FullIs, AfterIs DEF QueueGet
<1>3. QueueTypeOK'
  BY <1>1, <1>2 DEF QueueTypeOK
<1>4. QueueConsistent'
  BY <1>1, <1>2 DEF QueueConsistent, QUEUE_SIZE
<1>5. ASequence /\ ASequence'
  <2>1. (QueueTypeOK => ASequence)'
    BY ItemsAre, PTL
  <2> QED  BY <1>3, <2>1, ItemsAre
<1>6. \A i \in 1 .. QueueLen - 1 : Place(i - 1)' = Place(i)
  BY <1>1, <1>2 DEF Place, QUEUE_SIZE
<1>7. ASSUME NEW i \in 1 .. QueueLen - 1
      PROVE  QueueItems'[i] = QueueItems[i + 1]
  <2>1. QueueItems'[i] = Queue[Place(i)]
    BY <1>1, <1>2, <1>6, <1>5 DEF ASequence
  <2>2. i + 1 \in 1 .. QueueLen /\ (i + 1) - 1 = i
    BY <1>1
  <2> QED  BY <2>1, <2>2, <1>5 DEF ASequence
<1>8. QueueItems' = Tail(QueueItems)
  <2>1. /\ QueueItems \in Seq(Letters \cup {NUL}) /\ Len(QueueItems) = QueueLen
        /\ QueueItems' \in Seq(Letters \cup {NUL}) /\ Len(QueueItems') = QueueLen - 1
    BY <1>1, <1>2, <1>5 DEF ASequence
  <2>2. QueueItems # <<>>
    BY <1>1, <2>1
  <2> QED  BY <1>1, <1>7, <2>1, <2>2
<1>9. QueueRead(NUL) = Head(QueueItems)
  <2>1. QueueItems[1] = Queue[Place(0)] /\ Place(0) = QueueOut
    BY <1>1, <1>5 DEF ASequence, Place
  <2>2. QueueItems \in Seq(Letters \cup {NUL}) /\ QueueItems # <<>>
    BY <1>1, <1>5 DEF ASequence
  <2> QED  BY <1>2, <2>1, <2>2 DEF QueueRead
<1> QED  BY <1>2, <1>3, <1>4, <1>8, <1>9

-----------------------------------------------------------------------------
\* An empty queue is the empty sequence, a queue with letters is not.
LEMMA EmptyItems == QueueTypeOK => (QueueItems = <<>> <=> QueueLen = 0)
<1> SUFFICES ASSUME QueueTypeOK PROVE QueueItems = <<>> <=> QueueLen = 0
  OBVIOUS
<1>1. QueueItems \in Seq(Letters \cup {NUL}) /\ Len(QueueItems) = QueueLen
  BY ItemsAre DEF ASequence
<1> QED  BY <1>1

\* The program starts in a state that satisfies the inductive invariant.
LEMMA InitInv == Init => IInv
<1> SUFFICES ASSUME Init PROVE IInv
  OBVIOUS
<1>1. QueueTypeOK /\ QueueConsistent
  BY QueueElements DEF Init, QueueInit, QueueTypeOK, QueueConsistent
<1>2. InMonitor = {} /\ mutex = 1 /\ writers_mode = TRUE
  BY DEF Init, InMonitor
<1>3. TypeOK
  BY <1>1 DEF Init, TypeOK
<1>4. MonitorConsistent
  BY <1>2 DEF MonitorConsistent
<1>5. TurnConsistent
  BY QueueElements DEF Init, QueueInit, TurnConsistent
<1> QED  BY <1>1, <1>3, <1>4, <1>5 DEF IInv

\* A thread that goes in, and one that goes out (to sleep or for good), keeps
\* the monitor to one thread.
LEMMA MonitorStep ==
    ASSUME TypeOK, MonitorConsistent, NEW t \in Threads,
           \/ /\ pc[t] = "outside" /\ mutex = 1 /\ mutex' = 0
              /\ pc' = [pc EXCEPT ![t] = "inside"]
           \/ /\ pc[t] = "inside" /\ mutex' = 1
              /\ \E to \in {"outside", "done"} : pc' = [pc EXCEPT ![t] = to]
    PROVE  /\ MonitorConsistent' /\ mutex' \in {0, 1}
           /\ pc' \in [Threads -> {"outside", "inside", "done"}]
<1>1. pc' \in [Threads -> {"outside", "inside", "done"}] /\ mutex' \in {0, 1}
  BY DEF TypeOK
<1>2. CASE mutex = 1 /\ mutex' = 0 /\ pc' = [pc EXCEPT ![t] = "inside"]
  <2>1. InMonitor = {} /\ InMonitor' = {t}
    BY <1>2 DEF TypeOK, MonitorConsistent, InMonitor
  <2>2. MonitorConsistent'
    BY <1>2, <2>1 DEF MonitorConsistent
  <2> QED  BY <1>1, <2>2
<1>3. CASE /\ pc[t] = "inside" /\ mutex' = 1
           /\ \E to \in {"outside", "done"} : pc' = [pc EXCEPT ![t] = to]
  <2>1. InMonitor = {t} /\ InMonitor' = {}
    BY <1>3 DEF TypeOK, MonitorConsistent, InMonitor
  <2>2. MonitorConsistent'
    <3>1. mutex' = 1
      BY <1>3
    <3> QED  BY <2>1, <3>1 DEF MonitorConsistent
  <2> QED  BY <1>1, <2>2
<1> QED  BY <1>1, <1>2, <1>3

\* The writer's QueuePut, whose result it ignores, finds room.
LEMMA PutSucceeds ==
    ASSUME IInv, NEW w \in Writers, WriterPuts(w)
    PROVE  /\ QueueTypeOK' /\ QueueConsistent'
           /\ QueueLen' = QueueLen + 1 /\ QueueLen' \in 1 .. QUEUE_ELEMENTS
           /\ QueueItems' = Append(QueueItems, w)
<1>1. QueueLen < QUEUE_ELEMENTS /\ w \in Letters
  BY Roles DEF IInv, TurnConsistent, WriterPuts
<1>2. QueueTypeOK /\ QueueConsistent /\ QueuePut(w)
  BY DEF IInv, TypeOK, WriterPuts
<1>3. QueueLen \in 0 .. QUEUE_ELEMENTS /\ QUEUE_ELEMENTS \in Nat
  BY <1>2, QueueElements DEF QueueTypeOK
<1> QED  BY <1>1, <1>2, <1>3, PutAppends

\* The reader's QueueGet finds a letter and takes the first one.
LEMMA GetSucceeds ==
    ASSUME IInv, NEW r \in Readers, ReaderGets(r)
    PROVE  /\ QueueTypeOK' /\ QueueConsistent'
           /\ QueueLen > 0 /\ QueueLen' = QueueLen - 1
           /\ QueueItems' = Tail(QueueItems)
           /\ got' = [got EXCEPT ![r] = Head(QueueItems)]
<1>1. QueueLen > 0
  BY DEF IInv, TurnConsistent, ReaderGets
<1>2. QueueTypeOK /\ QueueConsistent /\ QueueGet
  BY DEF IInv, TypeOK, ReaderGets
<1> QED  BY <1>1, <1>2, GetTakes DEF ReaderGets

\* Every step of the program preserves the inductive invariant.
LEMMA NextInv == IInv /\ [Next]_vars => IInv'
<1> SUFFICES ASSUME IInv, [Next]_vars PROVE IInv'
  OBVIOUS
<1>1. /\ TypeOK /\ QueueTypeOK /\ QueueConsistent
      /\ MonitorConsistent /\ TurnConsistent
  BY DEF IInv, TypeOK
<1>2. ASSUME UNCHANGED <<queueVars, writers_mode>>
      PROVE  QueueTypeOK' /\ QueueConsistent' /\ TurnConsistent'
  BY <1>1, <1>2 DEF queueVars, QueueTypeOK, QueueConsistent, TurnConsistent, QUEUE_SIZE
<1>3. ASSUME NEW t \in Threads, Enter(t) PROVE IInv'
  <2>1. /\ MonitorConsistent' /\ mutex' \in {0, 1}
        /\ pc' \in [Threads -> {"outside", "inside", "done"}]
    BY <1>1, <1>3, MonitorStep DEF Enter, Lock
  <2>2. UNCHANGED <<queueVars, cond_empty, cond_full, writers_mode, got>>
    BY <1>3 DEF Enter
  <2> QED  BY <1>1, <1>2, <2>1, <2>2 DEF IInv, TypeOK
<1>4. ASSUME NEW w \in Writers, WriterWaits(w) PROVE IInv'
  <2>1. /\ MonitorConsistent' /\ mutex' \in {0, 1}
        /\ pc' \in [Threads -> {"outside", "inside", "done"}]
    BY <1>1, <1>4, MonitorStep DEF WriterWaits, CondWait, Unlock, Threads
  <2>2. /\ UNCHANGED <<queueVars, cond_full, writers_mode, got>>
        /\ cond_empty' = cond_empty \cup {w}
    BY <1>4 DEF WriterWaits, CondWait
  <2> QED  BY <1>1, <1>2, <2>1, <2>2 DEF IInv, TypeOK
<1>5. ASSUME NEW r \in Readers, ReaderWaits(r) PROVE IInv'
  <2>1. /\ MonitorConsistent' /\ mutex' \in {0, 1}
        /\ pc' \in [Threads -> {"outside", "inside", "done"}]
    BY <1>1, <1>5, MonitorStep DEF ReaderWaits, CondWait, Unlock, Threads
  <2>2. /\ UNCHANGED <<queueVars, cond_empty, writers_mode, got>>
        /\ cond_full' = cond_full \cup {r}
    BY <1>5 DEF ReaderWaits, CondWait
  <2> QED  BY <1>1, <1>2, <2>1, <2>2 DEF IInv, TypeOK
<1>6. ASSUME NEW w \in Writers, WriterPuts(w) PROVE IInv'
  <2>1. /\ MonitorConsistent' /\ mutex' \in {0, 1}
        /\ pc' \in [Threads -> {"outside", "inside", "done"}]
    BY <1>1, <1>6, MonitorStep DEF WriterPuts, Depart, Unlock, Threads
  <2>2. /\ QueueTypeOK' /\ QueueConsistent'
        /\ QueueLen' = QueueLen + 1 /\ QueueLen' \in 1 .. QUEUE_ELEMENTS
    BY <1>6, PutSucceeds
  <2>3. /\ cond_full' \in {cond_full, {}} /\ UNCHANGED <<cond_empty, got>>
        /\ \/ QueueLen' = QUEUE_ELEMENTS /\ writers_mode' = FALSE
           \/ QueueLen' # QUEUE_ELEMENTS /\ writers_mode' = TRUE
    BY <1>1, <1>6 DEF WriterPuts, ToReaders, Broadcast, TypeOK
  <2>4. TurnConsistent'
    BY <2>2, <2>3, QueueElements DEF TurnConsistent
  <2> QED  BY <1>1, <2>1, <2>2, <2>3, <2>4 DEF IInv, TypeOK
<1>7. ASSUME NEW r \in Readers, ReaderGets(r) PROVE IInv'
  <2>1. /\ MonitorConsistent' /\ mutex' \in {0, 1}
        /\ pc' \in [Threads -> {"outside", "inside", "done"}]
    BY <1>1, <1>7, MonitorStep DEF ReaderGets, Depart, Unlock, Threads
  <2>2. /\ QueueTypeOK' /\ QueueConsistent'
        /\ QueueLen > 0 /\ QueueLen' = QueueLen - 1
        /\ got' = [got EXCEPT ![r] = Head(QueueItems)]
    BY <1>7, GetSucceeds
  <2>3. /\ cond_empty' \in {cond_empty, {}} /\ UNCHANGED cond_full
        /\ \/ QueueLen' = 0 /\ writers_mode' = TRUE
           \/ QueueLen' # 0 /\ writers_mode' = FALSE
    BY <1>1, <1>7 DEF ReaderGets, ToWriters, Broadcast, TypeOK
  <2>4. TurnConsistent'
    BY <1>1, <2>2, <2>3, QueueElements DEF TurnConsistent, QueueTypeOK
  <2>5. got' \in [Readers -> Letters \cup {NUL}]
    <3>1. QueueItems \in Seq(Letters \cup {NUL}) /\ Len(QueueItems) = QueueLen
      BY <1>1, ItemsAre DEF ASequence
    <3>2. Head(QueueItems) \in Letters \cup {NUL}
      BY <2>2, <3>1
    <3> QED  BY <1>1, <2>2, <3>2 DEF TypeOK
  <2> QED  BY <1>1, <2>1, <2>2, <2>3, <2>4, <2>5 DEF IInv, TypeOK
<1>8. ASSUME NEW t \in Threads, SpuriousWakeup(t) PROVE IInv'
  <2>1. /\ UNCHANGED <<queueVars, mutex, writers_mode, pc, got>>
        /\ cond_empty' \subseteq cond_empty /\ cond_full' \subseteq cond_full
    BY <1>8 DEF SpuriousWakeup, Spurious
  <2> QED  BY <1>1, <1>2, <2>1 DEF IInv, TypeOK, MonitorConsistent, InMonitor
<1>9. ASSUME UNCHANGED vars PROVE IInv'
  BY <1>1, <1>2, <1>9 DEF vars, IInv, TypeOK, MonitorConsistent, InMonitor
<1> QED
  BY <1>3, <1>4, <1>5, <1>6, <1>7, <1>8, <1>9
     DEF Next, Writer, Reader, Exited, Threads

\* Any number of threads: the monitor, the ring and the turn flag of zad6 are
\* consistent, so the unchecked QueuePut and QueueGet never fail.
THEOREM Invariance == Spec => []IInv
<1>1. Init => IInv
  BY InitInv
<1>2. IInv /\ [Next]_vars => IInv'
  BY NextInv
<1> QED  BY <1>1, <1>2, PTL DEF Spec

\* The turn passes when the queue has become full, or empty, and with it all
\* that sleep on the other side are woken.
LEMMA TurnPasses ==
    ASSUME TypeOK
    PROVE  /\ \A w \in Writers : WriterPuts(w) =>
                /\ writers_mode = TRUE /\ cond_empty' = cond_empty
                /\ \/ QueueLen' = QUEUE_ELEMENTS /\ writers_mode' = FALSE /\ cond_full' = {}
                   \/ QueueLen' # QUEUE_ELEMENTS /\ writers_mode' = TRUE /\ cond_full' = cond_full
           /\ \A r \in Readers : ReaderGets(r) =>
                /\ writers_mode = FALSE /\ cond_full' = cond_full
                /\ \/ QueueLen' = 0 /\ writers_mode' = TRUE /\ cond_empty' = {}
                   \/ QueueLen' # 0 /\ writers_mode' = FALSE /\ cond_empty' = cond_empty
BY DEF WriterPuts, ReaderGets, ToReaders, ToWriters, Broadcast, TypeOK

\* Any number of threads: nobody sleeps in zad6 while it is its side's turn.
THEOREM NoWakeupLost == Spec => []NoLostWakeup
<1> DEFINE Sleepers == cond_empty \cup cond_full
<1>1. Init => NoLostWakeup
  BY DEF Init, NoLostWakeup
<1>2. IInv /\ NoLostWakeup /\ [Next]_vars => NoLostWakeup'
  <2> SUFFICES ASSUME IInv, NoLostWakeup, [Next]_vars PROVE NoLostWakeup'
    OBVIOUS
  <2>1. /\ TypeOK /\ writers_mode \in {TRUE, FALSE} /\ Readers \cap Writers = {}
        /\ \A t \in Sleepers : pc[t] = "outside"
        /\ pc \in [Threads -> {"outside", "inside", "done"}]
        /\ cond_empty \subseteq Writers /\ cond_full \subseteq Readers
    BY Roles DEF IInv, TypeOK, NoLostWakeup
  <2>2. CASE \E t \in Threads : Enter(t)
    BY <2>1, <2>2 DEF Enter, NoLostWakeup
  <2>3. CASE \E w \in Writers : WriterWaits(w)
    BY <2>1, <2>3 DEF WriterWaits, CondWait, NoLostWakeup, Threads
  <2>4. CASE \E r \in Readers : ReaderWaits(r)
    BY <2>1, <2>4 DEF ReaderWaits, CondWait, NoLostWakeup, Threads
  <2>5. ASSUME NEW w \in Writers, WriterPuts(w) PROVE NoLostWakeup'
    <3>1. pc[w] = "inside" /\ pc' = [pc EXCEPT ![w] = "done"]
      BY <2>5 DEF WriterPuts, Depart
    <3>2. \A t \in Sleepers' : pc'[t] = "outside"
      BY <2>1, <2>5, <3>1, TurnPasses DEF Threads
    <3> QED  BY <2>1, <2>5, <3>2, TurnPasses DEF NoLostWakeup
  <2>6. ASSUME NEW r \in Readers, ReaderGets(r) PROVE NoLostWakeup'
    <3>1. pc[r] = "inside" /\ pc' = [pc EXCEPT ![r] = "done"]
      BY <2>6 DEF ReaderGets, Depart
    <3>2. \A t \in Sleepers' : pc'[t] = "outside"
      BY <2>1, <2>6, <3>1, TurnPasses DEF Threads
    <3> QED  BY <2>1, <2>6, <3>2, TurnPasses DEF NoLostWakeup
  <2>7. CASE \E t \in Threads : SpuriousWakeup(t)
    BY <2>7 DEF SpuriousWakeup, Spurious, NoLostWakeup
  <2>8. CASE UNCHANGED vars
    BY <2>8 DEF vars, NoLostWakeup
  <2> QED
    BY <2>2, <2>3, <2>4, <2>5, <2>6, <2>7, <2>8
       DEF Next, Writer, Reader, Exited, Threads
<1> QED  BY <1>1, <1>2, Invariance, PTL DEF Spec

-----------------------------------------------------------------------------
\* What a sequence holds, and whether it holds something twice.
Elements(s)  == {s[i] : i \in 1 .. Len(s)}
Repeats(s)   == \E i, j \in 1 .. Len(s) : s[i] = s[j] /\ i # j

\* The queue after QueuePut: one letter more at its end.
LEMMA AppendElements ==
    ASSUME NEW S, NEW s \in Seq(S), NEW e \in S
    PROVE  /\ Elements(Append(s, e)) = Elements(s) \cup {e}
           /\ ~Repeats(s) /\ e \notin Elements(s) => ~Repeats(Append(s, e))
<1>1. /\ Len(s) \in Nat /\ Len(Append(s, e)) = Len(s) + 1
      /\ \A i \in 1 .. Len(s) : Append(s, e)[i] = s[i]
      /\ Append(s, e)[Len(s) + 1] = e
  OBVIOUS
<1>2. Elements(Append(s, e)) = Elements(s) \cup {e}
  <2>1. 1 .. Len(s) + 1 = (1 .. Len(s)) \cup {Len(s) + 1}
    BY <1>1
  <2> QED  BY <1>1, <2>1 DEF Elements
<1>3. ASSUME ~Repeats(s), e \notin Elements(s) PROVE ~Repeats(Append(s, e))
  BY <1>1, <1>3 DEF Elements, Repeats
<1> QED  BY <1>2, <1>3

\* The queue after QueueGet: without its head.
LEMMA TailElements ==
    ASSUME NEW S, NEW s \in Seq(S), s # <<>>, ~Repeats(s)
    PROVE  /\ Elements(Tail(s)) = Elements(s) \ {Head(s)}
           /\ Head(s) \in Elements(s)
           /\ ~Repeats(Tail(s))
<1>1. /\ Len(s) \in Nat \ {0} /\ Len(Tail(s)) = Len(s) - 1
      /\ \A i \in 1 .. Len(s) - 1 : Tail(s)[i] = s[i + 1]
      /\ Head(s) = s[1]
  OBVIOUS
<1>2. \A e : e \in Elements(Tail(s)) <=> e \in Elements(s) /\ e # Head(s)
  <2>1. ASSUME NEW i \in 1 .. Len(s) - 1
        PROVE  Tail(s)[i] \in Elements(s) /\ Tail(s)[i] # Head(s)
    BY <1>1, <2>1 DEF Elements, Repeats
  <2>2. ASSUME NEW i \in 1 .. Len(s), s[i] # Head(s)
        PROVE  s[i] \in Elements(Tail(s))
    <3>1. i - 1 \in 1 .. Len(s) - 1 /\ Tail(s)[i - 1] = s[i]
      BY <1>1, <2>2
    <3> QED  BY <1>1, <3>1 DEF Elements
  <2> QED  BY <1>1, <2>1, <2>2 DEF Elements
<1>3. ~Repeats(Tail(s))
  BY <1>1 DEF Repeats
<1>4. Head(s) \in Elements(s)
  BY <1>1 DEF Elements
<1> QED  BY <1>2, <1>3, <1>4

\* Delivery, said of the queue as a sequence.
DoneWriters == {w \in Writers : pc[w] = "done"}
Delivered == /\ Elements(QueueItems) \cap Taken = {}
             /\ Elements(QueueItems) \cup Taken = DoneWriters
             /\ ~Repeats(QueueItems)
             /\ \A r, s \in Served : got[r] = got[s] => r = s

\* The two ways to say it agree.
LEMMA DeliveredIs == QueueTypeOK => (Delivery <=> Delivered)
<1> SUFFICES ASSUME QueueTypeOK PROVE Delivery <=> Delivered
  OBVIOUS
<1>1. Len(QueueItems) = QueueLen
  BY ItemsAre DEF ASequence
<1>2. Queued = Elements(QueueItems)
  BY <1>1 DEF Queued, Elements
<1>3. (\A i, j \in 1 .. QueueLen : QueueItems[i] = QueueItems[j] => i = j)
        <=> ~Repeats(QueueItems)
  BY <1>1 DEF Repeats
<1> QED  BY <1>2, <1>3 DEF Delivery, Delivered, DoneWriters

\* A writer that puts its letter adds it to the letters delivered.
LEMMA PutDelivers ==
    ASSUME IInv, Delivered, NEW w \in Writers, WriterPuts(w)
    PROVE  Delivered'
<1>1. /\ pc[w] = "inside" /\ pc' = [pc EXCEPT ![w] = "done"] /\ got' = got
      /\ pc \in [Threads -> {"outside", "inside", "done"}]
      /\ w \in Letters /\ w \notin Readers /\ w \in Threads
  BY Roles DEF WriterPuts, Depart, IInv, TypeOK, Threads
<1>2. Served' = Served /\ Taken' = Taken
  BY <1>1 DEF Served, Taken, Threads
<1>3. DoneWriters' = DoneWriters \cup {w} /\ w \notin DoneWriters
  BY <1>1 DEF DoneWriters, Threads
<1>4. w \notin Elements(QueueItems) /\ w \notin Taken
  BY <1>3 DEF Delivered
<1>5. QueueItems' = Append(QueueItems, w) /\ QueueItems \in Seq(Letters \cup {NUL})
  BY PutSucceeds, ItemsAre DEF ASequence, IInv, TypeOK
<1>6. /\ Elements(QueueItems)' = Elements(QueueItems) \cup {w}
      /\ ~Repeats(QueueItems)'
  <2>1. /\ Elements(Append(QueueItems, w)) = Elements(QueueItems) \cup {w}
        /\ ~Repeats(Append(QueueItems, w))
    BY <1>1, <1>4, <1>5, AppendElements DEF Delivered
  <2> QED  BY <1>5, <2>1 DEF Elements, Repeats
<1>7. \A r, s \in Served' : got'[r] = got'[s] => r = s
  BY <1>1, <1>2 DEF Delivered
<1> QED  BY <1>2, <1>3, <1>4, <1>6, <1>7 DEF Delivered

\* A reader that is served moves the first letter from the queue to itself.
LEMMA GetDelivers ==
    ASSUME IInv, Delivered, NEW r \in Readers, ReaderGets(r)
    PROVE  Delivered'
<1>1. /\ pc[r] = "inside" /\ pc' = [pc EXCEPT ![r] = "done"]
      /\ pc \in [Threads -> {"outside", "inside", "done"}]
      /\ got \in [Readers -> Letters \cup {NUL}]
      /\ r \notin Writers /\ r \in Threads
  BY Roles DEF ReaderGets, Depart, IInv, TypeOK, Threads
<1>2. /\ QueueItems' = Tail(QueueItems) /\ QueueItems \in Seq(Letters \cup {NUL})
      /\ QueueItems # <<>>
      /\ got' = [got EXCEPT ![r] = Head(QueueItems)]
  BY GetSucceeds, ItemsAre DEF ASequence, IInv, TypeOK
<1>3. /\ Elements(QueueItems)' = Elements(QueueItems) \ {Head(QueueItems)}
      /\ Head(QueueItems) \in Elements(QueueItems)
      /\ ~Repeats(QueueItems)'
  <2>1. /\ Elements(Tail(QueueItems)) = Elements(QueueItems) \ {Head(QueueItems)}
        /\ Head(QueueItems) \in Elements(QueueItems)
        /\ ~Repeats(Tail(QueueItems))
    BY <1>2, TailElements DEF Delivered
  <2> QED  BY <1>2, <2>1 DEF Elements, Repeats
<1>4. Served' = Served \cup {r} /\ r \notin Served
  BY <1>1 DEF Served, Threads
<1>5. got'[r] = Head(QueueItems) /\ \A s \in Served : got'[s] = got[s]
  BY <1>1, <1>2, <1>4 DEF Served
<1>6. Taken' = Taken \cup {Head(QueueItems)}
  <2>1. Taken' = {got'[s] : s \in Served'}
    BY DEF Taken
  <2> QED  BY <1>4, <1>5, <2>1 DEF Taken
<1>7. DoneWriters' = DoneWriters
  BY <1>1 DEF DoneWriters, Threads
<1>8. Head(QueueItems) \notin Taken /\ \A s \in Served : got[s] \in Taken
  BY <1>3 DEF Delivered, Taken
<1>9. \A s, t \in Served' : got'[s] = got'[t] => s = t
  BY <1>4, <1>5, <1>8 DEF Delivered
<1> QED  BY <1>3, <1>6, <1>7, <1>8, <1>9 DEF Delivered

\* Any number of threads: every letter of zad6 is in the queue or with exactly
\* one reader, and every reader that was served has one.
THEOREM NothingLost == Spec => []Delivery
<1>1. Init => Delivery
  <2> SUFFICES ASSUME Init PROVE Delivery
    OBVIOUS
  <2>1. Queued = {} /\ Served = {} /\ Taken = {} /\ QueueLen = 0
    BY DEF Init, QueueInit, Queued, Served, Taken, Threads
  <2> QED  BY <2>1 DEF Init, Delivery, Threads
<1>2. IInv /\ Delivery /\ [Next]_vars /\ IInv' => Delivery'
  <2> SUFFICES ASSUME IInv, Delivery, [Next]_vars, IInv' PROVE Delivery'
    OBVIOUS
  <2>1. Delivered
    BY DeliveredIs DEF IInv, TypeOK
  <2>2. Delivered' => Delivery'
    <3>1. (QueueTypeOK => (Delivery <=> Delivered))'
      BY DeliveredIs, PTL
    <3> QED  BY <3>1 DEF IInv, TypeOK
  <2>3. ASSUME UNCHANGED <<queueVars, got>>,
               \A t \in Threads : pc'[t] = "done" <=> pc[t] = "done"
        PROVE  Delivery'
    <3>1. /\ QueueItems' = QueueItems /\ QueueLen' = QueueLen
          /\ Served' = Served /\ got' = got
          /\ DoneWriters' = DoneWriters
      BY <2>3 DEF queueVars, QueueItems, QUEUE_SIZE, Served, DoneWriters, Threads
    <3> QED  BY <3>1 DEF Delivery, Queued, Taken, DoneWriters
  <2>4. pc \in [Threads -> {"outside", "inside", "done"}]
    BY DEF IInv, TypeOK
  <2>5. CASE \E t \in Threads : Enter(t)
    BY <2>3, <2>4, <2>5 DEF Enter
  <2>6. CASE \E w \in Writers : WriterWaits(w)
    BY <2>3, <2>4, <2>6 DEF WriterWaits
  <2>7. CASE \E r \in Readers : ReaderWaits(r)
    BY <2>3, <2>4, <2>7 DEF ReaderWaits
  <2>8. CASE \E w \in Writers : WriterPuts(w)
    BY <2>1, <2>2, <2>8, PutDelivers
  <2>9. CASE \E r \in Readers : ReaderGets(r)
    BY <2>1, <2>2, <2>9, GetDelivers
  <2>10. CASE \E t \in Threads : SpuriousWakeup(t)
    BY <2>3, <2>10 DEF SpuriousWakeup
  <2>11. CASE UNCHANGED vars
    BY <2>3, <2>11 DEF vars
  <2> QED
    BY <2>5, <2>6, <2>7, <2>8, <2>9, <2>10, <2>11
       DEF Next, Writer, Reader, Exited, Threads
<1> QED  BY <1>1, <1>2, Invariance, PTL DEF Spec

-----------------------------------------------------------------------------
\* Each step of zad6 is a Put or a Take of the batch buffer, or changes neither
\* its batch nor its turn.
LEMMA StepRefines == IInv /\ IInv' /\ [Next]_vars => [Batches!Next]_<<QueueItems, writers_mode>>
<1> SUFFICES ASSUME IInv, IInv', [Next]_vars
             PROVE  [Batches!Next]_<<QueueItems, writers_mode>>
  OBVIOUS
<1>1. /\ TypeOK /\ QueueTypeOK /\ QUEUE_ELEMENTS \in Nat
      /\ QueueItems \in Seq(Letters \cup {NUL}) /\ Len(QueueItems) = QueueLen
  BY QueueElements, ItemsAre DEF IInv, TypeOK, ASequence
<1>2. ASSUME NEW w \in Writers, WriterPuts(w) PROVE Batches!Put(w)
  <2>1. /\ QueueItems' = Append(QueueItems, w) /\ QueueLen' = QueueLen + 1
        /\ QueueLen' \in 1 .. QUEUE_ELEMENTS
    BY <1>2, PutSucceeds
  <2>2. Len(QueueItems') = QueueLen'
    BY <1>1, <2>1
  <2>3. writers_mode /\ writers_mode' = (QueueLen' < QUEUE_ELEMENTS)
    <3>1. CASE QueueLen' = QUEUE_ELEMENTS
      <4>1. (QueueLen' < QUEUE_ELEMENTS) = FALSE
        BY <1>1, <3>1
      <4> QED  BY <1>1, <1>2, <3>1, <4>1, TurnPasses
    <3>2. CASE QueueLen' # QUEUE_ELEMENTS
      <4>1. (QueueLen' < QUEUE_ELEMENTS) = TRUE
        BY <1>1, <2>1, <3>2
      <4> QED  BY <1>1, <1>2, <3>2, <4>1, TurnPasses
    <3> QED  BY <3>1, <3>2
  <2> QED  BY <2>1, <2>2, <2>3 DEF Batches!Put
<1>3. ASSUME NEW r \in Readers, ReaderGets(r) PROVE Batches!Take
  <2>1. QueueItems' = Tail(QueueItems) /\ QueueLen' = QueueLen - 1
    BY <1>3, GetSucceeds
  <2>2. QueueItems' = <<>> <=> QueueLen' = 0
    <3>1. (QueueTypeOK => (QueueItems = <<>> <=> QueueLen = 0))'
      BY EmptyItems, PTL
    <3> QED  BY <3>1 DEF IInv, TypeOK
  <2>3. ~writers_mode /\ writers_mode' = (QueueItems' = <<>>)
    BY <1>1, <1>3, <2>2, TurnPasses
  <2> QED  BY <2>1, <2>3 DEF Batches!Take
<1>4. UNCHANGED <<queueVars, writers_mode>> => UNCHANGED <<QueueItems, writers_mode>>
  BY DEF queueVars, QueueItems, QUEUE_SIZE
<1>5. \/ \E w \in Writers : WriterPuts(w)
      \/ \E r \in Readers : ReaderGets(r)
      \/ UNCHANGED <<queueVars, writers_mode>>
  BY DEF Next, Writer, Reader, Exited, Enter, WriterWaits, ReaderWaits,
         SpuriousWakeup, vars
<1> QED  BY <1>2, <1>3, <1>4, <1>5, Roles DEF Batches!Next

\* Any number of threads: zad6 implements the batch buffer.
THEOREM Refinement == Spec => ImplementsBatchBuffer
<1>1. Init => Batches!Init
  <2> SUFFICES ASSUME Init PROVE Batches!Init
    OBVIOUS
  <2>1. QueueTypeOK /\ QueueLen = 0 /\ writers_mode = TRUE
    BY InitInv DEF Init, QueueInit, IInv, TypeOK
  <2> QED  BY <2>1, EmptyItems DEF Batches!Init
<1> QED
  BY <1>1, StepRefines, Invariance, PTL
     DEF Spec, ImplementsBatchBuffer, Batches!Spec
=============================================================================
