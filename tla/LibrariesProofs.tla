-------------------------- MODULE LibrariesProofs --------------------------
(***************************************************************************)
(* cw01/zad3 and zad5 for any number of threads and libraries and any      *)
(* limit: what is left of the locking although readers unlock w_mutex      *)
(* without having locked it.                                               *)
(***************************************************************************)
EXTENDS Libraries, FiniteSetTheorems, TLAPS

\* The next library to try is a library.
LEMMA NextLibrary ==
    ASSUME NEW n \in Nat \ {0}, NEW l \in 0 .. n - 1
    PROVE  (l + 1) % n \in 0 .. n - 1
BY Z3

\* Who is where after thread t has gone to a label.
LEMMA Moved ==
    ASSUME TypeOK, NEW t \in Threads, NEW to, Goto(t, to), it' = it,
           NEW l, NEW labels
    PROVE  At(l, labels)' = IF it[t] # l THEN At(l, labels)
                            ELSE IF to \in labels THEN At(l, labels) \cup {t}
                            ELSE At(l, labels) \ {t}
BY DEF TypeOK, At, Goto

\* ... and after it has gone on to try the next library.
LEMMA MovedOn ==
    ASSUME TypeOK, NEW t \in Threads, NEW mutex, TryNext(t, mutex),
           NEW l, NEW labels, "trying" \notin labels
    PROVE  At(l, labels)' = At(l, labels)
BY DEF TypeOK, At, TryNext

-----------------------------------------------------------------------------
\* The writers that are done with a library; the books' indices never exceed
\* their number, however the writers disturb one another.
Written(l) == At(l, {"done"}) \cap Writers
TopBounded ==
    /\ \A l \in Libs : top[l] <= Cardinality(Written(l))
    /\ \A w \in Writers : pc[w] \in {"storing", "counting"} =>
           idx[w] <= Cardinality(Written(it[w]))

Inv == IInv /\ TopBounded

\* Sets of threads are finite, and there is a book for each writer.
LEMMA Finite ==
    ASSUME NEW l, NEW labels
    PROVE  /\ IsFiniteSet(ReadersAt(l, labels))
           /\ Cardinality(ReadersAt(l, labels)) \in Nat
           /\ IsFiniteSet(Written(l))
           /\ Cardinality(Written(l)) \in 0 .. BOOKS
           /\ \A w \in Writers : w \notin Written(l) => Cardinality(Written(l)) < BOOKS
<1>1. IsFiniteSet(ReadersAt(l, labels)) /\ Cardinality(ReadersAt(l, labels)) \in Nat
  BY Roles, FS_Subset, FS_CardinalityType DEF ReadersAt
<1>2. Written(l) \subseteq Writers
  BY DEF Written
<1>3. /\ IsFiniteSet(Written(l)) /\ Cardinality(Written(l)) <= Cardinality(Writers)
      /\ Cardinality(Written(l)) \in Nat /\ Cardinality(Writers) \in Nat
      /\ (Cardinality(Written(l)) = Cardinality(Writers) => Written(l) = Writers)
  BY <1>2, Roles, FS_Subset, FS_CardinalityType
<1>4. BOOKS \in Nat /\ Cardinality(Writers) <= BOOKS
  BY <1>3, Sizes
<1> QED  BY <1>1, <1>3, <1>4

\* The program starts in a state that satisfies the inductive invariant.
LEMMA InitInv == Init => Inv
<1> SUFFICES ASSUME Init PROVE Inv
  OBVIOUS
<1>1. /\ Libs \subseteq Nat /\ 0 \in Libs
      /\ LIBS_NUM \in Nat \ {0} /\ LIB_MAX_READERS \in Nat \ {0} /\ BOOKS \in Nat
  BY Sizes DEF Libs
<1>2. TypeOK
  BY <1>1 DEF Init, TypeOK
<1>3. ASSUME NEW l, NEW labels, "trying" \notin labels
      PROVE  At(l, labels) = {}
  BY <1>3 DEF Init, At
<1>4. \A l \in Libs : /\ ReadersAt(l, {"reading", "leaving"}) = {}
                      /\ ReadersAt(l, {"entering", "leaving"}) = {}
                      /\ Written(l) = {}
  BY <1>3 DEF ReadersAt, Written
<1>5. Cardinality({}) = 0
  BY FS_EmptySet
<1>6. CountConsistent
  <2> SUFFICES ASSUME NEW l \in Libs
               PROVE  /\ readers_count[l] = Cardinality(ReadersAt(l, {"reading", "leaving"}))
                      /\ readers_count[l] <= LIB_MAX_READERS
    BY DEF CountConsistent
  <2>1. Cardinality(ReadersAt(l, {"reading", "leaving"})) = 0
    BY <1>4, <1>5
  <2>2. readers_count[l] = 0
    BY DEF Init
  <2> QED  BY <1>1, <2>1, <2>2
<1>7. ReadersMutexConsistent
  BY <1>4 DEF Init, ReadersMutexConsistent
<1>8. TopBounded
  <2>1. \A l \in Libs : top[l] = 0 /\ Cardinality(Written(l)) = 0
    BY <1>4, <1>5 DEF Init
  <2>2. \A w \in Writers : pc[w] = "trying"
    BY DEF Init, Threads
  <2> QED  BY <2>1, <2>2 DEF TopBounded
<1> QED  BY <1>2, <1>6, <1>7, <1>8 DEF Inv, IInv

\* What a step of a writer, or one of a thread that goes on to the next library,
\* leaves alone.
LEMMA ReadersUntouched ==
    ASSUME CountConsistent, ReadersMutexConsistent,
           UNCHANGED <<readers_count, r_mutex>>,
           \A l \in Libs : /\ ReadersAt(l, {"reading", "leaving"})'
                                  = ReadersAt(l, {"reading", "leaving"})
                           /\ ReadersAt(l, {"entering", "leaving"})'
                                  = ReadersAt(l, {"entering", "leaving"})
    PROVE  CountConsistent' /\ ReadersMutexConsistent'
<1>1. CountConsistent'
  BY DEF CountConsistent
<1>2. ReadersMutexConsistent'
  <2>1. ASSUME NEW l \in Libs
        PROVE  LET held == ReadersAt(l, {"entering", "leaving"})'
               IN  /\ r_mutex'[l] = 0 <=> held # {}
                   /\ \A r, s \in held : r = s
    BY DEF ReadersMutexConsistent
  <2> QED  BY <2>1 DEF ReadersMutexConsistent
<1> QED  BY <1>1, <1>2

\* A step that changes no index and neither who is done nor who is between
\* reading top and writing it.
LEMMA TopUntouched ==
    ASSUME TypeOK, TopBounded, UNCHANGED <<top, idx>>,
           \A l \in Libs : Written(l)' = Written(l),
           \A w \in Writers : pc'[w] \in {"storing", "counting"} =>
               pc[w] \in {"storing", "counting"} /\ it'[w] = it[w]
    PROVE  TopBounded'
<1>1. \A w \in Writers : it[w] \in Libs
  BY DEF TypeOK, Threads
<1> QED  BY <1>1 DEF TopBounded

\* Going on to the next library preserves the invariant.
LEMMA TryNextInv == ASSUME Inv, NEW t \in Threads, NEW mutex, TryNext(t, mutex) PROVE Inv'
<1>1. TypeOK /\ CountConsistent /\ ReadersMutexConsistent /\ TopBounded
  BY DEF Inv, IInv
<1>2. it' \in [Threads -> Libs]
  BY <1>1, NextLibrary, Sizes DEF TypeOK, TryNext, Libs
<1>3. TypeOK'
  BY <1>1, <1>2 DEF TypeOK, TryNext, sharedVars
<1>4. \A l \in Libs : /\ At(l, {"reading", "leaving"})' = At(l, {"reading", "leaving"})
                      /\ At(l, {"entering", "leaving"})' = At(l, {"entering", "leaving"})
                      /\ At(l, {"done"})' = At(l, {"done"})
  BY <1>1, MovedOn
<1>5. CountConsistent' /\ ReadersMutexConsistent'
  BY <1>1, <1>4, ReadersUntouched DEF TryNext, sharedVars, ReadersAt
<1>6. TopBounded'
  BY <1>1, <1>4, TopUntouched DEF TryNext, sharedVars, Written, TypeOK, Threads
<1> QED  BY <1>3, <1>5, <1>6 DEF Inv, IInv

\* A writer's steps do not touch what the readers count and lock.
LEMMA WriterMoves ==
    ASSUME Inv, NEW w \in Writers, NEW to, Goto(w, to), it' = it,
           UNCHANGED <<readers_count, r_mutex>>
    PROVE  CountConsistent' /\ ReadersMutexConsistent'
<1>1. TypeOK /\ CountConsistent /\ ReadersMutexConsistent /\ w \in Threads /\ w \notin Readers
  BY Roles DEF Inv, IInv, Threads
<1>2. \A l \in Libs : /\ ReadersAt(l, {"reading", "leaving"})' = ReadersAt(l, {"reading", "leaving"})
                      /\ ReadersAt(l, {"entering", "leaving"})' = ReadersAt(l, {"entering", "leaving"})
  <2> SUFFICES ASSUME NEW l \in Libs, NEW labels
               PROVE  ReadersAt(l, labels)' = ReadersAt(l, labels)
    OBVIOUS
  <2>1. At(l, labels)' = IF it[w] # l THEN At(l, labels)
                         ELSE IF to \in labels THEN At(l, labels) \cup {w}
                         ELSE At(l, labels) \ {w}
    BY <1>1, Moved
  <2> QED  BY <1>1, <2>1 DEF ReadersAt
<1> QED  BY <1>1, <1>2, ReadersUntouched

\* Every step of a writer preserves the invariant.
LEMMA WriterInv == ASSUME Inv, NEW w \in Writers, Writer(w) PROVE Inv'
<1>1. /\ TypeOK /\ CountConsistent /\ ReadersMutexConsistent /\ TopBounded
      /\ w \in Threads /\ it[w] \in Libs /\ idx[w] \in 0 .. BOOKS /\ BOOKS \in Nat
  BY Sizes DEF Inv, IInv, Threads, TypeOK
<1>2. ASSUME NEW to \in {"writing", "storing", "counting"}, Goto(w, to), it' = it,
             pc[w] # "done"
      PROVE  \A l \in Libs : Written(l)' = Written(l)
  <2> TAKE l \in Libs
  <2>1. ASSUME NEW labels, to \notin labels
        PROVE  At(l, labels)' = IF it[w] # l THEN At(l, labels) ELSE At(l, labels) \ {w}
    BY <1>1, <1>2, <2>1, Moved
  <2>2. At(l, {"done"})' = IF it[w] # l THEN At(l, {"done"}) ELSE At(l, {"done"}) \ {w}
    <3>1. to \notin {"done"}
      BY <1>2
    <3> QED  BY <2>1, <3>1
  <2> QED  BY <1>2, <2>2 DEF Written, At
<1>3. CASE TryNext(w, w_mutex)
  BY <1>1, <1>3, TryNextInv
<1>4. CASE WriterLocks(w)
  <2>1. TypeOK'
    BY <1>1, <1>4 DEF TypeOK, WriterLocks, TryLock, Set, Goto
  <2>2. CountConsistent' /\ ReadersMutexConsistent'
    BY <1>4, WriterMoves DEF WriterLocks
  <2>3. TopBounded'
    <3>1. \A l \in Libs : Written(l)' = Written(l)
      BY <1>2, <1>4 DEF WriterLocks
    <3> QED  BY <1>1, <1>4, <3>1, TopUntouched DEF WriterLocks, Goto, TypeOK, Threads
  <2> QED  BY <2>1, <2>2, <2>3 DEF Inv, IInv
<1>5. CASE LoadTop(w)
  <2>1. TypeOK'
    BY <1>1, <1>5 DEF TypeOK, LoadTop, sharedVars, Goto
  <2>2. CountConsistent' /\ ReadersMutexConsistent'
    BY <1>5, WriterMoves DEF LoadTop, sharedVars
  <2>3. TopBounded'
    <3>1. \A l \in Libs : Written(l)' = Written(l)
      BY <1>2, <1>5 DEF LoadTop
    <3>2. idx'[w] = top[it[w]] /\ \A v \in Writers \ {w} : idx'[v] = idx[v] /\ pc'[v] = pc[v]
      BY <1>1, <1>5 DEF LoadTop, TypeOK, Goto
    <3>3. UNCHANGED <<top, it>> /\ \A v \in Writers : it[v] \in Libs
      BY <1>1, <1>5 DEF LoadTop, sharedVars, TypeOK, Threads
    <3> QED  BY <1>1, <3>1, <3>2, <3>3 DEF TopBounded
  <2> QED  BY <2>1, <2>2, <2>3 DEF Inv, IInv
<1>6. CASE StoreBook(w)
  <2>1. TypeOK'
    BY <1>1, <1>6 DEF TypeOK, StoreBook, Goto
  <2>2. CountConsistent' /\ ReadersMutexConsistent'
    BY <1>6, WriterMoves DEF StoreBook
  <2>3. TopBounded'
    <3>1. \A l \in Libs : Written(l)' = Written(l)
      BY <1>2, <1>6 DEF StoreBook
    <3>2. idx'[w] = top[it[w]] /\ \A v \in Writers \ {w} : idx'[v] = idx[v] /\ pc'[v] = pc[v]
      BY <1>1, <1>6 DEF StoreBook, TypeOK, Goto
    <3>3. UNCHANGED <<top, it>> /\ \A v \in Writers : it[v] \in Libs
      BY <1>1, <1>6 DEF StoreBook, TypeOK, Threads
    <3> QED  BY <1>1, <3>1, <3>2, <3>3 DEF TopBounded
  <2> QED  BY <2>1, <2>2, <2>3 DEF Inv, IInv
<1>7. CASE StoreTop(w)
  <2> DEFINE here == it[w]
  <2>1. w \notin Written(here) /\ idx[w] <= Cardinality(Written(here))
    BY <1>1, <1>7 DEF StoreTop, Written, At, TopBounded
  <2>2. \A l \in Libs : Written(l)' = IF l = here THEN Written(l) \cup {w} ELSE Written(l)
    <3> TAKE l \in Libs
    <3>1. Goto(w, "done") /\ it' = it /\ "done" \in {"done"}
      BY <1>7 DEF StoreTop
    <3>2. At(l, {"done"})' = IF it[w] # l THEN At(l, {"done"}) ELSE At(l, {"done"}) \cup {w}
      BY <1>1, <3>1, Moved
    <3> QED  BY <3>2 DEF Written
  <2>3. Cardinality(Written(here) \cup {w}) = Cardinality(Written(here)) + 1
    BY <2>1, Finite, FS_AddElement
  <2>4. idx[w] + 1 \in 0 .. BOOKS
    BY <1>1, <2>1, Finite
  <2>5. TypeOK'
    BY <1>1, <1>7, <2>4 DEF TypeOK, StoreTop, Set, Goto
  <2>6. CountConsistent' /\ ReadersMutexConsistent'
    BY <1>7, WriterMoves DEF StoreTop
  <2>7. \A l \in Libs : Cardinality(Written(l)) \in Nat
    BY Finite
  <2>8. TopBounded'
    <3>1. /\ \A l \in Libs \ {here} : top'[l] = top[l]
          /\ top'[here] = idx[w] + 1
      BY <1>1, <1>7 DEF StoreTop, Set, TypeOK
    <3>2. /\ \A v \in Writers : it'[v] = it[v] /\ idx'[v] = idx[v] /\ it[v] \in Libs
                                /\ idx[v] \in 0 .. BOOKS
          /\ \A v \in Writers : pc'[v] \in {"storing", "counting"} =>
                 pc[v] \in {"storing", "counting"}
      BY <1>1, <1>7 DEF StoreTop, Goto, TypeOK, Threads
    <3>3. \A l \in Libs : top'[l] <= Cardinality(Written(l))'
      <4> TAKE l \in Libs
      <4>1. CASE l = here
        BY <1>1, <2>1, <2>2, <2>3, <2>7, <3>1, <4>1
      <4>2. CASE l # here
        BY <1>1, <2>2, <3>1, <4>2 DEF TopBounded
      <4> QED  BY <4>1, <4>2
    <3>4. \A v \in Writers : pc'[v] \in {"storing", "counting"} =>
              idx'[v] <= Cardinality(Written(it[v]))'
      <4> SUFFICES ASSUME NEW v \in Writers, pc'[v] \in {"storing", "counting"}
                   PROVE  idx'[v] <= Cardinality(Written(it[v]))'
        OBVIOUS
      <4>1. idx[v] <= Cardinality(Written(it[v])) /\ it[v] \in Libs
        BY <1>1, <3>2 DEF TopBounded
      <4>2. Written(it[v])' = IF it[v] = here THEN Written(it[v]) \cup {w} ELSE Written(it[v])
        BY <2>2, <3>2
      <4> QED  BY <2>3, <2>7, <3>2, <4>1, <4>2
    <3> QED  BY <3>3, <3>4 DEF TopBounded
  <2> QED  BY <2>5, <2>6, <2>8 DEF Inv, IInv
<1> QED  BY <1>3, <1>4, <1>5, <1>6, <1>7 DEF Writer

-----------------------------------------------------------------------------
\* A reader that locks r_mutex, or unlocks it, is the only one that has it.
LEMMA MutexStep ==
    ASSUME TypeOK, ReadersMutexConsistent, NEW r \in Readers, NEW to,
           Goto(r, to), it' = it,
           \/ /\ pc[r] \notin {"entering", "leaving"} /\ to \in {"entering", "leaving"}
              /\ r_mutex[it[r]] = 1 /\ Set(r_mutex, it[r], 0)
           \/ /\ pc[r] \in {"entering", "leaving"} /\ to \notin {"entering", "leaving"}
              /\ Set(r_mutex, it[r], 1)
    PROVE  ReadersMutexConsistent'
<1> DEFINE Held(l) == ReadersAt(l, {"entering", "leaving"})
<1>1. r \in Threads /\ it[r] \in Libs /\ r_mutex \in [Libs -> {0, 1}]
  BY DEF TypeOK, Threads
<1> SUFFICES ASSUME NEW l \in Libs
             PROVE  /\ r_mutex'[l] = 0 <=> Held(l)' # {}
                    /\ \A s, t \in Held(l)' : s = t
  BY DEF ReadersMutexConsistent
<1>2. /\ r_mutex[l] = 0 <=> Held(l) # {}
      /\ \A s, t \in Held(l) : s = t
  BY DEF ReadersMutexConsistent
<1>3. ASSUME NEW labels
      PROVE  At(l, labels)' = IF it[r] # l THEN At(l, labels)
                              ELSE IF to \in labels THEN At(l, labels) \cup {r}
                              ELSE At(l, labels) \ {r}
  BY <1>1, Moved
<1>4. Held(l)' = IF it[r] # l THEN Held(l)
                 ELSE IF to \in {"entering", "leaving"} THEN Held(l) \cup {r}
                 ELSE Held(l) \ {r}
  <2>1. At(l, {"entering", "leaving"})' =
            IF it[r] # l THEN At(l, {"entering", "leaving"})
            ELSE IF to \in {"entering", "leaving"} THEN At(l, {"entering", "leaving"}) \cup {r}
            ELSE At(l, {"entering", "leaving"}) \ {r}
    BY <1>3
  <2> QED  BY <2>1 DEF ReadersAt
<1>5. CASE it[r] # l
  BY <1>1, <1>2, <1>4, <1>5 DEF Set
<1>6. CASE it[r] = l /\ to \in {"entering", "leaving"}
  <2>1. Held(l)' = {r} /\ r_mutex'[l] = 0
    BY <1>1, <1>2, <1>4, <1>6 DEF Set
  <2> QED  BY <2>1
<1>7. CASE it[r] = l /\ to \notin {"entering", "leaving"}
  <2>1. r \in Held(l)
    BY <1>1, <1>7 DEF ReadersAt, At
  <2>2. Held(l)' = {} /\ r_mutex'[l] = 1
    BY <1>1, <1>2, <1>4, <1>7, <2>1 DEF Set
  <2> QED  BY <2>2
<1> QED  BY <1>5, <1>6, <1>7

\* A reader that is counted in or out, or neither, leaves the count right.
LEMMA CountStep ==
    ASSUME TypeOK, CountConsistent, NEW r \in Readers, NEW to,
           Goto(r, to), it' = it,
           \/ /\ pc[r] \notin {"reading", "leaving"} /\ to \in {"reading", "leaving"}
              /\ Room(it[r])
              /\ Set(readers_count, it[r], readers_count[it[r]] + 1)
           \/ /\ pc[r] \in {"reading", "leaving"} /\ to \notin {"reading", "leaving"}
              /\ Set(readers_count, it[r], readers_count[it[r]] - 1)
           \/ /\ pc[r] \in {"reading", "leaving"} <=> to \in {"reading", "leaving"}
              /\ readers_count' = readers_count
    PROVE  CountConsistent' /\ readers_count' \in [Libs -> 0 .. LIB_MAX_READERS]
<1> DEFINE In(l) == ReadersAt(l, {"reading", "leaving"})
<1>1. /\ r \in Threads /\ it[r] \in Libs /\ LIB_MAX_READERS \in Nat
      /\ readers_count \in [Libs -> 0 .. LIB_MAX_READERS]
  BY Sizes DEF TypeOK, Threads
<1>2. /\ \A l \in Libs : /\ readers_count[l] = Cardinality(In(l))
                         /\ IsFiniteSet(In(l)) /\ Cardinality(In(l)) \in Nat
      /\ \A l \in Libs : l = it[r] => (r \in In(l) <=> pc[r] \in {"reading", "leaving"})
  <2>1. \A l \in Libs : readers_count[l] = Cardinality(In(l))
    BY DEF CountConsistent
  <2>2. \A l \in Libs : IsFiniteSet(In(l)) /\ Cardinality(In(l)) \in Nat
    BY Finite
  <2>3. r \in In(it[r]) <=> pc[r] \in {"reading", "leaving"}
    BY <1>1 DEF ReadersAt, At
  <2> QED  BY <2>1, <2>2, <2>3
<1>3. ASSUME NEW l, NEW labels
      PROVE  At(l, labels)' = IF it[r] # l THEN At(l, labels)
                              ELSE IF to \in labels THEN At(l, labels) \cup {r}
                              ELSE At(l, labels) \ {r}
  BY <1>1, Moved
<1>4. \A l \in Libs : In(l)' = IF it[r] # l THEN In(l)
                               ELSE IF to \in {"reading", "leaving"} THEN In(l) \cup {r}
                               ELSE In(l) \ {r}
  <2> TAKE l \in Libs
  <2>1. At(l, {"reading", "leaving"})' =
            IF it[r] # l THEN At(l, {"reading", "leaving"})
            ELSE IF to \in {"reading", "leaving"} THEN At(l, {"reading", "leaving"}) \cup {r}
            ELSE At(l, {"reading", "leaving"}) \ {r}
    BY <1>3
  <2> QED  BY <2>1 DEF ReadersAt
<1>5. ASSUME NEW l \in Libs, l = it[r]
      PROVE  readers_count'[l] = Cardinality(In(l)') /\ readers_count'[l] \in 0 .. LIB_MAX_READERS
  <2>1. CASE pc[r] \notin {"reading", "leaving"} /\ to \in {"reading", "leaving"}
    <3>1. In(l)' = In(l) \cup {r} /\ r \notin In(l)
      BY <1>2, <1>4, <1>5, <2>1
    <3>2. Cardinality(In(l) \cup {r}) = Cardinality(In(l)) + 1
      BY <1>2, <3>1, FS_AddElement
    <3>3. readers_count'[l] = readers_count[l] + 1 /\ readers_count[l] < LIB_MAX_READERS
      BY <1>1, <1>5, <2>1 DEF Set, Room
    <3>4. readers_count[l] \in 0 .. LIB_MAX_READERS /\ readers_count[l] = Cardinality(In(l))
      BY <1>1, <1>2
    <3>5. Cardinality(In(l)') = Cardinality(In(l)) + 1
      BY <3>1, <3>2
    <3>6. LIB_MAX_READERS \in Nat
      BY <1>1
    <3> HIDE DEF In
    <3> QED  BY <3>3, <3>4, <3>5, <3>6
  <2>2. CASE pc[r] \in {"reading", "leaving"} /\ to \notin {"reading", "leaving"}
    <3>1. In(l)' = In(l) \ {r} /\ r \in In(l)
      BY <1>2, <1>4, <1>5, <2>2
    <3>2. /\ Cardinality(In(l) \ {r}) = Cardinality(In(l)) - 1
          /\ Cardinality(In(l) \ {r}) \in Nat
      BY <1>2, <3>1, FS_RemoveElement, FS_CardinalityType
    <3>3. readers_count'[l] = readers_count[l] - 1
      BY <1>1, <1>5, <2>2 DEF Set
    <3>4. readers_count[l] \in 0 .. LIB_MAX_READERS /\ readers_count[l] = Cardinality(In(l))
      BY <1>1, <1>2
    <3> QED  BY <1>1, <3>1, <3>2, <3>3, <3>4
  <2>3. CASE pc[r] \in {"reading", "leaving"} <=> to \in {"reading", "leaving"}
    <3>1. In(l)' = In(l) /\ readers_count' = readers_count
      BY <1>2, <1>4, <1>5, <2>3
    <3> QED  BY <1>1, <1>2, <3>1
  <2> QED  BY <2>1, <2>2, <2>3
<1>6. \A l \in Libs \ {it[r]} : In(l)' = In(l) /\ readers_count'[l] = readers_count[l]
  BY <1>1, <1>4 DEF Set
<1>7. readers_count' \in [Libs -> 0 .. LIB_MAX_READERS]
  BY <1>1 , <1>5 DEF Set
<1> QED
  <2>1. ASSUME NEW l \in Libs
        PROVE  readers_count'[l] = Cardinality(In(l)') /\ readers_count'[l] <= LIB_MAX_READERS
    BY <1>1, <1>2, <1>5, <1>6
  <2> QED  BY <1>7, <2>1 DEF CountConsistent

\* Every step of a reader preserves the invariant.
LEMMA ReaderInv == ASSUME Inv, NEW r \in Readers, Reader(r) PROVE Inv'
<1>1. /\ TypeOK /\ CountConsistent /\ ReadersMutexConsistent /\ TopBounded
      /\ r \in Threads /\ r \notin Writers /\ it[r] \in Libs
  BY Roles DEF Inv, IInv, Threads, TypeOK
<1>2. ASSUME NEW to, Goto(r, to), it' = it, UNCHANGED <<top, idx>>
      PROVE  TopBounded'
  <2>1. ASSUME NEW l, NEW labels
        PROVE  At(l, labels)' \cap Writers = At(l, labels) \cap Writers
    <3>1. At(l, labels)' = IF it[r] # l THEN At(l, labels)
                           ELSE IF to \in labels THEN At(l, labels) \cup {r}
                           ELSE At(l, labels) \ {r}
      BY <1>1, <1>2, Moved
    <3> QED  BY <1>1, <3>1
  <2>2. \A l \in Libs : Written(l)' = Written(l)
    BY <2>1 DEF Written
  <2>3. \A w \in Writers : pc'[w] = pc[w]
    BY <1>1, <1>2 DEF Goto, TypeOK, Threads
  <2> QED  BY <1>1, <1>2, <2>2, <2>3, TopUntouched
<1>3. ASSUME CountConsistent', readers_count' \in [Libs -> 0 .. LIB_MAX_READERS],
             ReadersMutexConsistent', TopBounded',
             NEW to \in {"trying", "entering", "reading", "leaving", "done"}, Goto(r, to),
             r_mutex' \in [Libs -> {0, 1}], w_mutex' \in [Libs -> {0, 1}],
             UNCHANGED <<books, top, it, idx>>
      PROVE  Inv'
  BY <1>1, <1>3 DEF TypeOK, Goto, Inv, IInv
<1>4. \A v \in {0, 1} : [r_mutex EXCEPT ![it[r]] = v] \in [Libs -> {0, 1}]
                        /\ [w_mutex EXCEPT ![it[r]] = v] \in [Libs -> {0, 1}]
  BY <1>1 DEF TypeOK
<1>5. w_mutex \in [Libs -> {0, 1}] /\ r_mutex \in [Libs -> {0, 1}]
  BY <1>1 DEF TypeOK
<1>6. CASE TryNext(r, r_mutex)
  BY <1>1, <1>6, TryNextInv
<1>7. CASE ReaderLocks(r)
  <2>1. CountConsistent' /\ readers_count' \in [Libs -> 0 .. LIB_MAX_READERS]
    BY <1>1, <1>7, CountStep DEF ReaderLocks
  <2>2. ReadersMutexConsistent'
    BY <1>1, <1>7, MutexStep DEF ReaderLocks, TryLock
  <2> QED  BY <1>2, <1>3, <1>4, <1>5, <1>7, <2>1, <2>2 DEF ReaderLocks, TryLock, Set
<1>8. CASE TurnedAway(r)
  <2>1. CountConsistent' /\ readers_count' \in [Libs -> 0 .. LIB_MAX_READERS]
    BY <1>1, <1>8, CountStep DEF TurnedAway
  <2>2. ReadersMutexConsistent'
    BY <1>1, <1>8, MutexStep DEF TurnedAway
  <2> QED  BY <1>2, <1>3, <1>4, <1>5, <1>8, <2>1, <2>2 DEF TurnedAway, Set
<1>9. CASE ReaderEnters(r)
  <2>1. CountConsistent' /\ readers_count' \in [Libs -> 0 .. LIB_MAX_READERS]
    BY <1>1, <1>9, CountStep DEF ReaderEnters
  <2>2. ReadersMutexConsistent'
    BY <1>1, <1>9, MutexStep DEF ReaderEnters
  <2> QED  BY <1>2, <1>3, <1>4, <1>5, <1>9, <2>1, <2>2 DEF ReaderEnters, Set
<1>10. CASE ReaderRelocks(r)
  <2>1. CountConsistent' /\ readers_count' \in [Libs -> 0 .. LIB_MAX_READERS]
    BY <1>1, <1>10, CountStep DEF ReaderRelocks
  <2>2. ReadersMutexConsistent'
    BY <1>1, <1>10, MutexStep DEF ReaderRelocks, TryLock
  <2> QED  BY <1>2, <1>3, <1>4, <1>5, <1>10, <2>1, <2>2 DEF ReaderRelocks, TryLock, Set
<1>11. CASE ReaderLeaves(r)
  <2>1. CountConsistent' /\ readers_count' \in [Libs -> 0 .. LIB_MAX_READERS]
    BY <1>1, <1>11, CountStep DEF ReaderLeaves
  <2>2. ReadersMutexConsistent'
    BY <1>1, <1>11, MutexStep DEF ReaderLeaves
  <2>3. w_mutex' \in [Libs -> {0, 1}]
    BY <1>1, <1>5, <1>11 DEF ReaderLeaves, Set
  <2> QED  BY <1>2, <1>3, <1>4, <1>11, <2>1, <2>2, <2>3 DEF ReaderLeaves, Set
<1> QED  BY <1>6, <1>7, <1>8, <1>9, <1>10, <1>11 DEF Reader

\* Any number of threads and libraries: the count of each library is right and
\* within the limit, r_mutex has one holder, and no index leaves the books.
THEOREM Invariance == Spec => []IInv
<1>1. Inv /\ [Next]_vars => Inv'
  <2> SUFFICES ASSUME Inv, [Next]_vars PROVE Inv'
    OBVIOUS
  <2>1. CASE UNCHANGED vars
    <3>1. UNCHANGED <<books, top, r_mutex, w_mutex, readers_count, it, pc, idx>>
      BY <2>1 DEF vars, sharedVars
    <3>2. \A l, labels : At(l, labels)' = At(l, labels)
      BY <3>1 DEF At
    <3> QED  BY <3>1, <3>2 DEF Inv, IInv, TypeOK, CountConsistent, ReadersMutexConsistent,
                               TopBounded, Written, ReadersAt
  <2> QED  BY <2>1, WriterInv, ReaderInv DEF Next, Exited
<1>2. Inv => IInv
  BY DEF Inv
<1> QED  BY <1>1, <1>2, InitInv, PTL DEF Spec

-----------------------------------------------------------------------------
\* The writers' lock, as long as it is sound.
WritersLock == \A l \in Libs : ~Visited(l) /\ Inside(l) # {} => w_mutex[l] = 0

\* A library that a reader has left stays one.
LEMMA OnceVisited ==
    ASSUME TypeOK, [Next]_vars, NEW l \in Libs, Visited(l)
    PROVE  Visited(l)'
<1>1. PICK r \in Readers : it[r] = l /\ pc[r] = "done"
  BY DEF Visited, ReadersAt, At
<1>2. it'[r] = l /\ pc'[r] = "done"
  <2>1. ASSUME NEW w \in Writers, Writer(w) PROVE it'[r] = l /\ pc'[r] = "done"
    BY <1>1, <2>1, Roles DEF TypeOK, Threads, Writer, TryNext, WriterLocks, LoadTop, StoreBook,
                      StoreTop, Goto
  <2>2. ASSUME NEW s \in Readers, Reader(s) PROVE it'[r] = l /\ pc'[r] = "done"
    BY <1>1, <2>2 DEF TypeOK, Threads, Reader, TryNext, ReaderLocks, TurnedAway, ReaderEnters,
                      ReaderRelocks, ReaderLeaves, Goto
  <2>3. CASE UNCHANGED vars
    BY <1>1, <2>3 DEF vars
  <2> QED  BY <2>1, <2>2, <2>3 DEF Next, Exited
<1> QED  BY <1>1, <1>2 DEF Visited, ReadersAt, At, Threads

\* Any number of threads, libraries and any limit: while no reader has left a
\* library, a writer in it is alone among writers.
THEOREM WritersAlone == Spec => []WritersExcluded
<1>1. Init => WritersLock /\ WritersExcluded
  <2> SUFFICES ASSUME Init PROVE WritersLock /\ WritersExcluded
    OBVIOUS
  <2>1. \A l \in Libs : Inside(l) = {}
    BY DEF Init, Inside, At
  <2> QED  BY <2>1 DEF WritersLock, WritersExcluded
<1>2. IInv /\ WritersLock /\ WritersExcluded /\ [Next]_vars
          => WritersLock' /\ WritersExcluded'
  <2> SUFFICES ASSUME IInv, WritersLock, WritersExcluded, [Next]_vars,
                      NEW l \in Libs, ~Visited(l)'
               PROVE  /\ Inside(l)' # {} => w_mutex'[l] = 0
                      /\ \A v, w \in Inside(l)' : v = w
    BY DEF WritersLock, WritersExcluded
  <2>1. TypeOK /\ ~Visited(l) /\ w_mutex \in [Libs -> {0, 1}]
    BY OnceVisited DEF IInv, TypeOK
  <2>2. /\ Inside(l) # {} => w_mutex[l] = 0
        /\ \A v, w \in Inside(l) : v = w
    BY <2>1 DEF WritersLock, WritersExcluded
  <2> DEFINE Labels == {"writing", "storing", "counting"}
  <2>3. ASSUME NEW t \in Threads, NEW to, Goto(t, to), it' = it
        PROVE  Inside(l)' = IF it[t] # l THEN Inside(l)
                            ELSE IF to \in Labels THEN Inside(l) \cup {t}
                            ELSE Inside(l) \ {t}
    BY <2>1, <2>3, Moved DEF Inside
  <2>4. ASSUME NEW t \in Threads, NEW mutex, TryNext(t, mutex), UNCHANGED w_mutex
        PROVE  Inside(l)' = Inside(l) /\ w_mutex' = w_mutex
    BY <2>1, <2>4, MovedOn DEF Inside
  <2>5. ASSUME NEW w \in Writers, Writer(w)
        PROVE  (Inside(l)' # {} => w_mutex'[l] = 0) /\ \A u, v \in Inside(l)' : u = v
    <3>1. w \in Threads /\ it[w] \in Libs
      BY <2>1 DEF TypeOK, Threads
    <3>2. CASE TryNext(w, w_mutex)
      BY <2>2, <2>4, <3>1, <3>2 DEF TryNext, sharedVars
    <3>3. CASE WriterLocks(w)
      <4>1. Inside(l)' = IF it[w] # l THEN Inside(l) ELSE Inside(l) \cup {w}
        BY <2>3, <3>1, <3>3 DEF WriterLocks
      <4>2. w_mutex[it[w]] = 1 /\ w_mutex' = [w_mutex EXCEPT ![it[w]] = 0]
        BY <3>3 DEF WriterLocks, TryLock, Set
      <4> QED  BY <2>1, <2>2, <3>1, <4>1, <4>2
    <3>4. CASE LoadTop(w) \/ StoreBook(w)
      <4>1. w_mutex' = w_mutex /\ (it[w] = l => w \in Inside(l))
        BY <3>1, <3>4 DEF LoadTop, StoreBook, sharedVars, Inside, At
      <4>2. Inside(l)' = IF it[w] # l THEN Inside(l) ELSE Inside(l) \cup {w}
        BY <2>3, <3>1, <3>4 DEF LoadTop, StoreBook
      <4> QED  BY <2>2, <4>1, <4>2
    <3>5. CASE StoreTop(w)
      <4>1. w_mutex' = [w_mutex EXCEPT ![it[w]] = 1] /\ (it[w] = l => w \in Inside(l))
        BY <3>1, <3>5 DEF StoreTop, Set, Inside, At
      <4>2. Inside(l)' = IF it[w] # l THEN Inside(l) ELSE Inside(l) \ {w}
        BY <2>3, <3>1, <3>5 DEF StoreTop
      <4> QED  BY <2>1, <2>2, <3>1, <4>1, <4>2
    <3> QED  BY <2>5, <3>2, <3>3, <3>4, <3>5 DEF Writer
  <2>6. ASSUME NEW r \in Readers, Reader(r)
        PROVE  (Inside(l)' # {} => w_mutex'[l] = 0) /\ \A u, v \in Inside(l)' : u = v
    <3>1. r \in Threads /\ it[r] \in Libs
      BY <2>1 DEF TypeOK, Threads
    <3>2. CASE TryNext(r, r_mutex)
      BY <2>2, <2>4, <3>1, <3>2 DEF TryNext, sharedVars
    <3>3. CASE ReaderLocks(r) \/ TurnedAway(r) \/ ReaderEnters(r) \/ ReaderRelocks(r)
      <4>1. w_mutex' = w_mutex
        BY <3>3 DEF ReaderLocks, TurnedAway, ReaderEnters, ReaderRelocks
      <4>2. Inside(l)' \subseteq Inside(l)
        BY <2>3, <3>1, <3>3 DEF ReaderLocks, TurnedAway, ReaderEnters, ReaderRelocks
      <4> QED  BY <2>2, <4>1, <4>2
    <3>4. CASE ReaderLeaves(r)
      <4>1. it'[r] = it[r] /\ pc'[r] = "done"
        BY <2>1, <3>1, <3>4 DEF ReaderLeaves, Goto, TypeOK
      <4>2. it[r] # l
        BY <3>1, <4>1 DEF Visited, ReadersAt, At
      <4>3. w_mutex'[l] = w_mutex[l] /\ Inside(l)' = Inside(l)
        BY <2>1, <2>3, <3>1, <3>4, <4>2 DEF ReaderLeaves, Set
      <4> QED  BY <2>2, <4>3
    <3> QED  BY <2>6, <3>2, <3>3, <3>4 DEF Reader
  <2>7. CASE UNCHANGED vars
    <3>1. Inside(l)' = Inside(l) /\ w_mutex' = w_mutex
      BY <2>7 DEF vars, sharedVars, Inside, At
    <3> QED  BY <2>2, <3>1
  <2> QED  BY <2>5, <2>6, <2>7 DEF Next, Exited
<1> QED  BY <1>1, <1>2, Invariance, PTL DEF Spec

-----------------------------------------------------------------------------
\* What a writer has read of top is still right, and so is the place of its letter,
\* in a library that no reader has left.
ShelfKept ==
    \A l \in Libs : ~Visited(l) =>
        /\ top[l] = Cardinality(Written(l))
        /\ {books[l][k] : k \in 0 .. top[l] - 1} = Written(l)
        /\ \A k \in top[l] + 1 .. BOOKS - 1 : books[l][k] = NUL
        /\ \A w \in Writers : it[w] = l =>
              /\ pc[w] \in {"storing", "counting"} => idx[w] = top[l]
              /\ pc[w] = "counting" => books[l][top[l]] = w

\* A step that leaves the books, the places and the writers where they are.
LEMMA ShelfUntouched ==
    ASSUME TypeOK, ShelfKept, [Next]_vars, UNCHANGED <<books, top, idx>>,
           \A l \in Libs : Written(l)' = Written(l),
           \A w \in Writers : pc'[w] \in {"storing", "counting"} =>
               pc[w] = pc'[w] /\ it'[w] = it[w]
    PROVE  ShelfKept'
<1> SUFFICES ASSUME NEW l \in Libs, ~Visited(l)'
             PROVE  /\ top'[l] = Cardinality(Written(l)')
                    /\ {books'[l][k] : k \in 0 .. top'[l] - 1} = Written(l)'
                    /\ \A k \in top'[l] + 1 .. BOOKS - 1 : books'[l][k] = NUL
                    /\ \A w \in Writers : it'[w] = l =>
                          /\ pc'[w] \in {"storing", "counting"} => idx'[w] = top'[l]
                          /\ pc'[w] = "counting" => books'[l][top'[l]] = w
  BY DEF ShelfKept
<1>1. ~Visited(l)
  BY OnceVisited
<1>2. /\ top[l] = Cardinality(Written(l))
      /\ {books[l][k] : k \in 0 .. top[l] - 1} = Written(l)
      /\ \A k \in top[l] + 1 .. BOOKS - 1 : books[l][k] = NUL
      /\ \A w \in Writers : it[w] = l =>
            /\ pc[w] \in {"storing", "counting"} => idx[w] = top[l]
            /\ pc[w] = "counting" => books[l][top[l]] = w
  BY <1>1 DEF ShelfKept
<1> QED
  BY <1>2

\* A writer between its look at top and its unlock keeps every shelf right.
LEMMA ShelfStep ==
    ASSUME TypeOK, WritersExcluded, ShelfKept, [Next]_vars,
           NEW w \in Writers, LoadTop(w) \/ StoreBook(w) \/ StoreTop(w)
    PROVE  ShelfKept'
<1> SUFFICES ASSUME NEW l \in Libs, ~Visited(l)'
             PROVE  /\ top'[l] = Cardinality(Written(l)')
                    /\ {books'[l][k] : k \in 0 .. top'[l] - 1} = Written(l)'
                    /\ \A k \in top'[l] + 1 .. BOOKS - 1 : books'[l][k] = NUL
                    /\ \A v \in Writers : it'[v] = l =>
                          /\ pc'[v] \in {"storing", "counting"} => idx'[v] = top'[l]
                          /\ pc'[v] = "counting" => books'[l][top'[l]] = v
  BY DEF ShelfKept
<1>1. ~Visited(l)
  BY OnceVisited
<1>2. /\ top[l] = Cardinality(Written(l))
      /\ {books[l][k] : k \in 0 .. top[l] - 1} = Written(l)
      /\ \A k \in top[l] + 1 .. BOOKS - 1 : books[l][k] = NUL
      /\ \A v \in Writers : it[v] = l =>
            /\ pc[v] \in {"storing", "counting"} => idx[v] = top[l]
            /\ pc[v] = "counting" => books[l][top[l]] = v
  BY <1>1 DEF ShelfKept
<1>3. /\ w \in Threads /\ it' = it /\ it[w] \in Libs
      /\ pc[w] \in {"writing", "storing", "counting"}
      /\ \A v \in Writers \ {w} : pc'[v] = pc[v] /\ idx'[v] = idx[v]
  BY DEF TypeOK, Threads, LoadTop, StoreBook, StoreTop, Goto
<1>4. /\ IsFiniteSet(Written(l)) /\ Cardinality(Written(l)) \in 0 .. BOOKS
      /\ w \notin Written(l) => Cardinality(Written(l)) < BOOKS
      /\ BOOKS \in Nat
  BY Finite, Sizes
<1>5. w \notin Written(l)
  BY <1>3 DEF Written, At
<1>6. top[l] \in Nat /\ top[l] < BOOKS
  BY <1>2, <1>4, <1>5
<1>7. \A v \in Writers \ {w} :
          it[w] = l /\ it[v] = l => pc[v] \notin {"writing", "storing", "counting"}
  BY <1>1, <1>3 DEF WritersExcluded, Inside, At, Threads
<1>8. CASE it[w] # l
  <2>1. books'[l] = books[l] /\ top'[l] = top[l]
    BY <1>3, <1>8 DEF TypeOK, LoadTop, StoreBook, StoreTop, Set, sharedVars
  <2>2. Written(l)' = Written(l)
    BY <1>3, <1>8, Moved DEF Written, LoadTop, StoreBook, StoreTop
  <2> QED
    BY <1>2, <1>3, <1>8, <2>1, <2>2
<1>9. CASE it[w] = l /\ LoadTop(w)
  <2>1. books' = books /\ top' = top /\ idx'[w] = top[l] /\ pc'[w] = "storing"
    BY <1>3, <1>9 DEF LoadTop, sharedVars, Goto, TypeOK
  <2>2. Written(l)' = Written(l)
    BY <1>3, <1>5, <1>9, Moved DEF Written, LoadTop
  <2> QED
    BY <1>2, <1>3, <2>1, <2>2
<1>10. CASE it[w] = l /\ StoreBook(w)
  <2>1. /\ top' = top /\ idx'[w] = top[l] /\ pc'[w] = "counting"
        /\ pc[w] = "storing" /\ books' = [books EXCEPT ![it[w]][idx[w]] = w]
    BY <1>3, <1>10 DEF StoreBook, Goto, TypeOK
  <2>2. idx[w] = top[l]
    BY <1>2, <1>10, <2>1
  <2>3. books'[l] = [books[l] EXCEPT ![top[l]] = w]
    BY <1>3, <1>10, <2>1, <2>2 DEF TypeOK
  <2>4. books[l] \in [0 .. BOOKS - 1 -> Writers \cup {NUL}]
    BY DEF TypeOK
  <2>5. /\ books'[l][top[l]] = w
        /\ \A k \in 0 .. BOOKS - 1 : k # top[l] => books'[l][k] = books[l][k]
    BY <1>4, <1>6, <2>3, <2>4
  <2>6. Written(l)' = Written(l)
    BY <1>3, <1>5, <1>10, Moved DEF Written, StoreBook
  <2>7. {books'[l][k] : k \in 0 .. top'[l] - 1} = Written(l)'
    <3>1. \A k \in 0 .. top[l] - 1 : books'[l][k] = books[l][k]
      BY <1>4, <1>6, <2>5
    <3> QED
      BY <1>2, <2>1, <2>6, <3>1
  <2>8. \A k \in top'[l] + 1 .. BOOKS - 1 : books'[l][k] = NUL
    BY <1>2, <1>4, <1>6, <2>1, <2>5
  <2>9. ASSUME NEW v \in Writers, it'[v] = l
        PROVE  /\ pc'[v] \in {"storing", "counting"} => idx'[v] = top'[l]
               /\ pc'[v] = "counting" => books'[l][top'[l]] = v
    <3>1. CASE v = w
      BY <1>3, <1>7, <1>10, <2>1, <2>5, <3>1
    <3>2. CASE v # w
      BY <1>3, <1>7, <1>10, <2>1, <2>5, <2>9, <3>2
    <3> QED
      BY <3>1, <3>2
  <2> QED
    BY <1>2, <2>1, <2>6, <2>7, <2>8, <2>9
<1>11. CASE it[w] = l /\ StoreTop(w)
  <2>1. /\ books' = books /\ top' = [top EXCEPT ![it[w]] = idx[w] + 1]
        /\ pc[w] = "counting" /\ pc'[w] = "done"
    BY <1>3, <1>11 DEF StoreTop, Goto, Set, TypeOK
  <2>2. idx[w] = top[l] /\ books[l][top[l]] = w
    BY <1>2, <1>11, <2>1
  <2>3. top'[l] = top[l] + 1
    BY <1>11, <2>1, <2>2 DEF TypeOK
  <2>4. Written(l)' = Written(l) \cup {w}
    <3>1. At(l, {"done"})' = At(l, {"done"}) \cup {w}
      BY <1>3, <1>11, Moved DEF StoreTop
    <3> QED
      BY <3>1 DEF Written
  <2>5. Cardinality(Written(l)') = top[l] + 1
    BY ZenonT(60), <1>2, <1>4, <1>5, <2>4, FS_AddElement
  <2>6. {books'[l][k] : k \in 0 .. top'[l] - 1} = Written(l)'
    <3>1. 0 .. top'[l] - 1 = (0 .. top[l] - 1) \cup {top[l]}
      BY <1>6, <2>3
    <3> QED
      BY <1>2, <2>1, <2>2, <2>4, <3>1
  <2>7. \A k \in top'[l] + 1 .. BOOKS - 1 : books'[l][k] = NUL
    BY <1>2, <1>4, <1>6, <2>1, <2>3
  <2> QED
    BY <1>3, <1>7, <1>11, <2>1, <2>3, <2>5, <2>6, <2>7
<1> QED
  BY <1>8, <1>9, <1>10, <1>11

\* Any number of threads and libraries, any limit: in a library that no reader has left
\* no letter is lost, none overwrites another, and none is out of its place.
THEOREM LettersKept == Spec => []BooksKept
<1>1. Init => ShelfKept
  <2> SUFFICES ASSUME Init, NEW l \in Libs
               PROVE  /\ top[l] = Cardinality(Written(l))
                      /\ {books[l][k] : k \in 0 .. top[l] - 1} = Written(l)
                      /\ \A k \in top[l] + 1 .. BOOKS - 1 : books[l][k] = NUL
                      /\ \A w \in Writers : pc[w] = "trying"
    BY DEF ShelfKept
  <2>1. Written(l) = {} /\ \A w \in Writers : pc[w] = "trying"
    BY DEF Init, Written, At, Threads
  <2>2. Cardinality(Written(l)) = 0
    BY <2>1, FS_EmptySet
  <2>3. top[l] = 0 /\ BOOKS \in Nat
    BY Sizes DEF Init
  <2>4. \A k \in 0 .. BOOKS - 1 : books[l][k] = NUL
    BY DEF Init
  <2>5. {books[l][k] : k \in 0 .. top[l] - 1} = {}
    BY <2>3
  <2> QED
    BY <2>1, <2>2, <2>3, <2>4, <2>5
<1>2. IInv /\ WritersExcluded /\ ShelfKept /\ [Next]_vars => ShelfKept'
  <2> SUFFICES ASSUME TypeOK, WritersExcluded, ShelfKept, [Next]_vars PROVE ShelfKept'
    BY DEF IInv
  <2>1. ASSUME NEW t \in Threads, NEW mutex, TryNext(t, mutex)
        PROVE  ShelfKept'
    <3>1. UNCHANGED <<books, top, idx, pc>> /\ pc[t] = "trying"
      BY <2>1 DEF TryNext, sharedVars
    <3>2. \A l \in Libs : Written(l)' = Written(l)
      BY <2>1, MovedOn DEF Written
    <3>3. \A v \in Threads : pc[v] # "trying" => it'[v] = it[v]
      BY <2>1 DEF TryNext, TypeOK
    <3> QED
      BY <3>1, <3>2, <3>3, ShelfUntouched DEF Threads
  <2>2. ASSUME NEW w \in Writers, Writer(w)
        PROVE  ShelfKept'
    <3>1. CASE WriterLocks(w)
      <4>1. UNCHANGED <<books, top, idx, it>> /\ pc[w] = "trying"
            /\ Goto(w, "writing") /\ w \in Threads
        BY <3>1 DEF WriterLocks, Threads
      <4>2. \A l \in Libs : Written(l)' = Written(l)
        <5> TAKE l \in Libs
        <5>1. w \notin Written(l)
          BY <4>1 DEF Written, At
        <5> QED
          BY <4>1, <5>1, Moved DEF Written
      <4>3. \A v \in Writers : pc'[v] \in {"storing", "counting"} => pc[v] = pc'[v]
        BY <4>1 DEF Goto, TypeOK, Threads
      <4> QED
        BY <4>1, <4>2, <4>3, ShelfUntouched
    <3> QED
      BY <2>1, <2>2, <3>1, ShelfStep DEF Writer, Threads
  <2>3. ASSUME NEW r \in Readers, Reader(r)
        PROVE  ShelfKept'
    <3>1. CASE TryNext(r, r_mutex)
      BY <2>1, <3>1 DEF Threads
    <3>2. CASE \/ ReaderLocks(r) \/ TurnedAway(r) \/ ReaderEnters(r)
               \/ ReaderRelocks(r) \/ ReaderLeaves(r)
      <4>1. /\ UNCHANGED <<books, top, idx, it>> /\ \E to : Goto(r, to)
            /\ r \in Threads /\ r \notin Writers
        BY <3>2, Roles DEF ReaderLocks, TurnedAway, ReaderEnters, ReaderRelocks,
                           ReaderLeaves, Threads
      <4>2. \A v \in Writers : pc'[v] = pc[v]
        BY <4>1 DEF Goto, TypeOK, Threads
      <4>3. \A l \in Libs : Written(l)' = Written(l)
        BY <4>1, <4>2 DEF Written, At, Threads
      <4> QED
        BY <4>1, <4>2, <4>3, ShelfUntouched
    <3> QED
      BY <2>3, <3>1, <3>2 DEF Reader
  <2>4. CASE UNCHANGED vars
    <3>1. UNCHANGED <<books, top, idx, it, pc>>
      BY <2>4 DEF vars, sharedVars
    <3>2. \A l \in Libs : Written(l)' = Written(l)
      BY <3>1 DEF Written, At
    <3> QED
      BY <3>1, <3>2, ShelfUntouched
  <2> QED
    BY <2>2, <2>3, <2>4 DEF Next, Exited
<1>3. ShelfKept => BooksKept
  BY DEF ShelfKept, BooksKept, Written
<1> QED
  BY <1>1, <1>2, <1>3, Invariance, WritersAlone, PTL DEF Spec
=============================================================================
