------------------------ MODULE ReadersWritersProofs ------------------------
(***************************************************************************)
(* cw01/zad1 for any number of readers and writers: the invariants of      *)
(* ReadersWriters, exclusion, and the refinement of RWLock.  First, what   *)
(* one step of a reader does to the reader gate; those lemmas leave the    *)
(* door open: whoever else uses writerSem does not matter to them.         *)
(***************************************************************************)
EXTENDS ReadersWriters, FiniteSetTheorems, TLAPS

\* The count stays the number of the readers counted, in range, when a reader
\* is added to them, taken from them, or neither.
LEMMA CountedFinite ==
    /\ IsFiniteSet(Counted)
    /\ Cardinality(Counted) \in 0 .. Cardinality(Readers)
    /\ Cardinality(Counted) = 0 <=> Counted = {}
<1>1. Counted \subseteq Readers
  BY DEF Counted, ReaderAt
<1>2. IsFiniteSet(Counted) /\ Cardinality(Counted) <= Cardinality(Readers)
  BY <1>1, ReadersFinite, FS_Subset
<1>3. Cardinality(Counted) \in Nat /\ Cardinality(Readers) \in Nat
  BY <1>2, ReadersFinite, FS_CardinalityType
<1>4. Cardinality(Counted) = 0 <=> Counted = {}
  BY <1>2, FS_EmptySet
<1> QED  BY <1>2, <1>3, <1>4

\* Entering adds the reader to those counted, leaving takes it away.
LEMMA CountIn ==
    ASSUME NEW r \in Readers \ Counted
    PROVE  Cardinality(Counted \cup {r}) = Cardinality(Counted) + 1
BY CountedFinite, FS_AddElement

LEMMA CountOut ==
    ASSUME NEW r \in Counted
    PROVE  Cardinality(Counted \ {r}) = Cardinality(Counted) - 1
BY CountedFinite, FS_RemoveElement

\* Where the readers are after each step of one of them.
LEMMA Entering ==
    ASSUME GateTypeOK, NEW r \in Readers, Enter(r)
    PROVE  /\ r \notin Counted
           /\ Counted' = Counted \cup {r}
           /\ Updating' = Updating \cup {r}
           /\ ReaderAt({"unlock"})' = ReaderAt({"unlock"})
           /\ readers_count' = 1 =>
                  ReaderAt({"lock"})' = ReaderAt({"lock"}) \cup {r}
           /\ readers_count' # 1 => ReaderAt({"lock"})' = ReaderAt({"lock"})
<1> USE DEF Updating, Counted, ReaderAt, GateTypeOK, Goto, Enter, First
<1>1. CASE readers_count' = 1  BY <1>1
<1>2. CASE readers_count' # 1  BY <1>2
<1> QED  BY <1>1, <1>2

LEMMA Leaving ==
    ASSUME GateTypeOK, NEW r \in Readers, Exit(r)
    PROVE  /\ r \in Counted
           /\ Counted' = Counted \ {r}
           /\ Updating' = Updating \cup {r}
           /\ ReaderAt({"lock"})' = ReaderAt({"lock"})
           /\ readers_count' # 0 => ReaderAt({"unlock"})' = ReaderAt({"unlock"})
<1> USE DEF Updating, Counted, ReaderAt, GateTypeOK, Goto, Exit, Last
<1>1. CASE readers_count' = 0  BY <1>1
<1>2. CASE readers_count' # 0  BY <1>2
<1> QED  BY <1>1, <1>2

LEMMA AtTheDoor ==
    ASSUME GateTypeOK, NEW r \in Readers, CloseDoor(r) \/ OpenDoor(r)
    PROVE  /\ Counted' = Counted
           /\ Updating' = Updating
           /\ ReaderAt({"lock"})' \subseteq ReaderAt({"lock"})
           /\ ReaderAt({"unlock"})' \subseteq ReaderAt({"unlock"})
BY DEF Updating, Counted, ReaderAt, GateTypeOK, Goto, CloseDoor, OpenDoor

LEMMA Posting ==
    ASSUME GateTypeOK, NEW r \in Readers, StartReading(r) \/ Finish(r)
    PROVE  /\ r \in Updating
           /\ Counted' = Counted
           /\ Updating' = Updating \ {r}
           /\ ReaderAt({"lock"})' = ReaderAt({"lock"})
           /\ ReaderAt({"unlock"})' = ReaderAt({"unlock"})
BY DEF Updating, Counted, ReaderAt, GateTypeOK, Goto, StartReading, Finish

\* readerSem stays a mutex around the count, and the count stays exact.
THEOREM GateStep ==
    ASSUME GateTypeOK, GateConsistent, NEW r \in Readers, Reader(r)
    PROVE  GateTypeOK' /\ GateConsistent'
<1>1. rpc' \in [Readers -> {"start", "lock", "post_in", "reading",
                            "unlock", "post_out", "done"}]
  BY DEF GateTypeOK, Reader, Enter, CloseDoor, StartReading, Exit, OpenDoor,
         Finish, Goto
<1>2. Cardinality(Counted') \in 0 .. Cardinality(Readers)
  <2>1. Counted' \subseteq Readers
    BY DEF Counted, ReaderAt
  <2> QED  BY <2>1, ReadersFinite, FS_Subset, FS_CardinalityType
<1>3. ReaderAt({"lock"}) \subseteq Updating /\ ReaderAt({"unlock"}) \subseteq Updating
  BY DEF ReaderAt, Updating
<1>4. CASE Enter(r)
  <2>1. Updating = {} /\ readerSem' = 0
    BY <1>4 DEF Enter, Wait, GateTypeOK, GateConsistent
  <2>2. Updating' = {r} /\ ReaderAt({"unlock"})' = {}
    BY <1>4, <1>3, <2>1, Entering
  <2>3. readers_count' = Cardinality(Counted')
    BY <1>4, Entering, CountIn DEF Enter, GateConsistent
  <2>4. \A q \in ReaderAt({"lock"})' : Counted' = {q}
    <3>1. CASE readers_count' = 1
      <4>1. Counted = {}
        BY <1>4, <3>1, CountedFinite DEF Enter, GateConsistent
      <4> QED  BY <1>3, <1>4, <2>1, <3>1, <4>1, Entering
    <3>2. CASE readers_count' # 1
      BY <1>3, <1>4, <2>1, <3>2, Entering
    <3> QED  BY <3>1, <3>2
  <2> QED  BY <1>1, <1>2, <2>1, <2>2, <2>3, <2>4 DEF GateTypeOK, GateConsistent
<1>5. CASE Exit(r)
  <2>1. Updating = {} /\ readerSem' = 0
    BY <1>5 DEF Exit, Wait, GateTypeOK, GateConsistent
  <2>2. Updating' = {r} /\ ReaderAt({"lock"})' = {}
    BY <1>5, <1>3, <2>1, Leaving
  <2>3. readers_count' = Cardinality(Counted')
    BY <1>5, Leaving, CountOut DEF Exit, GateConsistent
  <2>4. ReaderAt({"unlock"})' # {} => Counted' = {}
    <3>1. CASE readers_count' = 0
      <4>1. Counted = {r}
        <5>1. Cardinality(Counted \ {r}) = 0 /\ r \in Counted
          BY <1>5, <2>3, <3>1, Leaving
        <5>2. Counted \ {r} = {}
          BY <5>1, CountedFinite, FS_RemoveElement, FS_EmptySet
        <5> QED  BY <5>1, <5>2
      <4> QED  BY <1>5, <4>1, Leaving
    <3>2. CASE readers_count' # 0
      BY <1>3, <1>5, <2>1, <3>2, Leaving
    <3> QED  BY <3>1, <3>2
  <2> QED  BY <1>1, <1>2, <2>1, <2>2, <2>3, <2>4 DEF GateTypeOK, GateConsistent
<1>6. CASE CloseDoor(r) \/ OpenDoor(r)
  <2>1. readerSem' = readerSem /\ readers_count' = readers_count
    BY <1>6 DEF CloseDoor, OpenDoor
  <2> QED
    BY <1>1, <1>6, <2>1, AtTheDoor DEF GateTypeOK, GateConsistent
<1>7. CASE StartReading(r) \/ Finish(r)
  <2>1. Updating = {r} /\ Updating' = {}
    BY <1>7, Posting DEF GateConsistent
  <2>2. readerSem' = 1 /\ readers_count' = readers_count
    BY <1>7, <2>1 DEF StartReading, Finish, Post, GateTypeOK, GateConsistent
  <2>3. GateConsistent'
    BY <1>7, <2>1, <2>2, Posting DEF GateConsistent
  <2> QED  BY <1>1, <2>2, <2>3 DEF GateTypeOK
<1> QED  BY <1>4, <1>5, <1>6, <1>7 DEF Reader

\* A step of a reader takes the door when the readers did not hold it, gives
\* it back when none of them needs it any more, or leaves it alone.
THEOREM GateDoor ==
    ASSUME GateTypeOK, GateConsistent, NEW r \in Readers, Reader(r)
    PROVE  \/ /\ writerSem > 0 /\ writerSem' = writerSem - 1
              /\ ~DoorHeld /\ DoorHeld'
           \/ /\ writerSem' = writerSem + 1
              /\ DoorHeld /\ ~DoorHeld'
           \/ /\ writerSem' = writerSem
              /\ DoorHeld' <=> DoorHeld
<1> USE DEF DoorHeld, ReaderAt, Goto, GateTypeOK
<1>1. Updating = {} => Counted = ReaderAt({"reading"})
  BY DEF Counted, Updating
<1>2. CASE Enter(r)
  <2>1. Updating = {} /\ readers_count' = Cardinality(Counted) + 1
    BY <1>2 DEF Enter, Wait, GateConsistent
  <2>2. CASE readers_count' = 1
    BY <1>2, <2>2 DEF Enter, First
  <2>3. CASE readers_count' # 1
    <3>1. ReaderAt({"reading"}) # {}
      BY <2>1, <2>3, <1>1, CountedFinite
    <3> QED  BY <1>2, <2>3, <3>1 DEF Enter, First
  <2> QED  BY <2>2, <2>3
<1>3. CASE CloseDoor(r)
  <2>1. Counted = {r} /\ ReaderAt({"unlock"}) = {}
    BY <1>3 DEF CloseDoor, GateConsistent
  <2>2. ~DoorHeld
    BY <2>1, <1>3 DEF CloseDoor, Counted
  <2> QED  BY <1>3, <2>2 DEF CloseDoor, Wait
<1>4. CASE StartReading(r)
  BY <1>4 DEF StartReading
<1>5. CASE Exit(r)
  <2>1. /\ Updating = {} /\ readers_count' = Cardinality(Counted) - 1
        /\ r \in Counted
    BY <1>5 DEF Exit, Wait, GateConsistent, Counted
  <2>2. CASE readers_count' = 0
    BY <1>5, <2>2 DEF Exit, Last
  <2>3. CASE readers_count' # 0
    <3>1. Counted # {r}
      <4>1. Cardinality({r}) = 1
        BY FS_Singleton
      <4> QED  BY <2>1, <2>3, <4>1
    <3>2. PICK q \in ReaderAt({"reading"}) : q # r
      BY <2>1, <3>1, <1>1
    <3> QED  BY <1>5, <2>3, <3>2 DEF Exit, Last
  <2> QED  BY <2>2, <2>3
<1>6. CASE OpenDoor(r)
  <2>1. Counted = {} /\ \A q \in Updating : q = r
    BY <1>6 DEF OpenDoor, GateConsistent, Updating
  <2>2. ~DoorHeld' /\ DoorHeld
    BY <1>6, <2>1 DEF OpenDoor, Counted, Updating
  <2> QED  BY <1>6, <2>2 DEF OpenDoor, Post
<1>7. CASE Finish(r)
  BY <1>7 DEF Finish
<1> QED  BY <1>2, <1>3, <1>4, <1>5, <1>6, <1>7 DEF Reader

-----------------------------------------------------------------------------
\* The program starts in a state that satisfies the inductive invariant.
LEMMA InitInv == Init => IInv
<1> SUFFICES ASSUME Init PROVE IInv
  OBVIOUS
<1>1. /\ Counted = {} /\ Updating = {} /\ ~DoorHeld
      /\ ReaderAt({"lock"}) = {} /\ ReaderAt({"unlock"}) = {}
  BY DEF Init, GateInit, Counted, Updating, DoorHeld, ReaderAt
<1>2. Cardinality(Readers) \in Nat /\ Cardinality(Counted) = 0
  BY <1>1, ReadersFinite, FS_CardinalityType, FS_EmptySet
<1>3. GateTypeOK /\ GateConsistent
  BY <1>1, <1>2 DEF Init, GateInit, GateTypeOK, GateConsistent
<1>4. Writing = {}
  BY DEF Init, Writing
<1> QED
  BY <1>1, <1>3, <1>4 DEF IInv, TypeOK, DoorConsistent, Init

\* A step that leaves the variables of the gate alone keeps it consistent.
LEMMA GateUntouched ==
    ASSUME GateTypeOK, GateConsistent,
           UNCHANGED <<readerSem, readers_count, rpc>>
    PROVE  /\ GateTypeOK' /\ GateConsistent'
           /\ DoorHeld' = DoorHeld /\ Reading' = Reading
BY DEF GateTypeOK, GateConsistent, Updating, Counted, DoorHeld, Reading, ReaderAt

\* Every step of the program preserves the inductive invariant.
LEMMA NextInv == IInv /\ [Next]_vars => IInv'
<1> SUFFICES ASSUME IInv, [Next]_vars PROVE IInv'
  OBVIOUS
<1> USE DEF IInv, TypeOK
<1>1. ASSUME NEW r \in Readers, ReaderThread(r) PROVE IInv'
  <2>1. Reader(r) /\ UNCHANGED <<wpc, main>> /\ Writing' = Writing
    BY <1>1 DEF ReaderThread, Writing
  <2>2. GateTypeOK' /\ GateConsistent'
    BY <2>1, GateStep
  <2>3. writerSem' \in {0, 1} /\ DoorConsistent'
    <3>1. CASE writerSem > 0 /\ writerSem' = writerSem - 1 /\ ~DoorHeld /\ DoorHeld'
      BY <2>1, <3>1 DEF DoorConsistent
    <3>2. CASE writerSem' = writerSem + 1 /\ DoorHeld /\ ~DoorHeld'
      BY <2>1, <3>2 DEF DoorConsistent
    <3>3. CASE writerSem' = writerSem /\ (DoorHeld' <=> DoorHeld)
      BY <2>1, <3>3 DEF DoorConsistent
    <3> QED  BY <2>1, <3>1, <3>2, <3>3, GateDoor
  <2> QED  BY <2>1, <2>2, <2>3
<1>2. ASSUME NEW w \in Writers, StartWriting(w) PROVE IInv'
  <2>1. /\ GateTypeOK' /\ GateConsistent' /\ DoorHeld' = DoorHeld
        /\ Writing' = Writing \cup {w} /\ wpc' \in [Writers -> {"start", "writing", "done"}]
    BY <1>2, GateUntouched DEF StartWriting, Writing
  <2>2. writerSem = 1 /\ writerSem' = 0
    BY <1>2 DEF StartWriting, Wait
  <2>3. Writing = {} /\ ~DoorHeld
    BY <2>2 DEF DoorConsistent
  <2> QED  BY <1>2, <2>1, <2>2, <2>3 DEF DoorConsistent, StartWriting
<1>3. ASSUME NEW w \in Writers, StopWriting(w) PROVE IInv'
  <2>1. /\ GateTypeOK' /\ GateConsistent' /\ DoorHeld' = DoorHeld
        /\ Writing' = Writing \ {w} /\ wpc' \in [Writers -> {"start", "writing", "done"}]
    BY <1>3, GateUntouched DEF StopWriting, Writing
  <2>2. w \in Writing
    BY <1>3 DEF StopWriting, Writing
  <2>3. writerSem = 0 /\ ~DoorHeld /\ Writing' = {}
    BY <2>1, <2>2 DEF DoorConsistent
  <2> QED  BY <1>3, <2>1, <2>3 DEF DoorConsistent, StopWriting, Post
<1>4. CASE Join
  BY <1>4, GateUntouched DEF Join, DoorConsistent, Writing, gateVars
<1>5. CASE UNCHANGED vars
  BY <1>5, GateUntouched DEF vars, DoorConsistent, Writing, gateVars
<1> QED  BY <1>1, <1>2, <1>3, <1>4, <1>5 DEF Next, Writer, Exited

\* zad1, any number of threads: the semaphores stay binary, readers_count is
\* exact, and writerSem is taken exactly while somebody is entitled to it.
THEOREM Invariance == Spec => []IInv
BY InitInv, NextInv, PTL DEF Spec

\* A writer in the invariant's states is alone.
LEMMA InvExclusion == IInv => Exclusion
<1>1. Reading # {} => DoorHeld
  BY DEF Reading, DoorHeld, ReaderAt
<1> QED  BY <1>1 DEF IInv, DoorConsistent, Exclusion

\* zad1, any number of threads: a writer never writes while another writer
\* writes or a reader reads.
THEOREM Safety == Spec => []Exclusion
BY Invariance, InvExclusion, PTL

\* Every step is a step of the readers-writers lock or leaves it alone.
LEMMA StepRefines ==
    IInv /\ [Next]_vars => [RW!Next]_(Reading \cup Writing)
<1> DEFINE active == Reading \cup Writing
<1> SUFFICES ASSUME IInv, [Next]_vars, active' # active
             PROVE  RW!Next
  OBVIOUS
<1> USE DEF IInv, TypeOK
<1>1. Reading \subseteq Readers /\ Writing \subseteq Writers
  BY DEF Reading, ReaderAt, Writing
<1>2. Reading # {} => DoorHeld
  BY DEF Reading, DoorHeld, ReaderAt
<1>3. ASSUME NEW r \in Readers, ReaderThread(r)
      PROVE  RW!Next
  <2>1. Reader(r) /\ Writing' = Writing /\ r \notin Writers
    BY <1>3, RolesDisjoint DEF ReaderThread, Writing
  <2>2. CASE StartReading(r)
    <3>1. DoorHeld /\ r \notin Reading /\ Reading' = Reading \cup {r}
      BY <2>2 DEF StartReading, Goto, DoorHeld, Reading, ReaderAt, GateTypeOK
    <3>2. active \cap Writers = {} /\ r \in Readers \ active
      BY <1>1, <3>1, <2>1, RolesDisjoint DEF DoorConsistent
    <3>3. active' = active \cup {r}
      BY <2>1, <3>1
    <3> QED  BY <3>2, <3>3 DEF RW!Next, RW!EnterReader
  <2>3. CASE Exit(r)
    <3>1. r \in Reading /\ Reading' = Reading \ {r}
      BY <2>3 DEF Exit, Goto, Reading, ReaderAt, GateTypeOK
    <3>2. r \in active /\ active' = active \ {r}
      BY <1>1, <2>1, <3>1
    <3> QED  BY <3>2 DEF RW!Next, RW!Leave
  <2>4. CASE Enter(r) \/ CloseDoor(r) \/ OpenDoor(r) \/ Finish(r)
    <3>1. Reading' = Reading
      BY <2>4 DEF Enter, CloseDoor, OpenDoor, Finish, Goto, Reading, ReaderAt,
                  GateTypeOK
    <3> QED  BY <2>1, <3>1
  <2> QED  BY <2>1, <2>2, <2>3, <2>4 DEF Reader
<1>4. ASSUME NEW w \in Writers, StartWriting(w)
      PROVE  RW!Next
  <2>1. Reading' = Reading /\ Writing' = Writing \cup {w} /\ writerSem = 1
    BY <1>4, GateUntouched DEF StartWriting, Wait, Writing
  <2>2. active = {} /\ active' = {w}
    BY <1>2, <2>1 DEF DoorConsistent
  <2> QED  BY <2>2 DEF RW!Next, RW!EnterWriter
<1>5. ASSUME NEW w \in Writers, StopWriting(w)
      PROVE  RW!Next
  <2>1. /\ Reading' = Reading /\ Writing' = Writing \ {w}
        /\ w \in Writing /\ w \notin Reading
    BY <1>1, <1>5, GateUntouched, RolesDisjoint DEF StopWriting, Writing
  <2>2. w \in active /\ active' = active \ {w}
    BY <2>1
  <2> QED  BY <2>2 DEF RW!Next, RW!Leave
<1>6. CASE Join \/ UNCHANGED vars
  BY <1>6 DEF Join, vars, gateVars, Reading, ReaderAt, Writing
<1> QED  BY <1>3, <1>4, <1>5, <1>6 DEF Next, Writer, Exited

\* zad1, any number of threads: the program implements the abstract
\* readers-writers lock.
THEOREM Refinement == Spec => ImplementsRWLock
<1>1. Init => RW!Init
  BY DEF Init, GateInit, RW!Init, Reading, ReaderAt, Writing
<1> QED  BY <1>1, Invariance, StepRefines, PTL DEF Spec, ImplementsRWLock, RW!Spec
=============================================================================
