---------------------------- MODULE SpecialWriter ---------------------------
(***************************************************************************)
(* cw01/zad2: each writer puts one letter in the queue, under the mutex;   *)
(* one special writer takes the letters out, SWRITER_SIZE at a time, and   *)
(* copies them into the library's books, which the readers print.  The     *)
(* books are guarded by the reader gate and writerSem, the queue by the    *)
(* mutex: the special writer is the one thread that uses both.             *)
(***************************************************************************)
EXTENDS ReaderGate, LetterQueue

CONSTANTS Writers, SWRITER_SIZE, BOOKS,
          sw        \* the special writer

\* The queue holds every letter the program ever puts (8 of 15 elements) and
\* the books hold every letter it ever copies (6 of 20).
ASSUME Capacity == /\ Letters = Writers
                   /\ IsFiniteSet(Writers)
                   /\ SWRITER_SIZE \in 1 .. QUEUE_ELEMENTS
                   /\ Cardinality(Writers) <= QUEUE_ELEMENTS
                   /\ BOOKS \in Nat /\ Cardinality(Writers) <= BOOKS
                   /\ sw \notin Writers

VARIABLES mutex, cond,
          pc,       \* where each writer and the special writer is
          rcv,      \* the letters the special writer has taken
          books     \* libb.books, up to libb.top

vars == <<gateVars, queueVars, mutex, cond, pc, rcv, books>>

Init == /\ GateInit
        /\ writerSem = 1
        /\ QueueInit
        /\ mutex = 1
        /\ cond = {}
        /\ pc = [t \in Writers \cup {sw} |-> "outside"]
        /\ rcv = <<>>
        /\ books = <<>>

Acquire(t) == /\ pc[t] = "outside"
              /\ t \notin cond
              /\ Lock(mutex)
              /\ pc' = [pc EXCEPT ![t] = "inside"]
              /\ UNCHANGED <<gateVars, queueVars, cond, rcv, books>>

WakeSpecial == IF QueueLen' >= SWRITER_SIZE THEN Broadcast(cond)
                                            ELSE UNCHANGED cond

WriterPuts(w) == /\ pc[w] = "inside"
                 /\ QueuePut(w)
                 /\ WakeSpecial
                 /\ Unlock(mutex)
                 /\ pc' = [pc EXCEPT ![w] = "done"]
                 /\ UNCHANGED <<gateVars, rcv, books>>

SpecialWaits == /\ pc[sw] = "inside"
                /\ QueueLen < SWRITER_SIZE
                /\ CondWait(cond, mutex, sw)
                /\ pc' = [pc EXCEPT ![sw] = "outside"]
                /\ UNCHANGED <<gateVars, queueVars, rcv, books>>

\* SWRITER_SIZE calls of QueueGet in a row.
\* Mutant: one call too few advances the ring.
TakeBatchShort == /\ rcv' = SubSeq(QueueItems, 1, SWRITER_SIZE)
                  /\ QueueOut' = (QueueOut + SWRITER_SIZE - 1) % QUEUE_SIZE
                  /\ QueueLen' = QueueLen - SWRITER_SIZE + 1
TakeBatch == /\ rcv' = SubSeq(QueueItems, 1, SWRITER_SIZE)
             /\ QueueOut' = (QueueOut + SWRITER_SIZE) % QUEUE_SIZE
             /\ QueueLen' = QueueLen - SWRITER_SIZE

SpecialTakes == /\ pc[sw] = "inside"
                /\ QueueLen >= SWRITER_SIZE
                /\ TakeBatch
                /\ Unlock(mutex)
                /\ pc' = [pc EXCEPT ![sw] = "loaded"]
                /\ UNCHANGED <<gateVars, Queue, QueueIn, cond, books>>

SpecialEnters == /\ pc[sw] = "loaded"
                 /\ Wait(writerSem)
                 /\ pc' = [pc EXCEPT ![sw] = "copying"]
                 /\ UNCHANGED <<readerSem, readers_count, rpc, queueVars,
                                mutex, cond, rcv, books>>

\* One letter of rcv is copied; here rcv keeps the letters still to copy.
SpecialCopies == /\ pc[sw] = "copying"
                 /\ rcv # <<>>
                 /\ books' = Append(books, Head(rcv))
                 /\ rcv' = Tail(rcv)
                 /\ UNCHANGED <<gateVars, queueVars, mutex, cond, pc>>

SpecialLeaves == /\ pc[sw] = "copying"
                 /\ rcv = <<>>
                 /\ Post(writerSem)
                 /\ pc' = [pc EXCEPT ![sw] = "outside"]
                 /\ UNCHANGED <<readerSem, readers_count, rpc, queueVars,
                                mutex, cond, rcv, books>>

SpuriousWakeup == /\ Spurious(cond, sw)
                  /\ UNCHANGED <<gateVars, queueVars, mutex, pc, rcv, books>>

ReaderThread(r) ==
    Reader(r) /\ UNCHANGED <<queueVars, mutex, cond, pc, rcv, books>>
Writer(w) == Acquire(w) \/ WriterPuts(w)
Special   == \/ Acquire(sw) \/ SpecialWaits \/ SpecialTakes
             \/ SpecialEnters \/ SpecialCopies \/ SpecialLeaves

Next == \/ \E r \in Readers : ReaderThread(r)
        \/ \E w \in Writers : Writer(w)
        \/ Special
        \/ SpuriousWakeup

Spec == Init /\ [][Next]_vars

\* The threads are scheduled fairly and spurious wakeups die out; nothing is
\* assumed of the order in which a semaphore or the mutex serves its waiters.
FairSpec == /\ Spec
            /\ \A r \in Readers : WF_vars(ReaderThread(r))
            /\ \A w \in Writers : WF_vars(Writer(w))
            /\ WF_vars(Special)
            /\ <>[][~SpuriousWakeup]_vars

-----------------------------------------------------------------------------
Copying == IF pc[sw] = "copying" THEN {sw} ELSE {}
Reading == ReaderAt({"reading"})
Inside  == {t \in Writers \cup {sw} : pc[t] = "inside"}

\* Every index is in range and every thread at a known place.
TypeOK == /\ GateTypeOK
          /\ QueueTypeOK
          /\ writerSem \in {0, 1}
          /\ mutex \in {0, 1}
          /\ cond \subseteq {sw}
          /\ pc \in [Writers \cup {sw} -> {"outside", "inside", "loaded",
                                           "copying", "done"}]
          /\ pc[sw] # "done"
          /\ rcv \in Seq(Letters) /\ Len(rcv) <= SWRITER_SIZE
          /\ books \in Seq(Letters) /\ Len(books) <= BOOKS

\* writerSem is taken exactly when the readers or the special writer are at
\* the books, and the mutex exactly when one thread is in the monitor.
LocksConsistent == /\ writerSem = 0 <=> (DoorHeld \/ Copying # {})
                   /\ ~(DoorHeld /\ Copying # {})
                   /\ mutex = 0 <=> Inside # {}
                   /\ \A s, t \in Inside : s = t

\* So many letters are a number of whole batches.
Whole(letters) == \E k \in 0 .. letters : letters = k * SWRITER_SIZE

\* A reader never prints a batch that is only half copied.
NoTornBatch == Reading # {} => Whole(Len(books))

\* What the special writer has in hand: nothing while it is at the queue, a whole
\* batch on the way to the books, and there the rest of the batch that it copies.
HandConsistent == /\ pc[sw] \in {"outside", "inside"} => rcv = <<>>
                  /\ pc[sw] = "loaded" => Len(rcv) = SWRITER_SIZE
                  /\ Whole(Len(books) + Len(rcv))

\* The books, the letters in hand and the queue make up one log: it holds the
\* letter of every writer that is done, once, so neither array overflows.
Log  == books \o rcv \o QueueItems
Done == {w \in Writers : pc[w] = "done"}
Delivered == /\ Len(Log) = Cardinality(Done)
             /\ {Log[i] : i \in DOMAIN Log} = Done
             /\ \A i, j \in DOMAIN Log : Log[i] = Log[j] => i = j

\* The invariants of the queue, the gate, the locks and the log together.
IInv == /\ TypeOK /\ QueueConsistent /\ GateConsistent /\ LocksConsistent
        /\ HandConsistent /\ Delivered /\ NoTornBatch

\* The log grows in the order of the writers' turns, and the readers see it grow
\* batch by batch.
Visible == IF Copying # {} THEN Len(books) + Len(rcv) - SWRITER_SIZE
                           ELSE Len(books)
Archive == INSTANCE LetterArchive
    WITH Batch <- SWRITER_SIZE, Items <- Letters, log <- Log, visible <- Visible
ImplementsArchive == Archive!Spec

\* In the end every reader and writer is done and every full batch is in the
\* books.  The letters that do not fill a batch stay in the queue for ever,
\* and main, which joins the special writer, never returns.
Leftover == Cardinality(Writers) % SWRITER_SIZE
Settles ==
    <>[](/\ \A r \in Readers : rpc[r] = "done"
         /\ \A w \in Writers : pc[w] = "done"
         /\ Len(books) = Cardinality(Writers) - Leftover
         /\ sw \in cond /\ QueueLen = Leftover)
=============================================================================
