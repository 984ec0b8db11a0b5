---------------------------- MODULE BatchLibrary ----------------------------
(***************************************************************************)
(* cw01/zad6: each writer puts its letter in the queue, each reader takes  *)
(* one out.  writers_mode says whose turn it is: it is cleared by the      *)
(* writer that fills the queue and set by the reader that empties it.      *)
(* Threads outside the monitor wait for the mutex or, if they are in       *)
(* cond_empty or cond_full, for a broadcast.  All shared data is touched   *)
(* under the mutex, so all that a thread does from the test to the unlock  *)
(* (or to the wait, which unlocks) is one step.                            *)
(***************************************************************************)
EXTENDS Pthreads, LetterQueue

CONSTANTS Readers, Writers

ASSUME Roles == /\ Readers \cap Writers = {}
                /\ Letters = Writers      \* writer i puts the letter 'A' + i

VARIABLES mutex, cond_empty, cond_full, writers_mode,
          pc,       \* where each thread is
          got       \* what each reader's variable c holds

vars == <<queueVars, mutex, cond_empty, cond_full, writers_mode, pc, got>>

Threads == Readers \cup Writers

Init == /\ QueueInit
        /\ mutex = 1
        /\ cond_empty = {}
        /\ cond_full = {}
        /\ writers_mode = TRUE
        /\ pc = [t \in Threads |-> "outside"]
        /\ got = [r \in Readers |-> NUL]

Enter(t) == /\ pc[t] = "outside"
            /\ t \notin cond_empty \cup cond_full
            /\ Lock(mutex)
            /\ pc' = [pc EXCEPT ![t] = "inside"]
            /\ UNCHANGED <<queueVars, cond_empty, cond_full, writers_mode, got>>

\* The thread is done with the monitor, and with its work.
\* Mutant: it keeps the mutex.
DepartLocked(t) == pc' = [pc EXCEPT ![t] = "done"] /\ UNCHANGED mutex
Depart(t) == Unlock(mutex) /\ pc' = [pc EXCEPT ![t] = "done"]

WriterWaits(w) == /\ pc[w] = "inside"
                  /\ ~writers_mode
                  /\ CondWait(cond_empty, mutex, w)
                  /\ pc' = [pc EXCEPT ![w] = "outside"]
                  /\ UNCHANGED <<queueVars, cond_full, writers_mode, got>>

\* The writer that fills the queue gives the turn to the readers.
ToReaders == IF QueueLen' = QUEUE_ELEMENTS
             THEN writers_mode' = FALSE /\ Broadcast(cond_full)
             ELSE UNCHANGED <<writers_mode, cond_full>>

WriterPuts(w) == /\ pc[w] = "inside"
                 /\ writers_mode
                 /\ QueuePut(w)
                 /\ ToReaders
                 /\ Depart(w)
                 /\ UNCHANGED <<cond_empty, got>>

ReaderWaits(r) == /\ pc[r] = "inside"
                  /\ writers_mode
                  /\ CondWait(cond_full, mutex, r)
                  /\ pc' = [pc EXCEPT ![r] = "outside"]
                  /\ UNCHANGED <<queueVars, cond_empty, writers_mode, got>>

\* The reader that empties the queue gives the turn back.
\* Mutant: it does so one letter too early.
ToWritersEarly == IF QueueLen' <= 1
                  THEN writers_mode' = TRUE /\ Broadcast(cond_empty)
                  ELSE UNCHANGED <<writers_mode, cond_empty>>

ToWriters == IF QueueLen' = 0
             THEN writers_mode' = TRUE /\ Broadcast(cond_empty)
             ELSE UNCHANGED <<writers_mode, cond_empty>>

ReaderGets(r) == /\ pc[r] = "inside"
                 /\ ~writers_mode
                 /\ got' = [got EXCEPT ![r] = QueueRead(NUL)]
                 /\ QueueGet
                 /\ ToWriters
                 /\ Depart(r)
                 /\ UNCHANGED cond_full

SpuriousWakeup(t) ==
    /\ \/ Spurious(cond_empty, t) /\ UNCHANGED cond_full
       \/ Spurious(cond_full, t) /\ UNCHANGED cond_empty
    /\ UNCHANGED <<queueVars, mutex, writers_mode, pc, got>>

Writer(w) == Enter(w) \/ WriterWaits(w) \/ WriterPuts(w)
Reader(r) == Enter(r) \/ ReaderWaits(r) \/ ReaderGets(r)

\* main joins every thread and returns.
AllDone == \A t \in Threads : pc[t] = "done"
Exited  == AllDone /\ UNCHANGED vars

Next == \/ \E w \in Writers : Writer(w)
        \/ \E r \in Readers : Reader(r)
        \/ \E t \in Threads : SpuriousWakeup(t)
        \/ Exited

Spec == Init /\ [][Next]_vars

\* The threads are scheduled fairly and spurious wakeups die out; nothing is
\* assumed of the order in which a mutex serves its waiters.
FairSpec == /\ Spec
            /\ \A w \in Writers : WF_vars(Writer(w))
            /\ \A r \in Readers : WF_vars(Reader(r))
            /\ <>[][\A t \in Threads : ~SpuriousWakeup(t)]_vars

-----------------------------------------------------------------------------
InMonitor == {t \in Threads : pc[t] = "inside"}

\* Indices in range, and every thread at a known place.
TypeOK == /\ QueueTypeOK
          /\ mutex \in {0, 1}
          /\ cond_empty \subseteq Writers
          /\ cond_full \subseteq Readers
          /\ writers_mode \in BOOLEAN
          /\ pc \in [Threads -> {"outside", "inside", "done"}]
          /\ got \in [Readers -> Letters \cup {NUL}]

\* One thread at a time is in the monitor, and the mutex knows it.
MonitorConsistent == /\ mutex = 0 <=> InMonitor # {}
                     /\ \A s, t \in InMonitor : s = t

\* Writers only have the turn while there is room, readers while there is a
\* letter: so the unchecked QueuePut and QueueGet never fail.
TurnConsistent == IF writers_mode THEN QueueLen < QUEUE_ELEMENTS
                                  ELSE QueueLen > 0

\* The inductive invariant: the unchecked indices and the turn rest on it.
IInv == TypeOK /\ QueueConsistent /\ MonitorConsistent /\ TurnConsistent

\* A thread only sleeps while it is not its turn: no wakeup is lost.
NoLostWakeup == /\ writers_mode => cond_empty = {}
                /\ ~writers_mode => cond_full = {}
                /\ \A t \in cond_empty \cup cond_full : pc[t] = "outside"

\* Every letter put is either in the queue or read by exactly one reader, and
\* a reader that has been served has a letter.
Served  == {r \in Readers : pc[r] = "done"}
Queued  == {QueueItems[i] : i \in 1 .. QueueLen}
Taken   == {got[r] : r \in Served}
Delivery == /\ Queued \cap Taken = {}
            /\ Queued \cup Taken = {w \in Writers : pc[w] = "done"}
            /\ \A i, j \in 1 .. QueueLen : QueueItems[i] = QueueItems[j] => i = j
            /\ \A r, s \in Served : got[r] = got[s] => r = s

\* The ring, the flag and the monitor together implement the batch buffer.
Batches == INSTANCE BatchBuffer WITH Size <- QUEUE_ELEMENTS, Items <- Letters,
                                     batch <- QueueItems, filling <- writers_mode
ImplementsBatchBuffer == Batches!Spec

\* Every thread is served in the end, provided that (as in the program) there
\* are as many readers as writers and they fill a whole number of batches.
Termination == <>[]AllDone
=============================================================================
