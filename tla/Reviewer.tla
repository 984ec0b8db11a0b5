------------------------------ MODULE Reviewer ------------------------------
(***************************************************************************)
(* cw01/zad4: each writer adds one letter to the books, then the reviewer  *)
(* adds an R before the next writer may.  One mutex guards the books: the  *)
(* writers and the reviewer use it as a monitor, and it is also the door   *)
(* of the reader gate, locked by the first reader and unlocked by the last *)
(* one, which may be another thread.                                       *)
(***************************************************************************)
EXTENDS Sequences

CONSTANTS Readers, Writers, BOOKS,
          reviewer, R     \* the reviewer's thread and its mark

VARIABLES readerSem, readers_count, rpc,
          mutex, cond, reviewer_state,
          pc,       \* where each writer and the reviewer is
          books     \* libb.books, up to libb.top

INSTANCE ReaderGate WITH writerSem <- mutex

\* The books hold every letter and every review (16 of 20 in the program).
ASSUME Roles == /\ reviewer \notin Writers /\ R \notin Writers
                /\ Readers \cap (Writers \cup {reviewer}) = {}
                /\ IsFiniteSet(Readers) /\ IsFiniteSet(Writers)
                /\ BOOKS \in Nat /\ 2 * Cardinality(Writers) <= BOOKS

vars == <<readerSem, readers_count, rpc, mutex, cond, reviewer_state, pc, books>>

Threads == Writers \cup {reviewer}

Init == /\ GateInit
        /\ mutex = 1
        /\ cond = {}
        /\ reviewer_state = "NOT_REQUIRED"
        /\ pc = [t \in Threads |-> "outside"]
        /\ books = <<>>

Acquire(t) == /\ pc[t] = "outside"
              /\ t \notin cond
              /\ Lock(mutex)
              /\ pc' = [pc EXCEPT ![t] = "inside"]
              /\ UNCHANGED <<readerSem, readers_count, rpc, cond,
                             reviewer_state, books>>

\* The thread whose turn it is not goes to sleep.
Sleep(t, turn) == /\ pc[t] = "inside"
                  /\ reviewer_state # turn
                  /\ CondWait(cond, mutex, t)
                  /\ pc' = [pc EXCEPT ![t] = "outside"]
                  /\ UNCHANGED <<readerSem, readers_count, rpc,
                                 reviewer_state, books>>

\* A line is added and the turn passes to the other side.
\* Mutant: nobody is woken.
AddSilently(line, state) == /\ books' = Append(books, line)
                            /\ reviewer_state' = state
                            /\ UNCHANGED cond
Add(line, state) == /\ books' = Append(books, line)
                    /\ reviewer_state' = state
                    /\ Broadcast(cond)

WriterAdds(w) == /\ pc[w] = "inside"
                 /\ reviewer_state = "NOT_REQUIRED"
                 /\ Add(w, "REQUIRED")
                 /\ Unlock(mutex)
                 /\ pc' = [pc EXCEPT ![w] = "done"]
                 /\ UNCHANGED <<readerSem, readers_count, rpc>>

Review == /\ pc[reviewer] = "inside"
          /\ reviewer_state = "REQUIRED"
          /\ Add(R, "NOT_REQUIRED")
          /\ Unlock(mutex)
          /\ pc' = [pc EXCEPT ![reviewer] = "outside"]
          /\ UNCHANGED <<readerSem, readers_count, rpc>>

SpuriousWakeup(t) ==
    /\ Spurious(cond, t)
    /\ UNCHANGED <<readerSem, readers_count, rpc, mutex, reviewer_state,
                   pc, books>>

ReaderThread(r) == Reader(r) /\ UNCHANGED <<cond, reviewer_state, pc, books>>
Writer(w) == Acquire(w) \/ Sleep(w, "NOT_REQUIRED") \/ WriterAdds(w)
Critic    == Acquire(reviewer) \/ Sleep(reviewer, "REQUIRED") \/ Review

Next == \/ \E r \in Readers : ReaderThread(r)
        \/ \E w \in Writers : Writer(w)
        \/ Critic
        \/ \E t \in Threads : SpuriousWakeup(t)

Spec == Init /\ [][Next]_vars

\* The threads are scheduled fairly and spurious wakeups die out; nothing is
\* assumed of the order in which the semaphore or the mutex serves its waiters.
FairSpec == /\ Spec
            /\ \A r \in Readers : WF_vars(ReaderThread(r))
            /\ \A w \in Writers : WF_vars(Writer(w))
            /\ WF_vars(Critic)
            /\ <>[][\A t \in Threads : ~SpuriousWakeup(t)]_vars

-----------------------------------------------------------------------------
Inside  == {t \in Threads : pc[t] = "inside"}
Reading == ReaderAt({"reading"})

\* The mutex stays 0 or 1 and every thread is at a known place.
TypeOK == /\ GateTypeOK
          /\ mutex \in {0, 1}
          /\ cond \subseteq Threads
          /\ reviewer_state \in {"REQUIRED", "NOT_REQUIRED"}
          /\ pc \in [Threads -> {"outside", "inside", "done"}]
          /\ books \in Seq(Writers \cup {R}) /\ Len(books) <= BOOKS

\* The mutex is locked exactly when the readers, together, or one thread of
\* the monitor hold it: the unlock by another thread than the one that locked
\* it never frees it under somebody else.
DoorConsistent == /\ mutex = 0 <=> (DoorHeld \/ Inside # {})
                  /\ ~(DoorHeld /\ Inside # {})
                  /\ \A s, t \in Inside : s = t

\* Letters and reviews alternate, the state says which one is due, and each
\* writer that is done has its letter in the books once; so the books do not overflow.
Done    == {w \in Writers : pc[w] = "done"}
Due     == IF reviewer_state = "REQUIRED" THEN 1 ELSE 0
Letters == {i \in DOMAIN books : books[i] # R}
Alternation ==
    /\ Letters = {i \in DOMAIN books : i % 2 = 1}
    /\ Len(books) = 2 * Cardinality(Done) - Due
    /\ {books[i] : i \in Letters} = Done
    /\ \A i, j \in Letters : books[i] = books[j] => i = j

\* The invariants of the gate, the monitor and the books together.
IInv == TypeOK /\ GateConsistent /\ DoorConsistent /\ Alternation

\* The gate and the monitor together implement the readers-writers lock.
RW == INSTANCE RWLock WITH Writers <- Threads, active <- Reading \cup Inside
ImplementsRWLock == RW!Spec

\* In the end every reader and writer is done and every letter reviewed.  The
\* reviewer waits for ever, and main, which joins it, never returns.
Settles == <>[](/\ \A r \in Readers : rpc[r] = "done"
                /\ \A w \in Writers : pc[w] = "done"
                /\ Len(books) = 2 * Cardinality(Writers)
                /\ reviewer \in cond)
=============================================================================
