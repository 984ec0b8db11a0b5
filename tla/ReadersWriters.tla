--------------------------- MODULE ReadersWriters ---------------------------
(***************************************************************************)
(* cw01/zad1: WRITERS_NUM writer threads and READERS_NUM reader threads,   *)
(* each of which uses the shared resource once; main waits for all.  A     *)
(* thread that main has not created yet is one that has not moved yet.     *)
(***************************************************************************)
EXTENDS ReaderGate

CONSTANT Writers

ASSUME RolesDisjoint == Readers \cap Writers = {}

VARIABLES wpc,      \* where each writer is
          main      \* whether main has joined every thread

vars == <<gateVars, wpc, main>>

Init == /\ GateInit
        /\ writerSem = 1
        /\ wpc = [w \in Writers |-> "start"]
        /\ main = "joining"

\* Mutants: a writer that does not wait; one that does not post.
StartWritingNoWait(w) ==
    /\ wpc[w] = "start"
    /\ wpc' = [wpc EXCEPT ![w] = "writing"]
    /\ UNCHANGED <<gateVars, main>>
StopWritingNoPost(w) ==
    /\ wpc[w] = "writing"
    /\ wpc' = [wpc EXCEPT ![w] = "done"]
    /\ UNCHANGED <<gateVars, main>>

StartWriting(w) == /\ wpc[w] = "start"
                   /\ Wait(writerSem)
                   /\ wpc' = [wpc EXCEPT ![w] = "writing"]
                   /\ UNCHANGED <<readerSem, readers_count, rpc, main>>

StopWriting(w) == /\ wpc[w] = "writing"
                  /\ Post(writerSem)
                  /\ wpc' = [wpc EXCEPT ![w] = "done"]
                  /\ UNCHANGED <<readerSem, readers_count, rpc, main>>

Writer(w) == StartWriting(w) \/ StopWriting(w)

ReaderThread(r) == Reader(r) /\ UNCHANGED <<wpc, main>>

AllDone == /\ \A r \in Readers : rpc[r] = "done"
           /\ \A w \in Writers : wpc[w] = "done"

Join == /\ main = "joining"
        /\ AllDone
        /\ main' = "returned"
        /\ UNCHANGED <<gateVars, wpc>>

\* The process has exited: the only state in which nothing more may happen.
Exited == main = "returned" /\ UNCHANGED vars

Next == \/ \E r \in Readers : ReaderThread(r)
        \/ \E w \in Writers : Writer(w)
        \/ Join
        \/ Exited

Spec == Init /\ [][Next]_vars

\* The threads are scheduled fairly; nothing is assumed of the order in which
\* a semaphore serves its waiters.
FairSpec == /\ Spec
            /\ \A r \in Readers : WF_vars(ReaderThread(r))
            /\ \A w \in Writers : WF_vars(Writer(w))
            /\ WF_vars(Join)

-----------------------------------------------------------------------------
Writing == {w \in Writers : wpc[w] = "writing"}
Reading == ReaderAt({"reading"})

\* The semaphores stay binary and every thread is at a known place.
TypeOK == /\ GateTypeOK
          /\ writerSem \in {0, 1}
          /\ wpc \in [Writers -> {"start", "writing", "done"}]
          /\ main \in {"joining", "returned"}

\* A writer writes alone: no other writer, and no reader, is inside with it.
Exclusion == \A w \in Writing : Writing = {w} /\ Reading = {}

\* writerSem is taken exactly when one party, the readers together or one
\* writer, is on the inside: it is never lost and never given twice.
DoorConsistent == /\ writerSem = 0 <=> (DoorHeld \/ Writing # {})
                  /\ DoorHeld => Writing = {}
                  /\ \A v, w \in Writing : v = w

\* The inductive invariant behind Exclusion.
IInv == TypeOK /\ GateConsistent /\ DoorConsistent

\* The program implements the abstract readers-writers lock.
RW == INSTANCE RWLock WITH active <- Reading \cup Writing
ImplementsRWLock == RW!Spec

\* Every thread gets its turn and main returns, whatever the order in which
\* waiters are served: no wait is lost and no semaphore is left taken.
Termination == <>(main = "returned")
=============================================================================
