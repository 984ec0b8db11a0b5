----------------------------- MODULE ReaderGate -----------------------------
(***************************************************************************)
(* The entry and exit protocol of a reader thread, written the same way in *)
(* cw01 zad1, zad2 and zad4: readers_count, guarded by readerSem, tells    *)
(* the first reader to close the door to the writers and the last one to   *)
(* open it.  The door is writerSem in zad1 and zad2 and mutex in zad4.     *)
(* readers_count is only touched between a wait and a post on readerSem,   *)
(* so the wait, the update and the test after it are one step.             *)
(***************************************************************************)
EXTENDS Pthreads

CONSTANT Readers

ASSUME ReadersFinite == IsFiniteSet(Readers)

VARIABLES readerSem, writerSem, readers_count,
          rpc       \* where each reader is

gateVars == <<readerSem, writerSem, readers_count, rpc>>

GateInit == /\ readerSem = 1
            /\ readers_count = 0
            /\ rpc = [r \in Readers |-> "start"]

Goto(r, from, to) == rpc[r] = from /\ rpc' = [rpc EXCEPT ![r] = to]

\* The reader that has just updated the count is the first one, or the last.
\* Mutants: the tests are one off.
FirstOffByOne == readers_count' = 2
LastOffByOne  == readers_count' = 1

First == readers_count' = 1
Last  == readers_count' = 0

\* Mutant: the count is updated without readerSem.
EnterUnguarded(r) == /\ readers_count' = readers_count + 1
                     /\ Goto(r, "start", IF First THEN "lock" ELSE "post_in")
                     /\ UNCHANGED <<readerSem, writerSem>>

Enter(r) == /\ Wait(readerSem)
            /\ readers_count' = readers_count + 1
            /\ Goto(r, "start", IF First THEN "lock" ELSE "post_in")
            /\ UNCHANGED writerSem

CloseDoor(r) == /\ Goto(r, "lock", "post_in")
                /\ Wait(writerSem)
                /\ UNCHANGED <<readerSem, readers_count>>

StartReading(r) == /\ Goto(r, "post_in", "reading")
                   /\ Post(readerSem)
                   /\ UNCHANGED <<writerSem, readers_count>>

Exit(r) == /\ Wait(readerSem)
           /\ readers_count' = readers_count - 1
           /\ Goto(r, "reading", IF Last THEN "unlock" ELSE "post_out")
           /\ UNCHANGED writerSem

OpenDoor(r) == /\ Goto(r, "unlock", "post_out")
               /\ Post(writerSem)
               /\ UNCHANGED <<readerSem, readers_count>>

\* Mutant: the last sem_post of the reader is forgotten.
FinishNoPost(r) == /\ Goto(r, "post_out", "done")
                   /\ UNCHANGED <<readerSem, writerSem, readers_count>>

Finish(r) == /\ Goto(r, "post_out", "done")
             /\ Post(readerSem)
             /\ UNCHANGED <<writerSem, readers_count>>

Reader(r) == \/ Enter(r) \/ CloseDoor(r) \/ StartReading(r)
             \/ Exit(r)  \/ OpenDoor(r)  \/ Finish(r)

-----------------------------------------------------------------------------
ReaderAt(where) == {r \in Readers : rpc[r] \in where}

\* The readers that hold readerSem, those in readers_count, and those whose
\* presence means that the readers hold the door.
Updating  == ReaderAt({"lock", "post_in", "unlock", "post_out"})
Counted   == ReaderAt({"lock", "post_in", "reading"})
DoorHeld  == ReaderAt({"post_in", "reading", "unlock"}) # {}

GateTypeOK ==
    /\ readerSem \in {0, 1}
    /\ readers_count \in 0 .. Cardinality(Readers)
    /\ rpc \in [Readers -> {"start", "lock", "post_in", "reading",
                            "unlock", "post_out", "done"}]

\* readerSem is a mutex around the update of readers_count, the count is the
\* number of readers inside, and only the first reader in (the last one out)
\* ever waits for the writers (opens the door): readers never wait for one
\* another at the door while the resource is being read.
GateConsistent ==
    /\ readerSem = 1 <=> Updating = {}
    /\ \A r, s \in Updating : r = s
    /\ readers_count = Cardinality(Counted)
    /\ \A r \in ReaderAt({"lock"}) : Counted = {r}
    /\ ReaderAt({"unlock"}) # {} => Counted = {}
=============================================================================
