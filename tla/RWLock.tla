------------------------------- MODULE RWLock -------------------------------
(***************************************************************************)
(* What the readers-and-writers programs of cw01 promise: a set of threads *)
(* uses a shared resource; any number of readers may use it together, a    *)
(* writer uses it alone.  ReadersWriters, SpecialWriter and Reviewer are   *)
(* shown to implement this specification.                                  *)
(***************************************************************************)
CONSTANTS Readers, Writers

VARIABLE active     \* the threads that use the resource now

Init == active = {}

EnterReader(r) == /\ active \cap Writers = {}
                  /\ active' = active \cup {r}

EnterWriter(w) == /\ active = {}
                  /\ active' = {w}

Leave(t) == /\ t \in active
            /\ active' = active \ {t}

Next == \/ \E r \in Readers \ active : EnterReader(r)
        \/ \E w \in Writers : EnterWriter(w)
        \/ \E t \in Readers \cup Writers : Leave(t)

Spec == Init /\ [][Next]_active
=============================================================================
