-------------------------- MODULE ProcEntriesProofs --------------------------
(***************************************************************************)
(* fs/proc, generic.c and inode.c, for any entries, any number of          *)
(* processes and any BIAS larger than that: the counts of an entry's users *)
(* and references are right, each open file is released once, and when a   *)
(* removal is over no code of the module runs.  Then the repository's      *)
(* drivers over it: what insmod and rmmod leave behind.  Then /proc/sys:   *)
(* whose names a process gets to.  Then one of the drivers, /dev/simple.   *)
(***************************************************************************)
EXTENDS DriverModules, Sysctl, SimpleSync,
        FiniteSetTheorems, SequenceTheorems, TLAPS

\* The processes that use an entry, or know it, can be counted; they are fewer than
\* what a removal takes away from in_use.
LEMMA UsersFinite ==
    ASSUME NEW e
    PROVE  /\ IsFiniteSet(Inside(e)) /\ IsFiniteSet(Known(e))
           /\ Cardinality(Inside(e)) \in Nat /\ Cardinality(Known(e)) \in Nat
           /\ Cardinality(Inside(e)) + BIAS < 0 /\ BIAS \in Int
           /\ Cardinality(Inside(e)) = 0 <=> Inside(e) = {}
           /\ Cardinality(Known(e)) = 0 <=> Known(e) = {}
<1>1. IsFiniteSet(Inside(e)) /\ IsFiniteSet(Known(e))
  BY Few, FS_Subset DEF Inside, Known
<1>2. Cardinality(Inside(e)) <= Cardinality(Users)
  BY Few, FS_Subset DEF Inside
<1>3. /\ Cardinality(Inside(e)) \in Nat /\ Cardinality(Known(e)) \in Nat
      /\ Cardinality(Users) \in Nat
  BY <1>1, Few, FS_CardinalityType
<1> QED  BY <1>1, <1>2, <1>3, Few, FS_EmptySet

\* A process is with an entry, and only then has left the user's code.
LEMMA WithEntry ==
    ASSUME IInv, NEW p \in Users, pc[p] # "user"
    PROVE  ent[p] \in Ents
BY DEF IInv, TypeOK, OpenersConsistent

\* The program starts in a state that satisfies the invariants.
LEMMA InitInv == Init => Consistent
<1> SUFFICES ASSUME Init PROVE Consistent
  OBVIOUS
<1>1. \A e \in Ents : Inside(e) = {} /\ Known(e) = {}
  BY Null DEF Init, Inside, Known
<1>2. Cardinality({}) = 0
  BY FS_EmptySet
<1>3. TypeOK
  BY DEF Init, TypeOK
<1>4. UseCounted
  BY <1>1, <1>2 DEF Init, UseCounted, Going
<1>5. RefsCounted
  BY <1>1, <1>2 DEF Init, RefsCounted
<1>6. OpenersConsistent
  BY DEF Init, OpenersConsistent
<1>7. ReleasedOnce
  BY DEF Init, ReleasedOnce
<1> QED  BY <1>3, <1>4, <1>5, <1>6, <1>7 DEF Consistent, IInv

\* The states keep their types; a reference that is dropped was there.
LEMMA TypeStep == Consistent /\ Next => TypeOK'
<1> SUFFICES ASSUME Consistent, Next PROVE TypeOK'
  OBVIOUS
<1> USE DEF Consistent, IInv, TypeOK
<1>1. ASSUME NEW e \in Ents, Create(e) PROVE TypeOK'
  BY <1>1 DEF Create
<1>2. ASSUME NEW e \in Ents, Remove(e) PROVE TypeOK'
  BY <1>2 DEF Remove, Children
<1>3. ASSUME NEW e \in Ents, RemoveNext(e) PROVE TypeOK'
  BY <1>3 DEF RemoveNext, Children
<1>4. ASSUME NEW e \in Ents, Rundown(e) PROVE TypeOK'
  BY <1>4, Few DEF Rundown, Going
<1>5. ASSUME NEW e \in Ents, Drained(e) PROVE TypeOK'
  BY <1>5 DEF Drained, Going
<1>6. ASSUME NEW e \in Ents, NEW p \in Users, CloseOne(e, p) PROVE TypeOK'
  BY <1>6 DEF CloseOne, Going
<1>7. ASSUME NEW e \in Ents, CloseDone(e) PROVE TypeOK'
  BY <1>7 DEF CloseDone, Drop, Going
<1>8. ASSUME NEW e \in Ents, Removed(e) PROVE TypeOK'
  <2>1. count[e] - 1 \in Nat
    BY <1>8, UsersFinite DEF Removed, RefsCounted
  <2> QED  BY <1>8, <2>1 DEF Removed, Put
<1>9. ASSUME NEW p \in Users, NEW e \in Ents, Lookup(p, e) PROVE TypeOK'
  BY <1>9 DEF Lookup, Goto
<1>10. ASSUME NEW p \in Users, Evict(p) PROVE TypeOK'
  <2>1. ent[p] \in Ents /\ p \in Known(ent[p])
    BY <1>10, WithEntry DEF Evict, Goto, Known
  <2>2. count[ent[p]] - 1 \in Nat
    BY <2>1, UsersFinite DEF RefsCounted
  <2> QED  BY <1>10, <2>1, <2>2 DEF Evict, Goto, Put
<1>11. ASSUME NEW p \in Users, Open(p) \/ Call(p) PROVE TypeOK'
  BY <1>11 DEF Open, Call, Use, Goto, Handler
<1>12. ASSUME NEW p \in Users, OpenReturns(p) PROVE TypeOK'
  BY <1>12 DEF OpenReturns, Goto
<1>13. ASSUME NEW p \in Users, OpenFails(p) \/ OpenDone(p) \/ CallReturns(p) PROVE TypeOK'
  <2>1. ent[p] \in Ents
    BY <1>13, WithEntry DEF OpenFails, OpenDone, CallReturns, Leave, Goto
  <2> QED  BY <1>13, <2>1 DEF OpenFails, OpenDone, CallReturns, Leave, Unuse, Goto
<1>14. ASSUME NEW p \in Users, Close(p) PROVE TypeOK'
  BY <1>14 DEF Close, Goto, Handler
<1>15. ASSUME NEW p \in Users, CloseReturns(p) PROVE TypeOK'
  BY <1>15 DEF CloseReturns, Goto, Drop, Going
<1> QED
  BY <1>1, <1>2, <1>3, <1>4, <1>5, <1>6, <1>7, <1>8, <1>9, <1>10, <1>11, <1>12,
     <1>13, <1>14, <1>15 DEF Next, Removal, User, Return

\* A step that lets nobody begin or end to use an entry keeps the count right if the
\* removal of each entry is as far as it was, or goes on with nobody inside.
LEMMA UseKept ==
    ASSUME TypeOK, UseCounted, UNCHANGED in_use,
           \A e \in Ents :
               /\ Inside(e)' = Inside(e)
               /\ e \in completed' <=> e \in completed
               /\ \/ life'[e] = life[e]
                  \/ life'[e] = "absent"
                  \/ life[e] = "linked" /\ life'[e] = "erased"
                  \/ /\ life[e] \in Going /\ life'[e] \in (Going \cup {"removed"}) \ {"draining"}
                     /\ life[e] = "draining" => e \in completed
    PROVE  UseCounted'
<1> SUFFICES ASSUME NEW e \in Ents
             PROVE  (/\ life[e] # "absent" =>
                           in_use[e] = Cardinality(Inside(e))
                             + IF life[e] \in Going \cup {"removed"} THEN BIAS ELSE 0
                     /\ life[e] \in Going \cup {"removed"}
                           /\ (life[e] # "draining" \/ e \in completed) => Inside(e) = {}
                     /\ life[e] \in {"linked", "erased"} => e \notin completed)'
  BY DEF UseCounted
<1>1. CASE life'[e] = life[e]
  BY <1>1 DEF UseCounted
<1>2. CASE life'[e] = "absent"
  BY <1>2 DEF Going
<1>3. CASE life[e] = "linked" /\ life'[e] = "erased"
  BY <1>3 DEF UseCounted, Going
<1>4. CASE /\ life[e] \in Going /\ life'[e] \in (Going \cup {"removed"}) \ {"draining"}
           /\ life[e] = "draining" => e \in completed
  BY <1>4 DEF UseCounted, Going
<1> QED  BY <1>1, <1>2, <1>3, <1>4

\* use_pde and unuse_pde keep the count right, and the last one to leave an entry that
\* is going away completes it.
LEMMA UseStep == Consistent /\ Next => UseCounted'
<1> SUFFICES ASSUME Consistent, Next PROVE UseCounted'
  OBVIOUS
<1> USE DEF Consistent, IInv
<1>0. TypeOK
  OBVIOUS
<1>1. ASSUME NEW e \in Ents, Create(e) PROVE UseCounted'
  <2>1. \A d \in Ents : Inside(d)' = Inside(d)
    BY <1>1 DEF Create, Inside
  <2>2. Inside(e) = {} /\ Cardinality({}) = 0
    BY <1>1, FS_EmptySet DEF Create, RefsCounted, Known, Inside
  <2>3. /\ life'[e] = "linked" /\ in_use'[e] = 0 /\ completed' = completed \ {e}
        /\ \A d \in Ents \ {e} : life'[d] = life[d] /\ in_use'[d] = in_use[d]
    BY <1>1 DEF Create, TypeOK
  <2>4. Cardinality(Inside(e)') = 0
    BY <2>1, <2>2
  <2> QED  BY <2>1, <2>2, <2>3, <2>4 DEF UseCounted, Going
<1>2. ASSUME NEW e \in Ents, Remove(e) \/ RemoveNext(e) PROVE UseCounted'
  BY <1>0, <1>2, UseKept DEF Remove, RemoveNext, Children, Inside, TypeOK
<1>3. ASSUME NEW e \in Ents, Rundown(e) PROVE UseCounted'
  <2>1. \A d \in Ents : Inside(d)' = Inside(d)
    BY <1>3 DEF Rundown, Inside
  <2>2. in_use[e] = Cardinality(Inside(e)) /\ e \notin completed
    BY <1>3, UsersFinite DEF Rundown, UseCounted, Going
  <2>3. in_use'[e] = Cardinality(Inside(e)) + BIAS
    BY <1>3, <2>2 DEF Rundown, TypeOK
  <2>4. in_use'[e] = BIAS <=> Inside(e) = {}
    BY <2>3, UsersFinite
  <2>5. /\ life'[e] \in {"closing", "draining"}
        /\ life'[e] = "closing" <=> Inside(e) = {}
    BY <1>3, <2>4 DEF Rundown, TypeOK
  <2>6. \A d \in Ents \ {e} : in_use'[d] = in_use[d] /\ life'[d] = life[d]
    BY <1>3 DEF Rundown, TypeOK
  <2> QED  BY <1>3, <2>1, <2>2, <2>3, <2>5, <2>6 DEF Rundown, UseCounted, Going
<1>4. ASSUME NEW e \in Ents, Drained(e) \/ Removed(e) \/ (\E p \in Users : CloseOne(e, p))
      PROVE  UseCounted'
  BY <1>0, <1>4, UseKept DEF Drained, Removed, CloseOne, Inside, TypeOK, Going
<1>5. ASSUME NEW e \in Ents, CloseDone(e) PROVE UseCounted'
  <2>1. \A d \in Ents : Inside(d)' = Inside(d)
    BY <1>5 DEF CloseDone, Inside, TypeOK
  <2> QED  BY <1>0, <1>5, <2>1, UseKept DEF CloseDone, TypeOK, Going
<1>6. ASSUME NEW p \in Users, (\E e \in Ents : Lookup(p, e)) \/ Evict(p) \/ OpenReturns(p)
      PROVE  UseCounted'
  <2>1. \A d \in Ents : Inside(d)' = Inside(d)
    BY <1>6 DEF Lookup, Evict, OpenReturns, Goto, Inside, TypeOK
  <2> QED
    BY <1>0, <1>6, <2>1, UseKept DEF Lookup, Evict, OpenReturns, TypeOK
<1>7. ASSUME NEW p \in Users, Close(p) \/ CloseReturns(p) PROVE UseCounted'
  <2>1. \A d \in Ents : Inside(d)' = Inside(d)
    BY <1>7 DEF Close, CloseReturns, Goto, Inside, TypeOK
  <2>2. CloseReturns(p) /\ closer[ent[p]] = p => life[ent[p]] = "waiting"
    BY <1>7, WithEntry, Null DEF CloseReturns, Goto, OpenersConsistent
  <2> QED
    BY <1>0, <1>7, <2>1, <2>2, UseKept DEF Close, CloseReturns, TypeOK, Going
<1>8. ASSUME NEW p \in Users, Open(p) \/ Call(p) PROVE UseCounted'
  <2> DEFINE e == ent[p]
  <2>1. /\ e \in Ents /\ in_use[e] >= 0 /\ pc[p] \in {"found", "open"}
        /\ in_use' = [in_use EXCEPT ![e] = @ + 1]
        /\ pc' \in {[pc EXCEPT ![p] = "opening"], [pc EXCEPT ![p] = "calling"]}
        /\ UNCHANGED <<life, completed, ent>>
    BY <1>8, WithEntry DEF Open, Call, Use, Goto
  <2>2. Inside(e)' = Inside(e) \cup {p} /\ p \notin Inside(e)
    BY <2>1 DEF Inside, TypeOK
  <2>3. \A d \in Ents \ {e} : Inside(d)' = Inside(d)
    BY <2>1 DEF Inside, TypeOK
  <2>4. Cardinality(Inside(e)') = Cardinality(Inside(e)) + 1
    BY <2>2, UsersFinite, FS_AddElement
  <2>5. life[e] # "absent"
    BY <2>1 DEF RefsCounted, Known
  <2>6. life[e] \notin Going \cup {"removed"}
    BY <2>1, <2>5, UsersFinite DEF UseCounted
  <2>7. in_use'[e] = Cardinality(Inside(e)')
    BY <2>1, <2>4, <2>5, <2>6, UsersFinite DEF UseCounted, TypeOK
  <2> QED  BY <2>1, <2>3, <2>5, <2>6, <2>7 DEF UseCounted, TypeOK
<1>9. ASSUME NEW p \in Users, OpenFails(p) \/ OpenDone(p) \/ CallReturns(p) PROVE UseCounted'
  <2> DEFINE e == ent[p]
  <2>1. /\ e \in Ents /\ Unuse(e) /\ p \in Inside(e)
        /\ pc' \in {[pc EXCEPT ![p] = "found"], [pc EXCEPT ![p] = "open"]}
        /\ UNCHANGED <<life, ent>>
    BY <1>9, WithEntry DEF OpenFails, OpenDone, CallReturns, Leave, Goto, Inside
  <2>2. Inside(e)' = Inside(e) \ {p}
    BY <2>1 DEF Inside, TypeOK
  <2>3. \A d \in Ents \ {e} : Inside(d)' = Inside(d)
    BY <2>1 DEF Inside, TypeOK
  <2>4. /\ Cardinality(Inside(e)') = Cardinality(Inside(e)) - 1
        /\ Cardinality(Inside(e)') \in Nat
        /\ Cardinality(Inside(e)') = 0 <=> Inside(e)' = {}
    BY <2>1, <2>2, UsersFinite, FS_RemoveElement, FS_CardinalityType, FS_EmptySet
  <2>5. life[e] # "absent"
    BY <2>1 DEF RefsCounted, Known, Inside
  <2>6. /\ in_use'[e] = Cardinality(Inside(e)')
                       + IF life[e] \in Going \cup {"removed"} THEN BIAS ELSE 0
        /\ \A d \in Ents \ {e} : in_use'[d] = in_use[d] /\ (d \in completed' <=> d \in completed)
        /\ e \in completed' <=> e \in completed \/ in_use'[e] = BIAS
    BY <2>1, <2>4, <2>5, UsersFinite DEF Unuse, UseCounted, TypeOK
  <2>7. in_use'[e] = BIAS => life[e] \in Going \cup {"removed"} /\ Inside(e)' = {}
    BY <2>4, <2>6, UsersFinite
  <2>8. e \notin completed
    BY <2>1, <2>5 DEF UseCounted, TypeOK
  <2> QED  BY <2>1, <2>2, <2>3, <2>5, <2>6, <2>7, <2>8 DEF UseCounted, TypeOK, Going
<1> QED
  BY <1>1, <1>2, <1>3, <1>4, <1>5, <1>6, <1>7, <1>8, <1>9
     DEF Next, Removal, User, Return

\* A step that takes and drops no reference keeps their count right if it ends no
\* removal.
LEMMA RefsKept ==
    ASSUME TypeOK, RefsCounted, UNCHANGED count,
           \A e \in Ents :
               /\ Known(e)' = Known(e)
               /\ \/ life'[e] = life[e]
                  \/ life[e] \notin {"absent", "removed"} /\ life'[e] \notin {"absent", "removed"}
    PROVE  RefsCounted'
<1> SUFFICES ASSUME NEW e \in Ents
             PROVE  (/\ count[e] = Cardinality(Known(e))
                                      + IF life[e] \in {"absent", "removed"} THEN 0 ELSE 1
                     /\ life[e] = "absent" => Known(e) = {}
                     /\ life[e] = "removed" => Known(e) # {})'
  BY DEF RefsCounted
<1> QED  BY DEF RefsCounted

\* pde_get and pde_put keep the count right, and the last reference frees the entry.
LEMMA RefsStep == Consistent /\ Next => RefsCounted'
<1> SUFFICES ASSUME Consistent, Next PROVE RefsCounted'
  OBVIOUS
<1> USE DEF Consistent, IInv
<1>0. TypeOK /\ RefsCounted
  OBVIOUS
<1>1. ASSUME NEW e \in Ents, Create(e) PROVE RefsCounted'
  <2>1. \A d \in Ents : Known(d)' = Known(d)
    BY <1>1 DEF Create, Known
  <2>2. Known(e) = {} /\ Cardinality({}) = 0
    BY <1>1, FS_EmptySet DEF Create, RefsCounted
  <2>3. /\ life'[e] = "linked" /\ count'[e] = 1
        /\ \A d \in Ents \ {e} : life'[d] = life[d] /\ count'[d] = count[d]
    BY <1>1 DEF Create, TypeOK
  <2>4. Cardinality(Known(e)') = 0
    BY <2>1, <2>2
  <2> QED  BY <2>1, <2>3, <2>4 DEF RefsCounted
<1>2. ASSUME NEW e \in Ents,
             Remove(e) \/ RemoveNext(e) \/ Rundown(e) \/ Drained(e) \/ (\E p \in Users : CloseOne(e, p))
      PROVE  RefsCounted'
  BY <1>0, <1>2, RefsKept
     DEF Remove, RemoveNext, Children, Rundown, Drained, CloseOne, Known, TypeOK
<1>3. ASSUME NEW e \in Ents, CloseDone(e) PROVE RefsCounted'
  BY <1>0, <1>3, RefsKept DEF CloseDone, Known, TypeOK
<1>4. ASSUME NEW e \in Ents, Removed(e) PROVE RefsCounted'
  <2>1. \A d \in Ents : Known(d)' = Known(d)
    BY <1>4 DEF Removed, Known
  <2>2. count[e] = Cardinality(Known(e)) + 1
    BY <1>4 DEF Removed, RefsCounted
  <2>3. /\ count'[e] = Cardinality(Known(e))
        /\ life'[e] = IF count'[e] = 0 THEN "absent" ELSE "removed"
        /\ \A d \in Ents \ {e} : life'[d] = life[d] /\ count'[d] = count[d]
    BY <1>4, <2>2, UsersFinite DEF Removed, Put, TypeOK
  <2> QED  BY <2>1, <2>3, UsersFinite DEF RefsCounted
<1>5. ASSUME NEW p \in Users, NEW e \in Ents, Lookup(p, e) PROVE RefsCounted'
  <2>1. Known(e)' = Known(e) \cup {p} /\ p \notin Known(e)
    BY <1>5, Null DEF Lookup, Goto, Known, TypeOK, OpenersConsistent
  <2>2. \A d \in Ents \ {e} : Known(d)' = Known(d) /\ count'[d] = count[d]
    BY <1>5, Null DEF Lookup, Goto, Known, TypeOK, OpenersConsistent
  <2>3. Cardinality(Known(e)') = Cardinality(Known(e)) + 1
    BY <2>1, UsersFinite, FS_AddElement
  <2>4. count'[e] = count[e] + 1 /\ life[e] = "linked" /\ life' = life
    BY <1>5 DEF Lookup, TypeOK
  <2> QED  BY <2>1, <2>2, <2>3, <2>4, UsersFinite DEF RefsCounted, TypeOK
<1>6. ASSUME NEW p \in Users, Evict(p) PROVE RefsCounted'
  <2>1. PICK e \in Ents : e = ent[p]
    BY <1>6, WithEntry DEF Evict, Goto
  <2>2. p \in Known(e) /\ Known(e)' = Known(e) \ {p}
    BY <1>6, <2>1, Null DEF Evict, Known, TypeOK
  <2>3. \A d \in Ents \ {e} : Known(d)' = Known(d) /\ count'[d] = count[d] /\ life'[d] = life[d]
    BY <1>6, <2>1, Null DEF Evict, Put, Known, TypeOK
  <2>4. /\ Cardinality(Known(e)') = Cardinality(Known(e)) - 1
        /\ Cardinality(Known(e)') \in Nat
        /\ Cardinality(Known(e)') = 0 <=> Known(e)' = {}
    BY <2>2, UsersFinite, FS_RemoveElement, FS_CardinalityType, FS_EmptySet
  <2>5. life[e] # "absent"
    BY <2>2 DEF RefsCounted
  <2>6. count'[e] = count[e] - 1
    BY <1>6, <2>1 DEF Evict, Put, TypeOK
  <2>7. life'[e] = IF count'[e] = 0 THEN "absent" ELSE life[e]
    BY <1>6, <2>1 DEF Evict, TypeOK
  <2>8. CASE life[e] = "removed"
    <3>1. count'[e] = Cardinality(Known(e)')
      BY <2>4, <2>6, <2>8, UsersFinite DEF RefsCounted
    <3> QED  BY <2>3, <2>4, <2>7, <2>8, <3>1 DEF RefsCounted
  <2>9. CASE life[e] # "removed"
    <3>1. count'[e] = Cardinality(Known(e)') + 1
      BY <2>4, <2>5, <2>6, <2>9, UsersFinite DEF RefsCounted
    <3>2. life'[e] = life[e]
      BY <2>4, <2>7, <3>1
    <3> QED  BY <2>3, <2>5, <2>9, <3>1, <3>2 DEF RefsCounted
  <2> QED  BY <2>8, <2>9
<1>7. ASSUME NEW p \in Users, User(p), ~Evict(p), \A e \in Ents : ~Lookup(p, e)
      PROVE  RefsCounted'
  <2>1. UNCHANGED <<count, ent>>
    BY <1>7 DEF User, Return, Open, Call, Use, OpenReturns, OpenFails, OpenDone, CallReturns,
                Leave, Close, CloseReturns
  <2>2. UNCHANGED life \/ CloseReturns(p)
    BY <1>7 DEF User, Return, Open, Call, Use, OpenReturns, OpenFails, OpenDone, CallReturns,
                Leave, Close
  <2>3. CloseReturns(p) /\ closer[ent[p]] = p => life[ent[p]] = "waiting"
    BY WithEntry, Null DEF CloseReturns, Goto, OpenersConsistent
  <2> QED  BY <1>0, <2>1, <2>2, <2>3, RefsKept DEF CloseReturns, Known, TypeOK
<1> QED
  BY <1>1, <1>2, <1>3, <1>4, <1>5, <1>6, <1>7 DEF Next, Removal

-----------------------------------------------------------------------------
\* The files stay on the lists of their entries, and are released by one at a time.
LEMMA OpenersStep == Consistent /\ Next => OpenersConsistent'
<1> SUFFICES ASSUME Consistent, Next PROVE OpenersConsistent'
  OBVIOUS
<1> USE DEF Consistent, IInv
<1>1. ASSUME NEW e \in Ents, Create(e) PROVE OpenersConsistent'
  BY <1>1, Null DEF Create, OpenersConsistent, TypeOK, Going
<1>2. ASSUME NEW e \in Ents, Remove(e) \/ RemoveNext(e) PROVE OpenersConsistent'
  BY <1>2, Null DEF Remove, RemoveNext, Children, OpenersConsistent, TypeOK, Going
<1>3. ASSUME NEW e \in Ents, Rundown(e) \/ Drained(e) PROVE OpenersConsistent'
  BY <1>3, Null DEF Rundown, Drained, OpenersConsistent, TypeOK, Going
<1>4. ASSUME NEW e \in Ents, NEW p \in Users, CloseOne(e, p) PROVE OpenersConsistent'
  <2>1. Inside(e) = {}
    BY <1>4 DEF CloseOne, UseCounted, Going
  <2>2. pc[p] # "opened"
    BY <1>4, <2>1 DEF CloseOne, Inside, OpenersConsistent
  <2> QED  BY <1>4, <2>2, Null DEF CloseOne, OpenersConsistent, TypeOK, Going
<1>5. ASSUME NEW e \in Ents, CloseDone(e) PROVE OpenersConsistent'
  BY <1>5, Null DEF CloseDone, Drop, OpenersConsistent, TypeOK, Going
<1>6. ASSUME NEW e \in Ents, Removed(e) PROVE OpenersConsistent'
  BY <1>6, Null DEF Removed, OpenersConsistent, TypeOK, Going
<1>7. ASSUME NEW p \in Users, NEW e \in Ents, Lookup(p, e) PROVE OpenersConsistent'
  BY <1>7, Null DEF Lookup, Goto, OpenersConsistent, TypeOK, Going
<1>8. ASSUME NEW p \in Users, Evict(p) PROVE OpenersConsistent'
  <2>1. PICK e \in Ents : e = ent[p]
    BY <1>8, WithEntry DEF Evict, Goto
  <2>2. p \in Known(e) /\ Cardinality(Known(e)) \in Nat \ {0}
    BY <2>1, UsersFinite DEF Known
  <2>3. count'[e] = 0 => life[e] \in {"absent", "removed"}
    BY <1>8, <2>1, <2>2 DEF Evict, Put, RefsCounted, TypeOK
  <2>4. life' = life \/ (life[e] \in {"absent", "removed"} /\ life' = [life EXCEPT ![e] = "absent"])
    BY <1>8, <2>1, <2>3 DEF Evict
  <2>5. pc[p] = "found" /\ pc' = [pc EXCEPT ![p] = "user"] /\ ent' = [ent EXCEPT ![p] = NULL]
        /\ UNCHANGED <<openers, closing, closer>>
    BY <1>8 DEF Evict, Goto
  <2> QED  BY <2>1, <2>4, <2>5, Null DEF OpenersConsistent, TypeOK, Going
<1>9. ASSUME NEW p \in Users, Open(p) \/ Call(p) PROVE OpenersConsistent'
  BY <1>9, Null DEF Open, Call, Use, Goto, OpenersConsistent, TypeOK, Going
<1>10. ASSUME NEW p \in Users, OpenReturns(p) PROVE OpenersConsistent'
  <2>1. PICK e \in Ents : e = ent[p]
    BY <1>10, WithEntry DEF OpenReturns, Goto
  <2>2. p \in Inside(e) /\ p \in Known(e)
    BY <1>10, <2>1 DEF OpenReturns, Goto, Inside, Known
  <2>3. life[e] \in {"linked", "erased", "draining"}
    BY <2>2 DEF UseCounted, RefsCounted, TypeOK, Going
  <2> QED  BY <1>10, <2>1, <2>3, Null DEF OpenReturns, Goto, OpenersConsistent, TypeOK, Going
<1>11. ASSUME NEW p \in Users, OpenFails(p) \/ OpenDone(p) \/ CallReturns(p)
       PROVE  OpenersConsistent'
  BY <1>11, Null DEF OpenFails, OpenDone, CallReturns, Leave, Goto, OpenersConsistent, TypeOK, Going
<1>12. ASSUME NEW p \in Users, Close(p) PROVE OpenersConsistent'
  BY <1>12, Null DEF Close, Goto, OpenersConsistent, TypeOK, Going
<1>13. ASSUME NEW p \in Users, CloseReturns(p) PROVE OpenersConsistent'
  BY <1>13, Null DEF CloseReturns, Goto, Drop, OpenersConsistent, TypeOK, Going
<1> QED
  BY <1>1, <1>2, <1>3, <1>4, <1>5, <1>6, <1>7, <1>8, <1>9, <1>10, <1>11, <1>12, <1>13
     DEF Next, Removal, User, Return

\* A file that is opened is released by the close or by the removal, not by both.
LEMMA ReleasedStep == Consistent /\ Next => ReleasedOnce'
<1> SUFFICES ASSUME Consistent, Next PROVE ReleasedOnce'
  OBVIOUS
<1> USE DEF Consistent, IInv
<1>1. ASSUME UNCHANGED <<openers, closing, pc, ent, releases>>,
             \A e \in Ents : life'[e] = "releasing" => life[e] = "releasing" /\ closer'[e] = closer[e]
      PROVE  ReleasedOnce'
  BY <1>1 DEF ReleasedOnce
<1>2. ASSUME NEW e \in Ents,
             Create(e) \/ Remove(e) \/ RemoveNext(e) \/ Rundown(e) \/ Drained(e) \/ Removed(e)
      PROVE  ReleasedOnce'
  BY <1>1, <1>2 DEF Create, Remove, RemoveNext, Children, Rundown, Drained, Removed, TypeOK
<1>3. ASSUME NEW e \in Ents, NEW p \in Users, CloseOne(e, p) PROVE ReleasedOnce'
  <2>1. Inside(e) = {}
    BY <1>3 DEF CloseOne, UseCounted, Going
  <2>2. pc[p] \notin {"opening", "opened", "calling"} /\ ent[p] = e /\ e \in Releasing
    BY <1>3, <2>1 DEF CloseOne, Inside, OpenersConsistent
  <2>3. p \notin closing => releases[p] = 0 /\ pc[p] = "open"
    BY <1>3, <2>2 DEF CloseOne, ReleasedOnce, OpenersConsistent
  <2> QED  BY <1>3, <2>2, <2>3 DEF CloseOne, OpenersConsistent, ReleasedOnce, TypeOK, Going
<1>4. ASSUME NEW e \in Ents, CloseDone(e) PROVE ReleasedOnce'
  BY <1>4, Null DEF CloseDone, Drop, OpenersConsistent, ReleasedOnce, TypeOK, Going
<1>5. ASSUME NEW p \in Users, NEW e \in Ents, Lookup(p, e) PROVE ReleasedOnce'
  BY <1>5, Null DEF Lookup, Goto, OpenersConsistent, ReleasedOnce, TypeOK
<1>6. ASSUME NEW p \in Users, Evict(p) PROVE ReleasedOnce'
  BY <1>6, Null DEF Evict, Goto, OpenersConsistent, ReleasedOnce, TypeOK
<1>7. ASSUME NEW p \in Users, Open(p) \/ Call(p) PROVE ReleasedOnce'
  <2>1. PICK e \in Ents : e = ent[p]
    BY <1>7, WithEntry DEF Open, Call, Use, Goto
  <2>2. in_use[e] >= 0
    BY <1>7, <2>1 DEF Open, Call, Use
  <2>3. life[e] # "releasing"
    BY <2>2, UsersFinite DEF UseCounted, Going
  <2> QED  BY <1>7, <2>1, <2>3 DEF Open, Call, Use, Goto, OpenersConsistent, ReleasedOnce, TypeOK
<1>8. ASSUME NEW p \in Users, OpenReturns(p) PROVE ReleasedOnce'
  BY <1>8, WithEntry DEF OpenReturns, Goto, OpenersConsistent, ReleasedOnce, TypeOK
<1>9. ASSUME NEW p \in Users, OpenFails(p) \/ OpenDone(p) \/ CallReturns(p)
      PROVE  ReleasedOnce'
  BY <1>9 DEF OpenFails, OpenDone, CallReturns, Leave, Goto, OpenersConsistent, ReleasedOnce, TypeOK
<1>10. ASSUME NEW p \in Users, Close(p) PROVE ReleasedOnce'
  BY <1>10 DEF Close, Goto, OpenersConsistent, ReleasedOnce, TypeOK
<1>11. ASSUME NEW p \in Users, CloseReturns(p) PROVE ReleasedOnce'
  BY <1>11, Null DEF CloseReturns, Goto, Drop, OpenersConsistent, ReleasedOnce, TypeOK
<1> QED
  BY <1>2, <1>3, <1>4, <1>5, <1>6, <1>7, <1>8, <1>9, <1>10, <1>11
     DEF Next, Removal, User, Return

\* Every step preserves the invariants.
LEMMA NextInv == Consistent /\ [Next]_vars => Consistent'
<1> SUFFICES ASSUME Consistent, [Next]_vars PROVE Consistent'
  OBVIOUS
<1>1. CASE Next
  BY <1>1, TypeStep, UseStep, RefsStep, OpenersStep, ReleasedStep DEF Consistent, IInv
<1>2. CASE UNCHANGED vars
  <2>1. \A e : Inside(e)' = Inside(e) /\ Known(e)' = Known(e)
    BY <1>2 DEF vars, Inside, Known
  <2>2. TypeOK' /\ UseCounted' /\ RefsCounted'
    BY <1>2, <2>1 DEF vars, Consistent, IInv, TypeOK, UseCounted, RefsCounted
  <2>3. OpenersConsistent' /\ ReleasedOnce'
    BY <1>2 DEF vars, Consistent, IInv, OpenersConsistent, ReleasedOnce
  <2> QED  BY <2>2, <2>3 DEF Consistent, IInv
<1> QED  BY <1>1, <1>2

\* fs/proc, any entries and processes: in_use and the references are counted right,
\* files are on the lists of their entries, and each is released once.
THEOREM Invariance == Spec => []Consistent
BY InitInv, NextInv, PTL DEF Spec

\* A process in a handler is counted in in_use, or has its file on the list of its
\* entry: in both cases the removal of the entry is not over.
LEMMA HandlerKept == Consistent => NoCallIntoGone
<1> SUFFICES ASSUME Consistent, NEW p \in Users, pc[p] \in Handler
             PROVE  life[ent[p]] \notin {"absent", "removed"}
  BY DEF NoCallIntoGone
<1> USE DEF Consistent, IInv
<1>1. ent[p] \in Ents
  BY WithEntry DEF Handler
<1>2. CASE pc[p] \in {"opening", "calling"}
  BY <1>1, <1>2 DEF UseCounted, RefsCounted, Inside, Known, Going
<1>3. CASE pc[p] = "releasing"
  BY <1>1, <1>3 DEF OpenersConsistent, Going
<1> QED  BY <1>2, <1>3 DEF Handler

\* fs/proc, any entries and processes: when the removal of an entry is over, no
\* process is in a handler of the module that created it.
THEOREM NoCallLeft == Spec => []NoCallIntoGone
BY Invariance, HandlerKept, PTL

-----------------------------------------------------------------------------
\* A step of insmod, rmmod, or of what goes on under the drivers, is a step of
\* ProcEntries or leaves it alone.
LEMMA ModulesStep == drivers \subseteq Drivers /\ [ModulesNext]_allVars => [Next]_vars
<1> SUFFICES ASSUME drivers \subseteq Drivers, [ModulesNext]_allVars PROVE [Next]_vars
  OBVIOUS
<1>1. ASSUME Kernel \/ Going_on PROVE Next
  BY <1>1, Own DEF Kernel, Going_on, Next
<1>2. ASSUME NEW d \in Drivers, insmod(d) \/ rmmod(d) PROVE UNCHANGED vars
  BY <1>2 DEF insmod, rmmod
<1>3. ASSUME NEW d \in Drivers, Step(d) PROVE [Next]_vars
  <2>1. d \in Ents
    BY Own
  <2>2. CASE CreateEntry(d)
    BY <2>1, <2>2 DEF CreateEntry, Next
  <2>3. CASE RemoveEntry(d)
    BY <2>1, <2>3 DEF RemoveEntry, Next
  <2>4. CASE \/ CreateFails(d) \/ EntryRemoved(d) \/ Register(d) \/ RegisterFails(d)
             \/ Unregister(d) \/ Kmalloc(d) \/ Finish(d) \/ Unload(d)
    BY <2>4 DEF CreateFails, EntryRemoved, Register, RegisterFails, Unregister, Kmalloc,
                Finish, Unload
  <2> QED  BY <1>3, <2>2, <2>3, <2>4 DEF Step
<1>4. ASSUME Misread PROVE UNCHANGED vars
  BY <1>4 DEF Misread
<1>5. CASE UNCHANGED allVars
  BY <1>5 DEF allVars
<1> QED  BY <1>1, <1>2, <1>3, <1>4, <1>5 DEF ModulesNext

\* The drivers in use are some of those there are, and stay the same.
LEMMA DriversKept ==
    /\ ModulesInit => drivers \subseteq Drivers
    /\ drivers \subseteq Drivers /\ [ModulesNext]_allVars => (drivers \subseteq Drivers)'
<1>1. ModulesInit => drivers \subseteq Drivers
  BY DEF ModulesInit, Drivers
<1>2. drivers \subseteq Drivers /\ [ModulesNext]_allVars => UNCHANGED drivers
  <2>1. ((Kernel \/ Going_on) /\ UNCHANGED modules) \/ UNCHANGED allVars
          => UNCHANGED drivers
    BY DEF modules, allVars
  <2>2. \A d \in Drivers : insmod(d) \/ rmmod(d) => UNCHANGED drivers
    BY DEF insmod, rmmod
  <2>3. \A d \in Drivers : Step(d) => UNCHANGED drivers
    <3>1. \A d \in Drivers : CreateEntry(d) \/ CreateFails(d) \/ RemoveEntry(d)
                             \/ EntryRemoved(d) \/ Register(d) => UNCHANGED drivers
      BY DEF CreateEntry, CreateFails, RemoveEntry, EntryRemoved, Register
    <3>2. \A d \in Drivers : RegisterFails(d) \/ Unregister(d) \/ Kmalloc(d)
                             \/ Finish(d) \/ Unload(d) => UNCHANGED drivers
      BY DEF RegisterFails, Unregister, Kmalloc, Finish, Unload
    <3> QED  BY <3>1, <3>2 DEF Step
  <2>4. Misread => UNCHANGED drivers
    BY DEF Misread
  <2> QED  BY <2>1, <2>2, <2>3, <2>4 DEF ModulesNext
<1> QED  BY <1>1, <1>2

\* insmod and rmmod of the repository's drivers keep to the rules of ProcEntries.
THEOREM ModulesRefine == ModulesSpec => Spec
<1>1. ModulesInit => Init
  BY DEF ModulesInit
<1> QED  BY <1>1, ModulesStep, DriversKept, PTL DEF ModulesSpec, Spec

\* The drivers in fs/proc, any processes that use them: the counts of every entry are
\* right, each file is released once, and no process is in a driver's code when the
\* entry that led to it has been removed.
THEOREM ModulesSafe == ModulesSpec => []Consistent /\ []NoCallIntoGone
BY ModulesRefine, Invariance, NoCallLeft, PTL

-----------------------------------------------------------------------------
\* What may be left to do of each driver.
Plan(d) ==
    CASE d = "linked" ->
           {<<>>, <<"create", "register", "in">>, <<"register", "in">>, <<"in">>,
            <<"unregister", "in">>, <<"unregister", "out">>,
            <<"unregister", "remove", "wait", "out">>, <<"remove", "wait", "out">>,
            <<"remove", "wait", "unregister", "out">>, <<"wait", "unregister", "out">>,
            <<"wait", "out">>, <<"out">>}
      [] d = "circular" ->
           {<<>>, <<"register", "create", "kmalloc", "in">>, <<"create", "kmalloc", "in">>,
            <<"kmalloc", "in">>, <<"in">>, <<"remove", "wait", "unregister", "out">>,
            <<"wait", "unregister", "out">>, <<"unregister", "out">>, <<"out">>}
      [] d = "simple" ->
           {<<>>, <<"register", "in">>, <<"in">>, <<"unregister", "out">>, <<"out">>}
      [] d = "broken" ->
           {<<>>, <<"create", "register", "kmalloc", "in">>, <<"register", "kmalloc", "in">>,
            <<"kmalloc", "in">>, <<"register", "in">>, <<"in">>, <<"unregister", "out">>,
            <<"unregister", "remove", "wait", "out">>, <<"remove", "wait", "out">>,
            <<"wait", "out">>, <<"out">>,
            <<"unregister", "remove", "wait">>, <<"remove", "wait">>, <<"wait">>}
Misreading == {<<"unregister", "remove", "wait">>, <<"remove", "wait">>, <<"wait">>}

ModulesTypeOK ==
    /\ drivers \subseteq Drivers /\ loaded \subseteq Drivers /\ proc_entry \subseteq Drivers
    /\ version \in {"broken", "oops", "example"}
    /\ todo = [d \in Drivers |-> todo[d]] /\ \A d \in Drivers : todo[d] \in Plan(d)
    /\ owner \in [{198, 199, 899} -> Drivers \cup {NULL}]
    /\ \A m \in {198, 199, 899} : owner[m] = NULL \/ Major[owner[m]] = m
    /\ foreign \subseteq {"linked", "circular"} /\ left \subseteq {"broken"}
    /\ starved \in BOOLEAN /\ misread \in BOOLEAN /\ damaged \in BOOLEAN

\* An entry is only on its way out while its driver waits for it.
InRemoval == Going \cup {"erased"}
Waited    == {<<"wait", "unregister", "out">>, <<"wait", "out">>, <<"wait">>}
RemovalWaited(d) == life[d] \in InRemoval => d \in proc_entry /\ todo[d] \in Waited

\* A pointer to an entry is right, but for a read without memory that removed it,
\* until a removal that the driver is about to end.
BeyondRemove == {<<"wait", "unregister", "out">>, <<"unregister", "out">>,
                 <<"wait", "out">>, <<"out">>}
PointerRight(d) ==
    d \in proc_entry /\ ~misread => life[d] = "linked" \/ todo[d] \in BeyondRemove

\* What a driver other than broken has made, it undoes: its number, and its entry.
Running(d) == d \in loaded /\ todo[d] = <<>>
Owning     == {<<"create", "kmalloc", "in">>, <<"kmalloc", "in">>, <<"in">>,
               <<"remove", "wait", "unregister", "out">>, <<"wait", "unregister", "out">>,
               <<"unregister", "out">>, <<"unregister", "in">>,
               <<"unregister", "remove", "wait", "out">>}
Having     == {<<"register", "in">>, <<"in">>, <<"kmalloc", "in">>,
               <<"remove", "wait", "unregister", "out">>, <<"remove", "wait", "out">>,
               <<"unregister", "remove", "wait", "out">>}
NumberUndone(d) == d # "broken" /\ owner[Major[d]] = d => Running(d) \/ todo[d] \in Owning
EntryUndone(d)  == d # "broken" /\ life[d] = "linked" =>
                       d \in proc_entry /\ (Running(d) \/ todo[d] \in Having)

DriverOK(d) == RemovalWaited(d) /\ PointerRight(d) /\ NumberUndone(d) /\ EntryUndone(d)

\* broken may not, but then it is known; and what a read without memory has begun ends
\* before its rmmod.
BrokenOK == /\ "broken" \notin loaded /\ todo["broken"] = <<>> /\ "broken" \notin left =>
                  owner[899] # "broken" /\ life["broken"] # "linked"
            /\ todo["broken"] \in Misreading => misread /\ "broken" \in loaded
            /\ todo["broken"] = <<"create", "register", "kmalloc", "in">> => version # "example"

\* As long as there was memory and linked has taken nobody's number away, circular has
\* its own from its registration to its end.
Holding == {<<"create", "kmalloc", "in">>, <<"kmalloc", "in">>, <<"in">>,
            <<"remove", "wait", "unregister", "out">>, <<"wait", "unregister", "out">>,
            <<"unregister", "out">>}
NumberKept == ~starved /\ "linked" \notin foreign =>
                    /\ Running("circular") \/ todo["circular"] \in Holding
                          => owner[199] = "circular"
                    /\ foreign = {}

DriversConsistent == /\ ModulesTypeOK /\ \A d \in Drivers : DriverOK(d)
                     /\ BrokenOK /\ NumberKept
                     /\ "simple" \notin proc_entry /\ (damaged => misread)

-----------------------------------------------------------------------------
\* The first element of a sequence written out, and the others.
LEMMA Tuples ==
    \A a, b, c, d : /\ Head(<<a, b, c, d>>) = a /\ Tail(<<a, b, c, d>>) = <<b, c, d>>
                    /\ Head(<<a, b, c>>) = a /\ Tail(<<a, b, c>>) = <<b, c>>
                    /\ Head(<<a, b>>) = a /\ Tail(<<a, b>>) = <<b>>
                    /\ Head(<<a>>) = a /\ Tail(<<a>>) = <<>>
OBVIOUS

\* The plans of the drivers, each without its first step.
LEMMA Tails ==
    /\ Tail(<<"create", "register", "in">>) = <<"register", "in">>
    /\ Tail(<<"create", "kmalloc", "in">>) = <<"kmalloc", "in">>
    /\ Tail(<<"create", "register", "kmalloc", "in">>) = <<"register", "kmalloc", "in">>
    /\ Tail(<<"register", "create", "kmalloc", "in">>) = <<"create", "kmalloc", "in">>
    /\ Tail(<<"register", "kmalloc", "in">>) = <<"kmalloc", "in">>
    /\ Tail(<<"register", "in">>) = <<"in">> /\ Tail(<<"kmalloc", "in">>) = <<"in">>
    /\ Tail(<<"in">>) = <<>> /\ Tail(<<"out">>) = <<>> /\ Tail(<<"wait">>) = <<>>
    /\ Tail(<<"unregister", "remove", "wait", "out">>) = <<"remove", "wait", "out">>
    /\ Tail(<<"unregister", "remove", "wait">>) = <<"remove", "wait">>
    /\ Tail(<<"unregister", "out">>) = <<"out">> /\ Tail(<<"unregister", "in">>) = <<"in">>
    /\ Tail(<<"remove", "wait", "unregister", "out">>) = <<"wait", "unregister", "out">>
    /\ Tail(<<"remove", "wait", "out">>) = <<"wait", "out">>
    /\ Tail(<<"remove", "wait">>) = <<"wait">>
    /\ Tail(<<"wait", "unregister", "out">>) = <<"unregister", "out">>
    /\ Tail(<<"wait", "out">>) = <<"out">>
BY Tuples

\* Which plans begin with each step.
LEMMA AtStep ==
    ASSUME ModulesTypeOK, NEW d \in Drivers
    PROVE  /\ Doing(d, "create") =>
                \/ d = "linked" /\ todo[d] = <<"create", "register", "in">>
                \/ d = "circular" /\ todo[d] = <<"create", "kmalloc", "in">>
                \/ d = "broken" /\ todo[d] = <<"create", "register", "kmalloc", "in">>
           /\ Doing(d, "register") =>
                \/ d \in {"linked", "simple", "broken"} /\ todo[d] = <<"register", "in">>
                \/ d = "circular" /\ todo[d] = <<"register", "create", "kmalloc", "in">>
                \/ d = "broken" /\ todo[d] = <<"register", "kmalloc", "in">>
           /\ Doing(d, "kmalloc") =>
                d \in {"circular", "broken"} /\ todo[d] = <<"kmalloc", "in">>
           /\ Doing(d, "in") => todo[d] = <<"in">>
           /\ Doing(d, "remove") =>
                \/ d \in {"linked", "circular"} /\ todo[d] = <<"remove", "wait", "unregister", "out">>
                \/ d \in {"linked", "broken"} /\ todo[d] = <<"remove", "wait", "out">>
                \/ d = "broken" /\ todo[d] = <<"remove", "wait">>
           /\ Doing(d, "wait") =>
                \/ d \in {"linked", "circular"} /\ todo[d] = <<"wait", "unregister", "out">>
                \/ d \in {"linked", "broken"} /\ todo[d] = <<"wait", "out">>
                \/ d = "broken" /\ todo[d] = <<"wait">>
           /\ Doing(d, "unregister") =>
                \/ d = "linked" /\ todo[d] = <<"unregister", "in">>
                \/ todo[d] = <<"unregister", "out">>
                \/ d \in {"linked", "broken"} /\ todo[d] = <<"unregister", "remove", "wait", "out">>
                \/ d = "broken" /\ todo[d] = <<"unregister", "remove", "wait">>
           /\ Doing(d, "out") => todo[d] = <<"out">>
<1>1. todo[d] \in Plan(d)
  BY DEF ModulesTypeOK
<1>2. CASE d = "linked"
  BY <1>1, <1>2, Tuples DEF Plan, Doing
<1>3. CASE d = "circular"
  BY <1>1, <1>3, Tuples DEF Plan, Doing
<1>4. CASE d = "simple"
  BY <1>1, <1>4, Tuples DEF Plan, Doing
<1>5. CASE d = "broken"
  BY <1>1, <1>5, Tuples DEF Plan, Doing
<1> QED  BY <1>2, <1>3, <1>4, <1>5 DEF Drivers

\* A removal goes on through its stages; otherwise the entries of the drivers are left
\* alone until the last process that knew one lets go of it.
LEMMA LifeStep ==
    ASSUME Consistent, NEW d \in Drivers, Kernel \/ Going_on
    PROVE  \/ life'[d] = life[d]
           \/ life[d] \in InRemoval /\ life'[d] \in Going \cup {"absent", "removed"}
           \/ life[d] = "removed" /\ life'[d] = "absent"
<1> USE DEF Consistent, IInv, TypeOK, InRemoval, Going
<1>1. d \in Ents /\ Dir[d] = Root /\ Root \notin Ents /\ NULL \notin Users
  BY Own, Tree, Null
<1>2. ASSUME NEW e \in Ents \ Drivers, Create(e) \/ Remove(e) PROVE life'[d] = life[d]
  BY <1>1, <1>2 DEF Create, Remove, Children
<1>3. ASSUME NEW e \in Ents, Removal(e)
      PROVE  \/ life'[d] = life[d]
             \/ life[d] \in InRemoval /\ life'[d] \in Going \cup {"absent", "removed"}
  <2>1. CASE RemoveNext(e)
    BY <1>1, <2>1 DEF RemoveNext, Children
  <2>2. CASE Rundown(e)
    BY <1>1, <2>2 DEF Rundown
  <2>3. CASE Drained(e)
    BY <1>1, <2>3 DEF Drained
  <2>4. CASE \E p \in Users : CloseOne(e, p)
    BY <1>1, <2>4 DEF CloseOne
  <2>5. CASE CloseDone(e)
    BY <1>1, <2>5 DEF CloseDone
  <2>6. CASE Removed(e)
    BY <1>1, <2>6 DEF Removed
  <2> QED  BY <1>3, <2>1, <2>2, <2>3, <2>4, <2>5, <2>6 DEF Removal
<1>4. ASSUME NEW p \in Users, User(p)
      PROVE  \/ life'[d] = life[d]
             \/ life[d] \in InRemoval /\ life'[d] = "closing"
             \/ life[d] = "removed" /\ life'[d] = "absent"
  <2>1. CASE Evict(p)
    <3> DEFINE e == ent[p]
    <3>1. e \in Ents /\ p \in Known(e)
      BY <2>1, WithEntry DEF Evict, Goto, Known
    <3>2. Cardinality(Known(e)) \in Nat /\ (Cardinality(Known(e)) = 0 <=> Known(e) = {})
      BY UsersFinite
    <3>3. life[e] # "absent" /\ (count[e] - 1 = 0 => life[e] = "removed")
      BY <3>1, <3>2 DEF RefsCounted
    <3> QED  BY <1>1, <2>1, <3>1, <3>3 DEF Evict, Put
  <2>2. CASE CloseReturns(p)
    <3>1. ent[p] \in Ents
      BY <2>2, WithEntry DEF CloseReturns, Goto
    <3>2. closer[ent[p]] = p => life[ent[p]] \in {"releasing", "waiting"}
      BY <1>1, <3>1 DEF OpenersConsistent
    <3> QED  BY <1>1, <2>2, <3>1, <3>2 DEF CloseReturns
  <2>3. CASE \/ (\E e \in Ents : Lookup(p, e)) \/ Open(p) \/ Call(p) \/ Close(p)
             \/ OpenReturns(p) \/ OpenFails(p) \/ OpenDone(p) \/ CallReturns(p)
    BY <2>3 DEF Lookup, Open, Call, Close, OpenReturns, OpenFails, OpenDone, CallReturns, Use,
                Leave
  <2> QED  BY <1>4, <2>1, <2>2, <2>3 DEF User, Return
<1> QED  BY <1>2, <1>3, <1>4, Own DEF Kernel, Going_on

\* The drivers begin with nothing done.
LEMMA DriversInit == ModulesInit => DriversConsistent
<1> SUFFICES ASSUME ModulesInit PROVE DriversConsistent
  OBVIOUS
<1>1. \A d \in Drivers : todo[d] = <<>> /\ life[d] = "absent" /\ owner[Major[d]] = NULL
  BY Own DEF ModulesInit, Init, Major
<1>2. NULL \notin Drivers
  BY Own, Null
<1>3. ModulesTypeOK
  <2>1. \A d \in Drivers : <<>> \in Plan(d)
    BY DEF Plan, Drivers
  <2>2. /\ todo = [d \in Drivers |-> todo[d]] /\ \A d \in Drivers : todo[d] \in Plan(d)
        /\ drivers \subseteq Drivers /\ version \in {"broken", "oops", "example"}
    BY <1>1, <2>1 DEF ModulesInit, Drivers
  <2>3. /\ owner \in [{198, 199, 899} -> Drivers \cup {NULL}]
        /\ \A m \in {198, 199, 899} : owner[m] = NULL
    BY DEF ModulesInit
  <2>4. /\ loaded \subseteq Drivers /\ proc_entry \subseteq Drivers
        /\ foreign \subseteq {"linked", "circular"} /\ left \subseteq {"broken"}
        /\ starved \in BOOLEAN /\ misread \in BOOLEAN /\ damaged \in BOOLEAN
    BY DEF ModulesInit
  <2> QED  BY <2>2, <2>3, <2>4 DEF ModulesTypeOK
<1>4. \A d \in Drivers : DriverOK(d)
  BY <1>1, <1>2 DEF ModulesInit, DriverOK, RemovalWaited, PointerRight, NumberUndone,
                    EntryUndone, InRemoval, Going
<1>5. BrokenOK /\ NumberKept
  BY <1>1, <1>2 DEF ModulesInit, BrokenOK, NumberKept, Misreading, Holding, Running, Drivers
<1> QED  BY <1>3, <1>4, <1>5 DEF DriversConsistent, ModulesInit

\* Drivers that are removed from outside go on to satisfy it.
LEMMA DriversGoOn ==
    ASSUME Consistent, DriversConsistent, Kernel \/ Going_on, UNCHANGED modules
    PROVE  DriversConsistent'
<1> USE DEF modules, hist, DriversConsistent
<1>1. ModulesTypeOK'
  BY DEF ModulesTypeOK
<1>2. ASSUME NEW d \in Drivers PROVE DriverOK(d)'
  <2>1. \/ life'[d] = life[d]
        \/ life[d] \in InRemoval /\ life'[d] \in Going \cup {"absent", "removed"}
        \/ life[d] = "removed" /\ life'[d] = "absent"
    BY LifeStep
  <2>2. DriverOK(d)
    BY <1>2
  <2>3. life[d] \in InRemoval => todo[d] \in BeyondRemove \/ misread
    <3>1. CASE todo[d] = <<"wait">>
      <4>1. Doing(d, "wait")
        BY <3>1, Tuples DEF Doing
      <4>2. d = "broken"
        BY <3>1, <4>1, AtStep
      <4> QED  BY <3>1, <4>2 DEF BrokenOK, Misreading
    <3> QED  BY <2>2, <3>1 DEF DriverOK, RemovalWaited, BeyondRemove, Waited
  <2>4. life'[d] = "linked" => life[d] = "linked"
    BY <2>1 DEF Going
  <2>5. RemovalWaited(d)'
    BY <2>1, <2>2 DEF RemovalWaited, DriverOK, InRemoval, Going
  <2>6. PointerRight(d)'
    BY <2>1, <2>2, <2>3 DEF PointerRight, DriverOK, InRemoval, Going
  <2>7. NumberUndone(d)'
    BY <2>2 DEF NumberUndone, DriverOK, Running
  <2>8. EntryUndone(d)'
    BY <2>2, <2>4 DEF EntryUndone, DriverOK, Running
  <2> QED  BY <2>5, <2>6, <2>7, <2>8 DEF DriverOK
<1>3. BrokenOK'
  BY LifeStep DEF BrokenOK, Drivers, Going, InRemoval
<1>4. NumberKept'
  BY DEF NumberKept, Running
<1> QED  BY <1>1, <1>2, <1>3, <1>4

-----------------------------------------------------------------------------
\* A driver's plan is replaced by another of its plans.
LEMMA NewPlan ==
    ASSUME ModulesTypeOK, NEW d \in Drivers, NEW s \in Plan(d), todo' = [todo EXCEPT ![d] = s]
    PROVE  /\ todo' = [e \in Drivers |-> todo'[e]] /\ \A e \in Drivers : todo'[e] \in Plan(e)
           /\ todo'[d] = s /\ \A e \in Drivers \ {d} : todo'[e] = todo[e]
BY DEF ModulesTypeOK

\* What insmod, rmmod and their steps leave alone of the other drivers.
OthersAlone(d) ==
    /\ \A e \in Drivers \ {d} :
         /\ life'[e] = life[e] /\ todo'[e] = todo[e]
         /\ (e \in loaded' <=> e \in loaded) /\ (e \in proc_entry' <=> e \in proc_entry)
         /\ owner'[Major[e]] = e => owner[Major[e]] = e
         /\ e \in left => e \in left'
    /\ misread' = misread
    /\ d # "broken" => version' = version

\* A driver of whom a step leaves these alone keeps what is known of it.
LEMMA OthersOK ==
    ASSUME DriversConsistent, NEW d \in Drivers, OthersAlone(d)
    PROVE  /\ \A e \in Drivers \ {d} : DriverOK(e)'
           /\ d # "broken" => BrokenOK'
<1>1. ASSUME NEW e \in Drivers \ {d} PROVE DriverOK(e)'
  <2>1. DriverOK(e)
    BY DEF DriversConsistent
  <2> QED  BY <2>1 DEF OthersAlone, DriverOK, RemovalWaited, PointerRight, NumberUndone,
                       EntryUndone, Running
<1>2. ASSUME d # "broken" PROVE BrokenOK'
  <2>1. "broken" \in Drivers \ {d} /\ Major["broken"] = 899
    BY <1>2 DEF Drivers, Major
  <2> QED  BY <1>2, <2>1 DEF OthersAlone, BrokenOK, DriversConsistent
<1> QED  BY <1>1, <1>2

\* insmod.
LEMMA InsmodOK ==
    ASSUME DriversConsistent, NEW d \in Drivers, insmod(d)
    PROVE  DriversConsistent'
<1> USE DEF DriversConsistent
<1>1. PICK v \in Versions(d) : /\ todo' = [todo EXCEPT ![d] = Insert[v]]
                               /\ version' = IF d = "broken" THEN v ELSE version
  BY DEF insmod
<1>2. /\ d \notin loaded /\ todo[d] = <<>> /\ life[d] \in {"absent", "linked"}
      /\ UNCHANGED <<life, drivers, loaded, proc_entry, owner>>
      /\ UNCHANGED <<left, foreign, starved, misread, damaged>>
  BY DEF insmod, vars, hist
<1>3. /\ d = "linked" => Insert[v] = <<"create", "register", "in">>
      /\ d = "circular" => Insert[v] = <<"register", "create", "kmalloc", "in">>
      /\ d = "simple" => Insert[v] = <<"register", "in">>
      /\ d = "broken" => \/ v \in {"broken", "oops"}
                            /\ Insert[v] = <<"create", "register", "kmalloc", "in">>
                         \/ v = "example" /\ Insert[v] = <<"register", "in">>
  BY DEF Versions, Insert, linked_init, circular_init, broken_init, oops_init, example_init,
         simple_init
<1>4. Insert[v] \in Plan(d)
  BY <1>3 DEF Plan, Drivers
<1>5. /\ todo' = [e \in Drivers |-> todo'[e]] /\ \A e \in Drivers : todo'[e] \in Plan(e)
      /\ todo'[d] = Insert[v] /\ \A e \in Drivers \ {d} : todo'[e] = todo[e]
  BY <1>1, <1>4, NewPlan
<1>6. ModulesTypeOK'
  BY <1>1, <1>2, <1>5 DEF ModulesTypeOK, Versions
<1>7. OthersAlone(d)
  BY <1>1, <1>2, <1>5 DEF OthersAlone
<1>8. DriverOK(d)'
  <2>1. DriverOK(d) /\ ~Running(d)
    BY <1>2 DEF Running
  <2>2. todo[d] \notin Owning /\ todo[d] \notin Having /\ todo[d] \notin BeyondRemove
    BY <1>2 DEF Owning, Having, BeyondRemove
  <2> QED  BY <1>2, <2>1, <2>2 DEF DriverOK, RemovalWaited, PointerRight, NumberUndone,
                                   EntryUndone, InRemoval, Going
<1>9. BrokenOK'
  <2>1. CASE d = "broken"
    BY <1>1, <1>2, <1>3, <1>5, <2>1 DEF BrokenOK, Misreading
  <2> QED  BY <1>7, <2>1, OthersOK
<1>10. NumberKept'
  <2>1. CASE d = "circular"
    BY <1>2, <1>3, <1>5, <2>1 DEF NumberKept, Holding, Running
  <2>2. CASE d # "circular"
    BY <1>2, <1>5, <2>2 DEF NumberKept, Holding, Running, Drivers
  <2> QED  BY <2>1, <2>2
<1> QED  BY <1>2, <1>6, <1>7, <1>8, <1>9, <1>10, OthersOK

\* rmmod.
LEMMA RmmodOK ==
    ASSUME DriversConsistent, NEW d \in Drivers, rmmod(d)
    PROVE  DriversConsistent'
<1> USE DEF DriversConsistent
<1>1. /\ d \in loaded /\ todo[d] = <<>> /\ todo' = [todo EXCEPT ![d] = Exit[Of(d)]]
      /\ UNCHANGED <<life, drivers, version, loaded, proc_entry, owner>>
      /\ UNCHANGED <<left, foreign, starved, misread, damaged>>
  BY DEF rmmod, vars, hist
<1>2. /\ d = "linked" => Exit[Of(d)] = <<"unregister", "remove", "wait", "out">>
      /\ d = "circular" => Exit[Of(d)] = <<"remove", "wait", "unregister", "out">>
      /\ d = "simple" => Exit[Of(d)] = <<"unregister", "out">>
      /\ d = "broken" => Exit[Of(d)] \in {<<"unregister", "remove", "wait", "out">>,
                                         <<"unregister", "out">>}
  BY DEF ModulesTypeOK, Of, Exit, linked_exit, circular_exit, broken_exit, oops_exit,
         example_exit, simple_exit
<1>3. Exit[Of(d)] \in Plan(d)
  BY <1>2 DEF Plan, Drivers
<1>4. /\ todo' = [e \in Drivers |-> todo'[e]] /\ \A e \in Drivers : todo'[e] \in Plan(e)
      /\ todo'[d] = Exit[Of(d)] /\ \A e \in Drivers \ {d} : todo'[e] = todo[e]
  BY <1>1, <1>3, NewPlan
<1>5. ModulesTypeOK'
  BY <1>1, <1>4 DEF ModulesTypeOK
<1>6. OthersAlone(d)
  BY <1>1, <1>4 DEF OthersAlone
<1>7. DriverOK(d)'
  <2>1. DriverOK(d) /\ todo[d] \notin Waited /\ todo[d] \notin BeyondRemove
    BY <1>1 DEF Waited, BeyondRemove
  <2>2. d # "broken" => todo'[d] \in Owning
    BY <1>2, <1>4 DEF Owning, Drivers
  <2>3. d \in {"linked", "circular"} => todo'[d] \in Having
    BY <1>2, <1>4 DEF Having
  <2>4. d = "simple" => life[d] # "linked"
    BY <2>1 DEF DriverOK, EntryUndone
  <2> QED  BY <1>1, <2>1, <2>2, <2>3, <2>4 DEF DriverOK, RemovalWaited, PointerRight,
                                               NumberUndone, EntryUndone, Drivers
<1>8. BrokenOK'
  <2>1. CASE d = "broken"
    <3>1. todo'["broken"] \in {<<"unregister", "remove", "wait", "out">>, <<"unregister", "out">>}
      BY <1>2, <1>4, <2>1
    <3> QED  BY <1>1, <2>1, <3>1 DEF BrokenOK, Misreading
  <2> QED  BY <1>6, <2>1, OthersOK
<1>9. NumberKept'
  <2>1. CASE d = "circular"
    BY <1>1, <1>2, <1>4, <2>1 DEF NumberKept, Holding, Running
  <2>2. CASE d # "circular"
    BY <1>1, <1>4, <2>2 DEF NumberKept, Holding, Running, Drivers
  <2> QED  BY <2>1, <2>2
<1> QED  BY <1>1, <1>5, <1>6, <1>7, <1>8, <1>9, OthersOK

\* What a driver goes on with when a step of its *_init has failed.
LEMMA OnFailureIs ==
    ASSUME ModulesTypeOK, BrokenOK, NEW d \in Drivers, NEW memory \in BOOLEAN
    PROVE  /\ Doing(d, "create") =>
                OnFailure(Of(d), Head(todo[d]), memory) =
                    IF d = "linked" THEN <<"unregister", "in">>
                    ELSE IF d = "circular" THEN <<"in">> ELSE <<"register", "kmalloc", "in">>
           /\ Doing(d, "register") =>
                \/ d \in {"simple", "broken"} /\ OnFailure(Of(d), Head(todo[d]), memory) = <<"out">>
                \/ d = "circular" /\ memory /\ OnFailure(Of(d), Head(todo[d]), memory) = <<"out">>
                \/ /\ d = "broken"
                   /\ OnFailure(Of(d), Head(todo[d]), memory) = <<"unregister", "out">>
                \/ /\ d = "linked" \/ (d = "circular" /\ ~memory)
                   /\ OnFailure(Of(d), Head(todo[d]), memory)
                         = <<"remove", "wait", "unregister", "out">>
           /\ Doing(d, "kmalloc") =>
                \/ /\ d = "circular"
                   /\ OnFailure(Of(d), Head(todo[d]), memory)
                         = <<"remove", "wait", "unregister", "out">>
                \/ /\ d = "broken"
                   /\ OnFailure(Of(d), Head(todo[d]), memory)
                         \in {<<"out">>, <<"unregister", "out">>,
                              <<"unregister", "remove", "wait", "out">>}
<1> DEFINE f == OnFailure(Of(d), Head(todo[d]), memory)
<1>1. /\ Of("linked") = "linked" /\ Of("circular") = "circular" /\ Of("simple") = "simple"
      /\ Of("broken") = version /\ version \in {"broken", "oops", "example"}
  BY DEF Of, ModulesTypeOK
<1>2. CASE Doing(d, "create")
  <2>1. Head(todo[d]) = "create"
    BY <1>2 DEF Doing
  <2>2. f = create_err(Of(d))
    BY <2>1 DEF OnFailure
  <2>3. \/ d = "linked"
        \/ d = "circular"
        \/ d = "broken" /\ version \in {"broken", "oops"}
    BY <1>1, <1>2, AtStep DEF BrokenOK
  <2>4. /\ create_err("linked") = <<"unregister", "in">>
        /\ create_err("circular") = <<"in">>
        /\ create_err("broken") = <<"register", "kmalloc", "in">>
        /\ create_err("oops") = <<"register", "kmalloc", "in">>
    BY Tuples DEF create_err, broken_init, oops_init
  <2>5. f = IF d = "linked" THEN <<"unregister", "in">>
            ELSE IF d = "circular" THEN <<"in">> ELSE <<"register", "kmalloc", "in">>
    BY <1>1, <2>2, <2>3, <2>4
  <2> QED  BY <1>2, <2>1, <2>5 DEF Doing
<1>3. CASE Doing(d, "register")
  <2>1. Head(todo[d]) = "register"
    BY <1>3 DEF Doing
  <2>2. /\ f = OnFailure(Of(d), "register", memory)
        /\ OnFailure("linked", "register", memory) = linked_err
        /\ OnFailure("circular", "register", memory) = IF memory THEN <<"out">> ELSE linked_err
        /\ OnFailure("simple", "register", memory) = <<"out">>
        /\ OnFailure("broken", "register", memory) = <<"out">>
        /\ OnFailure("oops", "register", memory) = <<"out">>
        /\ OnFailure("example", "register", memory) = example_exit
    BY <2>1 DEF OnFailure, Exit
  <2> QED  BY <1>1, <1>3, <2>1, <2>2 DEF Doing, example_exit, linked_err, Drivers
<1>4. CASE Doing(d, "kmalloc")
  <2>1. Head(todo[d]) = "kmalloc" /\ d \in {"circular", "broken"}
    BY <1>4, AtStep DEF Doing
  <2>2. /\ f = OnFailure(Of(d), "kmalloc", memory)
        /\ OnFailure("circular", "kmalloc", memory) = linked_err
        /\ OnFailure("broken", "kmalloc", memory) = broken_exit
        /\ OnFailure("oops", "kmalloc", memory) = <<"out">>
        /\ OnFailure("example", "kmalloc", memory) = example_exit
    BY <2>1 DEF OnFailure, Exit
  <2> QED  BY <1>1, <1>4, <2>1, <2>2 DEF Doing, broken_exit, example_exit, linked_err
<1> QED  BY <1>2, <1>3, <1>4

\* A read without memory of /dev/broken.
LEMMA MisreadOK == DriversConsistent /\ Misread => DriversConsistent'
<1> SUFFICES ASSUME DriversConsistent, Misread PROVE DriversConsistent'
  OBVIOUS
<1> USE DEF DriversConsistent
<1> DEFINE s == <<"unregister", "remove", "wait">>
<1>1. /\ "broken" \in loaded /\ todo["broken"] = <<>> /\ todo' = [todo EXCEPT !["broken"] = s]
      /\ UNCHANGED <<life, drivers, version, loaded, proc_entry, owner>>
      /\ UNCHANGED <<left, foreign, damaged>> /\ starved' = TRUE /\ misread' = TRUE
  BY DEF Misread, vars
<1>2. "broken" \in Drivers /\ s \in Plan("broken")
  BY DEF Plan, Drivers
<1>3. /\ todo' = [e \in Drivers |-> todo'[e]] /\ \A e \in Drivers : todo'[e] \in Plan(e)
      /\ todo'["broken"] = s /\ \A e \in Drivers \ {"broken"} : todo'[e] = todo[e]
  BY <1>1, <1>2, NewPlan
<1>4. ModulesTypeOK'
  BY <1>1, <1>3 DEF ModulesTypeOK
<1>5. \A d \in Drivers : DriverOK(d)'
  <2>1. todo["broken"] \notin Waited
    BY <1>1 DEF Waited
  <2> QED  BY <1>1, <1>3, <2>1 DEF DriverOK, RemovalWaited, PointerRight, NumberUndone, EntryUndone,
                              Running
<1>6. BrokenOK'
  BY <1>1, <1>3 DEF BrokenOK, Misreading
<1>7. NumberKept'
  BY <1>1 DEF NumberKept
<1> QED  BY <1>1, <1>4, <1>5, <1>6, <1>7

\* proc_create succeeds.
LEMMA CreateEntryOK ==
    ASSUME Consistent, DriversConsistent, NEW d \in Drivers, CreateEntry(d)
    PROVE  DriversConsistent'
<1> USE DEF DriversConsistent
<1>1. /\ Doing(d, "create") /\ todo' = [todo EXCEPT ![d] = Tail(todo[d])]
      /\ proc_entry' = proc_entry \cup {d}
      /\ UNCHANGED <<drivers, version, loaded, owner, left, foreign, starved, misread, damaged>>
      /\ life' = [life EXCEPT ![d] = "linked"]
  BY DEF CreateEntry, Done, Create, hist
<1>2. life' = [life EXCEPT ![d] = "linked"] /\ life'[d] = "linked"
  BY <1>1, Own DEF Consistent, IInv, TypeOK
<1>3. \/ /\ d = "linked" /\ todo[d] = <<"create", "register", "in">>
         /\ Tail(todo[d]) = <<"register", "in">>
      \/ /\ d = "circular" /\ todo[d] = <<"create", "kmalloc", "in">>
         /\ Tail(todo[d]) = <<"kmalloc", "in">>
      \/ /\ d = "broken" /\ todo[d] = <<"create", "register", "kmalloc", "in">>
         /\ Tail(todo[d]) = <<"register", "kmalloc", "in">>
  BY <1>1, AtStep, Tails
<1>4. Tail(todo[d]) \in Plan(d)
  BY <1>3 DEF Plan
<1>5. /\ todo' = [e \in Drivers |-> todo'[e]] /\ \A e \in Drivers : todo'[e] \in Plan(e)
      /\ todo'[d] = Tail(todo[d]) /\ \A e \in Drivers \ {d} : todo'[e] = todo[e]
  BY <1>1, <1>4, NewPlan
<1>6. ModulesTypeOK'
  BY <1>1, <1>5 DEF ModulesTypeOK
<1>7. OthersAlone(d)
  BY <1>1, <1>2, <1>5, Own DEF OthersAlone
<1>8. DriverOK(d)'
  <2>1. d # "broken" => todo'[d] \in Having
    BY <1>3, <1>5 DEF Having
  <2>2. d # "broken" /\ owner[Major[d]] = d => todo'[d] \in Owning
    <3>1. DriverOK(d)
      OBVIOUS
    <3>2. d = "linked" => ~Running(d) /\ todo[d] \notin Owning
      BY <1>3 DEF Running, Owning
    <3>3. d = "circular" => todo'[d] \in Owning
      BY <1>3, <1>5 DEF Owning
    <3> QED  BY <1>3, <3>1, <3>2, <3>3 DEF DriverOK, NumberUndone
  <2> QED  BY <1>1, <1>2, <2>1, <2>2 DEF DriverOK, RemovalWaited, PointerRight, NumberUndone,
                                         EntryUndone, InRemoval, Going
<1>9. BrokenOK'
  <2>1. CASE d = "broken"
    <3>1. todo'["broken"] = <<"register", "kmalloc", "in">>
      BY <1>3, <1>5, <2>1
    <3> QED  BY <3>1 DEF BrokenOK, Misreading
  <2> QED  BY <1>7, <2>1, OthersOK
<1>10. NumberKept'
  <2>1. CASE d = "circular"
    BY <1>1, <1>3, <1>5, <2>1 DEF NumberKept, Holding, Running
  <2>2. CASE d # "circular"
    BY <1>1, <1>5, <2>2 DEF NumberKept, Holding, Running, Drivers
  <2> QED  BY <2>1, <2>2
<1>11. d # "simple"
  BY <1>3
<1> QED  BY <1>1, <1>6, <1>7, <1>8, <1>9, <1>10, <1>11, OthersOK

\* proc_create fails.
LEMMA CreateFailsOK ==
    ASSUME DriversConsistent, NEW d \in Drivers, CreateFails(d)
    PROVE  DriversConsistent'
<1> USE DEF DriversConsistent
<1> DEFINE s == OnFailure(Of(d), Head(todo[d]), life[d] = "linked")
<1>1. /\ Doing(d, "create") /\ todo' = [todo EXCEPT ![d] = s]
      /\ starved' = (starved \/ life[d] # "linked") /\ proc_entry' = proc_entry \ {d}
      /\ UNCHANGED <<life, drivers, version, loaded, owner, left, foreign, misread, damaged>>
  BY DEF CreateFails, Failed, vars
<1>2. s = IF d = "linked" THEN <<"unregister", "in">>
          ELSE IF d = "circular" THEN <<"in">> ELSE <<"register", "kmalloc", "in">>
  BY <1>1, OnFailureIs
<1>3. \/ d = "linked" /\ todo[d] = <<"create", "register", "in">>
      \/ d = "circular" /\ todo[d] = <<"create", "kmalloc", "in">>
      \/ d = "broken" /\ todo[d] = <<"create", "register", "kmalloc", "in">>
  BY <1>1, AtStep
<1>4. s \in Plan(d)
  BY <1>2, <1>3 DEF Plan
<1>5. /\ todo' = [e \in Drivers |-> todo'[e]] /\ \A e \in Drivers : todo'[e] \in Plan(e)
      /\ todo'[d] = s /\ \A e \in Drivers \ {d} : todo'[e] = todo[e]
  BY <1>1, <1>4, NewPlan
<1>6. ModulesTypeOK'
  BY <1>1, <1>5 DEF ModulesTypeOK
<1>7. OthersAlone(d)
  BY <1>1, <1>5 DEF OthersAlone
<1>8. DriverOK(d)'
  <2>1. /\ DriverOK(d) /\ ~Running(d) /\ todo[d] \notin Having /\ todo[d] \notin Waited
    <3>1. ~Running(d) /\ todo[d] \notin Having /\ todo[d] \notin Waited
      BY <1>3 DEF Running, Having, Waited
    <3> QED  BY <3>1
  <2>2. d # "broken" /\ owner[Major[d]] = d => todo'[d] \in Owning
    <3>1. d = "linked" => todo[d] \notin Owning
      BY <1>3 DEF Owning
    <3>2. d = "circular" => todo'[d] \in Owning
      BY <1>2, <1>5 DEF Owning
    <3> QED  BY <1>3, <2>1, <3>1, <3>2 DEF DriverOK, NumberUndone
  <2> QED  BY <1>1, <2>1, <2>2 DEF DriverOK, RemovalWaited, PointerRight, NumberUndone, EntryUndone
<1>9. BrokenOK'
  <2>1. CASE d = "broken"
    BY <1>1, <1>2, <1>5, <2>1 DEF BrokenOK, Misreading
  <2> QED  BY <1>7, <2>1, OthersOK
<1>10. NumberKept'
  <2>1. CASE d = "circular"
    BY <1>1, <1>2, <1>3, <1>5, <2>1 DEF NumberKept, Holding, Running
  <2>2. CASE d # "circular"
    BY <1>1, <1>5, <2>2 DEF NumberKept, Holding, Running, Drivers
  <2> QED  BY <2>1, <2>2
<1> QED  BY <1>1, <1>6, <1>7, <1>8, <1>9, <1>10, OthersOK

\* proc_remove: the pointer is right unless a read without memory has used it.
LEMMA RemoveEntryOK ==
    ASSUME Consistent, DriversConsistent, NEW d \in Drivers, RemoveEntry(d)
    PROVE  DriversConsistent'
<1> USE DEF DriversConsistent
<1>1. /\ Doing(d, "remove") /\ todo' = [todo EXCEPT ![d] = Tail(todo[d])]
      /\ UNCHANGED <<drivers, version, loaded, proc_entry, owner, left, foreign, starved, misread>>
      /\ damaged' = (damaged \/ (d \in proc_entry /\ life[d] = "absent"))
  BY DEF RemoveEntry, Done
<1>2. /\ d \in proc_entry /\ life[d] = "linked" => life'[d] = "erased"
      /\ ~(d \in proc_entry /\ life[d] = "linked") => life'[d] = life[d]
      /\ \A e \in Drivers \ {d} : life'[e] = life[e]
  BY Own, Tree DEF RemoveEntry, Remove, Children, vars, Consistent, IInv, TypeOK
<1>3. \/ /\ d \in {"linked", "circular"} /\ todo[d] = <<"remove", "wait", "unregister", "out">>
         /\ Tail(todo[d]) = <<"wait", "unregister", "out">>
      \/ /\ d \in {"linked", "broken"} /\ todo[d] = <<"remove", "wait", "out">>
         /\ Tail(todo[d]) = <<"wait", "out">>
      \/ /\ d = "broken" /\ todo[d] = <<"remove", "wait">>
         /\ Tail(todo[d]) = <<"wait">>
  BY <1>1, AtStep, Tails
<1>4. Tail(todo[d]) \in Plan(d)
  BY <1>3 DEF Plan
<1>5. /\ todo' = [e \in Drivers |-> todo'[e]] /\ \A e \in Drivers : todo'[e] \in Plan(e)
      /\ todo'[d] = Tail(todo[d]) /\ \A e \in Drivers \ {d} : todo'[e] = todo[e]
  BY <1>1, <1>4, NewPlan
<1>6. ModulesTypeOK'
  BY <1>1, <1>5 DEF ModulesTypeOK
<1>7. OthersAlone(d)
  BY <1>1, <1>2, <1>5 DEF OthersAlone
<1>8. DriverOK(d) /\ ~Running(d) /\ todo[d] \notin Waited /\ todo[d] \notin BeyondRemove
  <2>1. ~Running(d) /\ todo[d] \notin Waited /\ todo[d] \notin BeyondRemove
    BY <1>3 DEF Running, Waited, BeyondRemove
  <2> QED  BY <2>1
<1>9. todo[d] = <<"remove", "wait">> => misread
  <2>1. todo[d] = <<"remove", "wait">> => d = "broken"
    BY <1>3
  <2> QED  BY <2>1 DEF BrokenOK, Misreading
<1>10. DriverOK(d)'
  <2>1. todo'[d] \in Waited
    BY <1>3, <1>5 DEF Waited
  <2>2. todo'[d] \in BeyondRemove \/ misread
    BY <1>3, <1>5, <1>9 DEF BeyondRemove
  <2>3. d # "broken" /\ owner[Major[d]] = d => todo'[d] \in Owning
    <3>1. CASE todo'[d] = <<"wait", "unregister", "out">>
      BY <3>1 DEF Owning
    <3>2. CASE todo[d] = <<"remove", "wait", "out">>
      BY <1>8, <3>2 DEF DriverOK, NumberUndone, Owning
    <3> QED  BY <1>3, <1>5, <3>1, <3>2
  <2>4. d # "broken" => life'[d] # "linked"
    BY <1>2, <1>8 DEF DriverOK, EntryUndone
  <2> QED  BY <1>1, <1>2, <1>8, <2>1, <2>2, <2>3, <2>4 DEF DriverOK, RemovalWaited, PointerRight,
                                                NumberUndone, EntryUndone
<1>11. BrokenOK'
  <2>1. CASE d = "broken"
    <3>1. todo'["broken"] \in {<<"wait", "out">>, <<"wait">>}
      BY <1>3, <1>5, <2>1
    <3>2. todo["broken"] = <<"remove", "wait">> => misread /\ "broken" \in loaded
      BY DEF BrokenOK, Misreading
    <3>3. todo'["broken"] = <<"wait">> => todo["broken"] = <<"remove", "wait">>
      BY <1>3, <1>5, <2>1
    <3> QED  BY <1>1, <3>1, <3>2, <3>3 DEF BrokenOK, Misreading
  <2> QED  BY <1>7, <2>1, OthersOK
<1>12. NumberKept'
  <2>1. CASE d = "circular"
    BY <1>1, <1>3, <1>5, <2>1 DEF NumberKept, Holding, Running
  <2>2. CASE d # "circular"
    BY <1>1, <1>5, <2>2 DEF NumberKept, Holding, Running, Drivers
  <2> QED  BY <2>1, <2>2
<1>13. damaged' => misread'
  BY <1>1, <1>8 DEF DriverOK, PointerRight
<1> QED  BY <1>1, <1>6, <1>7, <1>10, <1>11, <1>12, <1>13, OthersOK

\* The removal is over: nothing is left of it that the driver would have to wait for.
LEMMA EntryRemovedOK ==
    ASSUME DriversConsistent, NEW d \in Drivers, EntryRemoved(d)
    PROVE  DriversConsistent'
<1> USE DEF DriversConsistent
<1>1. /\ Doing(d, "wait") /\ todo' = [todo EXCEPT ![d] = Tail(todo[d])]
      /\ UNCHANGED <<life, drivers, version, loaded, proc_entry, owner>>
      /\ UNCHANGED <<left, foreign, starved, misread, damaged>>
      /\ d \in proc_entry => life[d] \in {"absent", "removed"}
  BY DEF EntryRemoved, Done, vars, hist
<1>2. \/ /\ d \in {"linked", "circular"} /\ todo[d] = <<"wait", "unregister", "out">>
         /\ Tail(todo[d]) = <<"unregister", "out">>
      \/ /\ d \in {"linked", "broken"} /\ todo[d] = <<"wait", "out">> /\ Tail(todo[d]) = <<"out">>
      \/ /\ d = "broken" /\ todo[d] = <<"wait">> /\ Tail(todo[d]) = <<>>
  BY <1>1, AtStep, Tails
<1>3. Tail(todo[d]) \in Plan(d)
  BY <1>2 DEF Plan
<1>4. /\ todo' = [e \in Drivers |-> todo'[e]] /\ \A e \in Drivers : todo'[e] \in Plan(e)
      /\ todo'[d] = Tail(todo[d]) /\ \A e \in Drivers \ {d} : todo'[e] = todo[e]
  BY <1>1, <1>3, NewPlan
<1>5. ModulesTypeOK'
  BY <1>1, <1>4 DEF ModulesTypeOK
<1>6. OthersAlone(d)
  BY <1>1, <1>4 DEF OthersAlone
<1>7. DriverOK(d) /\ ~Running(d) /\ todo[d] \notin Having
  <2>1. ~Running(d) /\ todo[d] \notin Having
    BY <1>2 DEF Running, Having
  <2> QED  BY <2>1
<1>8. todo[d] = <<"wait">> => misread /\ "broken" \in loaded
  <2>1. todo[d] = <<"wait">> => d = "broken"
    BY <1>2
  <2> QED  BY <2>1 DEF BrokenOK, Misreading
<1>9. DriverOK(d)'
  <2>1. life[d] \notin InRemoval
    BY <1>1, <1>7 DEF DriverOK, RemovalWaited, InRemoval, Going
  <2>2. todo'[d] \in BeyondRemove \/ misread
    BY <1>2, <1>4, <1>8 DEF BeyondRemove
  <2>3. d # "broken" /\ owner[Major[d]] = d => todo'[d] \in Owning
    <3>1. CASE todo'[d] = <<"unregister", "out">>
      BY <3>1 DEF Owning
    <3>2. CASE todo[d] = <<"wait", "out">>
      BY <1>7, <3>2 DEF DriverOK, NumberUndone, Owning
    <3> QED  BY <1>2, <1>4, <3>1, <3>2
  <2>4. d # "broken" => life'[d] # "linked"
    BY <1>1, <1>7 DEF DriverOK, EntryUndone
  <2> QED  BY <1>1, <2>1, <2>2, <2>3, <2>4 DEF DriverOK, RemovalWaited, PointerRight,
                                               NumberUndone, EntryUndone, InRemoval
<1>10. BrokenOK'
  <2>1. CASE d = "broken"
    <3>1. \/ todo'["broken"] = <<"out">>
          \/ todo'["broken"] = <<>> /\ todo["broken"] = <<"wait">>
      BY <1>2, <1>4, <2>1
    <3> QED  BY <1>1, <1>8, <2>1, <3>1 DEF BrokenOK, Misreading
  <2> QED  BY <1>6, <2>1, OthersOK
<1>11. NumberKept'
  <2>1. CASE d = "circular"
    BY <1>1, <1>2, <1>4, <2>1 DEF NumberKept, Holding, Running
  <2>2. CASE d # "circular"
    BY <1>1, <1>4, <2>2 DEF NumberKept, Holding, Running, Drivers
  <2> QED  BY <2>1, <2>2
<1> QED  BY <1>1, <1>5, <1>6, <1>9, <1>10, <1>11, OthersOK

\* register_chrdev succeeds.
LEMMA RegisterOK ==
    ASSUME DriversConsistent, NEW d \in Drivers, Register(d)
    PROVE  DriversConsistent'
<1> USE DEF DriversConsistent
<1>1. /\ Doing(d, "register") /\ todo' = [todo EXCEPT ![d] = Tail(todo[d])]
      /\ UNCHANGED <<life, drivers, version, loaded, proc_entry>>
      /\ UNCHANGED <<left, foreign, starved, misread, damaged>>
      /\ owner[Major[d]] = NULL /\ owner' = [owner EXCEPT ![Major[d]] = d]
  BY DEF Register, Done, vars, hist
<1>2. \/ /\ d \in {"linked", "simple", "broken"} /\ todo[d] = <<"register", "in">>
         /\ Tail(todo[d]) = <<"in">>
      \/ /\ d = "circular" /\ todo[d] = <<"register", "create", "kmalloc", "in">>
         /\ Tail(todo[d]) = <<"create", "kmalloc", "in">>
      \/ /\ d = "broken" /\ todo[d] = <<"register", "kmalloc", "in">>
         /\ Tail(todo[d]) = <<"kmalloc", "in">>
  BY <1>1, AtStep, Tails
<1>3. Tail(todo[d]) \in Plan(d)
  BY <1>2 DEF Plan
<1>4. /\ todo' = [e \in Drivers |-> todo'[e]] /\ \A e \in Drivers : todo'[e] \in Plan(e)
      /\ todo'[d] = Tail(todo[d]) /\ \A e \in Drivers \ {d} : todo'[e] = todo[e]
  BY <1>1, <1>3, NewPlan
<1>5. Major[d] \in {198, 199, 899}
  BY DEF Major
<1>6. ModulesTypeOK'
  BY <1>1, <1>4, <1>5 DEF ModulesTypeOK
<1>7. OthersAlone(d)
  BY <1>1, <1>4, <1>5 DEF OthersAlone, ModulesTypeOK
<1>8. DriverOK(d) /\ ~Running(d) /\ todo[d] \notin Waited /\ todo[d] \notin BeyondRemove
  <2>1. ~Running(d) /\ todo[d] \notin Waited /\ todo[d] \notin BeyondRemove
    BY <1>2 DEF Running, Waited, BeyondRemove
  <2> QED  BY <2>1
<1>9. DriverOK(d)'
  <2>1. d # "broken" => todo'[d] \in Owning
    BY <1>2, <1>4 DEF Owning
  <2>2. d # "broken" /\ life[d] = "linked" => todo'[d] \in Having
    <3>1. d \in {"linked", "simple"} => todo'[d] \in Having
      BY <1>2, <1>4 DEF Having
    <3>2. d = "circular" => todo[d] \notin Having
      BY <1>2 DEF Having
    <3> QED  BY <1>2, <1>8, <3>1, <3>2 DEF DriverOK, EntryUndone
  <2> QED  BY <1>1, <1>8, <2>1, <2>2 DEF DriverOK, RemovalWaited, PointerRight, NumberUndone,
                                         EntryUndone
<1>10. BrokenOK'
  <2>1. CASE d = "broken"
    <3>1. todo'["broken"] \in {<<"in">>, <<"kmalloc", "in">>}
      BY <1>2, <1>4, <2>1
    <3>2. /\ todo'["broken"] # <<>> /\ todo'["broken"] \notin Misreading
          /\ todo'["broken"] # <<"create", "register", "kmalloc", "in">>
      BY <3>1 DEF Misreading
    <3> QED  BY <1>1, <3>2 DEF BrokenOK
  <2> QED  BY <1>7, <2>1, OthersOK
<1>11. NumberKept'
  <2>1. CASE d = "circular"
    BY <1>1, <1>5, <2>1 DEF NumberKept, Major, ModulesTypeOK
  <2>2. CASE d # "circular"
    <3>1. Major[d] = 199 => d = "linked" /\ owner[199] # "circular"
      BY <1>1, <2>2, Own, Null DEF Major, Drivers
    <3>2. Major[d] # 199 => owner'[199] = owner[199]
      BY <1>1, <1>5 DEF ModulesTypeOK
    <3> QED  BY <1>1, <1>4, <2>2, <3>1, <3>2 DEF NumberKept, Holding, Running, Drivers
  <2> QED  BY <2>1, <2>2
<1> QED  BY <1>1, <1>6, <1>7, <1>9, <1>10, <1>11, OthersOK

\* register_chrdev or kmalloc fails.
LEMMA FailOK ==
    ASSUME DriversConsistent, NEW d \in Drivers, NEW memory \in BOOLEAN,
           \/ Doing(d, "register") /\ (memory => owner[Major[d]] # NULL)
           \/ Doing(d, "kmalloc") /\ memory = FALSE,
           Failed(d, memory),
           UNCHANGED <<life, drivers, version, loaded, proc_entry, owner>>,
           UNCHANGED <<left, foreign, misread, damaged>>
    PROVE  DriversConsistent'
<1> USE DEF DriversConsistent
<1> DEFINE s == OnFailure(Of(d), Head(todo[d]), memory)
<1>1. todo' = [todo EXCEPT ![d] = s] /\ starved' = (starved \/ ~memory)
  BY DEF Failed
<1>2. \/ d = "linked" /\ todo[d] = <<"register", "in">>
      \/ d = "simple" /\ todo[d] = <<"register", "in">>
      \/ d = "circular" /\ todo[d] \in {<<"register", "create", "kmalloc", "in">>,
                                        <<"kmalloc", "in">>}
      \/ d = "broken" /\ todo[d] \in {<<"register", "in">>, <<"register", "kmalloc", "in">>,
                                      <<"kmalloc", "in">>}
  BY AtStep
<1>3. \/ d \in {"simple", "broken"} /\ s = <<"out">>
      \/ /\ d = "circular" /\ memory /\ s = <<"out">>
         /\ todo[d] = <<"register", "create", "kmalloc", "in">>
      \/ d = "broken" /\ s \in {<<"unregister", "out">>, <<"unregister", "remove", "wait", "out">>}
      \/ /\ d \in {"linked", "circular"} /\ s = <<"remove", "wait", "unregister", "out">>
         /\ d = "circular" => ~memory
  BY OnFailureIs, AtStep
<1>4. s \in Plan(d)
  BY <1>3 DEF Plan
<1>5. /\ todo' = [e \in Drivers |-> todo'[e]] /\ \A e \in Drivers : todo'[e] \in Plan(e)
      /\ todo'[d] = s /\ \A e \in Drivers \ {d} : todo'[e] = todo[e]
  BY <1>1, <1>4, NewPlan
<1>6. ModulesTypeOK'
  BY <1>1, <1>5 DEF ModulesTypeOK
<1>7. OthersAlone(d)
  BY <1>5 DEF OthersAlone
<1>8. /\ DriverOK(d) /\ ~Running(d) /\ todo[d] \notin Waited /\ todo[d] \notin BeyondRemove
  <2>1. ~Running(d) /\ todo[d] \notin Waited /\ todo[d] \notin BeyondRemove
    BY <1>2 DEF Running, Waited, BeyondRemove
  <2> QED  BY <2>1
<1>9. DriverOK(d)'
  <2>1. \/ d = "broken"
        \/ todo'[d] = <<"remove", "wait", "unregister", "out">>
        \/ d = "simple" /\ todo[d] = <<"register", "in">>
        \/ d = "circular" /\ todo[d] = <<"register", "create", "kmalloc", "in">>
    BY <1>2, <1>3, <1>5
  <2>2. d # "broken" /\ owner[Major[d]] = d => todo'[d] \in Owning
    BY <1>8, <2>1 DEF DriverOK, NumberUndone, Owning
  <2>3. d # "broken" /\ life[d] = "linked" => d \in proc_entry /\ todo'[d] \in Having
    BY <1>8, <2>1 DEF DriverOK, EntryUndone, Having
  <2> QED  BY <1>8, <2>2, <2>3 DEF DriverOK, RemovalWaited, PointerRight, NumberUndone, EntryUndone
<1>10. BrokenOK'
  <2>1. CASE d = "broken"
    <3>1. todo'["broken"] \in {<<"out">>, <<"unregister", "out">>,
                               <<"unregister", "remove", "wait", "out">>}
      BY <1>3, <1>5, <2>1
    <3> QED  BY <3>1 DEF BrokenOK, Misreading
  <2> QED  BY <1>7, <2>1, OthersOK
<1>11. NumberKept'
  <2>1. CASE d = "circular" /\ memory
    <3>1. todo'["circular"] = <<"out">>
      BY <1>3, <1>5, <2>1
    <3>2. todo'["circular"] \notin Holding /\ todo'["circular"] # <<>>
      BY <3>1 DEF Holding
    <3>3. ~starved' => ~starved
      BY <1>1
    <3>4. Holding' = Holding /\ ~Running("circular")'
      BY <3>2 DEF Holding, Running
    <3> QED  BY <3>2, <3>3, <3>4 DEF NumberKept
  <2>2. CASE d = "circular" /\ ~memory
    BY <1>1, <2>2 DEF NumberKept
  <2>3. CASE d # "circular"
    BY <1>1, <1>5, <2>3 DEF NumberKept, Holding, Running, Drivers
  <2> QED  BY <2>1, <2>2, <2>3
<1> QED  BY <1>6, <1>7, <1>9, <1>10, <1>11, OthersOK

\* kmalloc of *_init succeeds, or all of *_init has.
LEMMA GoneWellOK ==
    ASSUME DriversConsistent, NEW d \in Drivers,
           \/ Doing(d, "kmalloc") /\ loaded' = loaded
           \/ Doing(d, "in") /\ loaded' = loaded \cup {d},
           Done(d), UNCHANGED <<life, drivers, version, proc_entry, owner>>,
           UNCHANGED <<left, foreign, starved, misread, damaged>>
    PROVE  DriversConsistent'
<1> USE DEF DriversConsistent
<1>1. todo' = [todo EXCEPT ![d] = Tail(todo[d])]
  BY DEF Done
<1>2. \/ todo[d] = <<"kmalloc", "in">> /\ Tail(todo[d]) = <<"in">> /\ loaded' = loaded
         /\ d \in {"circular", "broken"}
      \/ todo[d] = <<"in">> /\ Tail(todo[d]) = <<>> /\ loaded' = loaded \cup {d}
  BY AtStep, Tails
<1>3. Tail(todo[d]) \in Plan(d)
  BY <1>2 DEF Plan, Drivers
<1>4. /\ todo' = [e \in Drivers |-> todo'[e]] /\ \A e \in Drivers : todo'[e] \in Plan(e)
      /\ todo'[d] = Tail(todo[d]) /\ \A e \in Drivers \ {d} : todo'[e] = todo[e]
  BY <1>1, <1>3, NewPlan
<1>5. ModulesTypeOK'
  BY <1>2, <1>4 DEF ModulesTypeOK
<1>6. OthersAlone(d)
  BY <1>2, <1>4 DEF OthersAlone
<1>7. DriverOK(d) /\ ~Running(d) /\ todo[d] \notin Waited /\ todo[d] \notin BeyondRemove
  <2>1. ~Running(d) /\ todo[d] \notin Waited /\ todo[d] \notin BeyondRemove
    BY <1>2 DEF Running, Waited, BeyondRemove
  <2> QED  BY <2>1
<1>8. Running(d)' \/ (todo'[d] \in Owning /\ todo'[d] \in Having)
  BY <1>2, <1>4 DEF Running, Owning, Having
<1>9. DriverOK(d)'
  BY <1>7, <1>8 DEF DriverOK, RemovalWaited, PointerRight, NumberUndone, EntryUndone
<1>10. BrokenOK'
  <2>1. CASE d = "broken"
    <3>1. \/ todo'["broken"] = <<"in">>
          \/ todo'["broken"] = <<>> /\ "broken" \in loaded'
      BY <1>2, <1>4, <2>1
    <3> QED  BY <3>1 DEF BrokenOK, Misreading
  <2> QED  BY <1>6, <2>1, OthersOK
<1>11. NumberKept'
  <2>1. CASE d = "circular"
    <3>1. todo[d] \in Holding
      BY <1>2 DEF Holding
    <3> QED  BY <2>1, <3>1 DEF NumberKept
  <2>2. CASE d # "circular"
    BY <1>2, <1>4, <2>2 DEF NumberKept, Holding, Running, Drivers
  <2> QED  BY <2>1, <2>2
<1> QED  BY <1>5, <1>6, <1>9, <1>10, <1>11, OthersOK

\* unregister_chrdev, of whoever has the number.
LEMMA UnregisterOK ==
    ASSUME DriversConsistent, NEW d \in Drivers, Unregister(d)
    PROVE  DriversConsistent'
<1> USE DEF DriversConsistent
<1>1. /\ Doing(d, "unregister") /\ todo' = [todo EXCEPT ![d] = Tail(todo[d])]
      /\ UNCHANGED <<life, drivers, version, loaded, proc_entry>>
      /\ UNCHANGED <<left, starved, misread, damaged>>
      /\ owner' = [owner EXCEPT ![Major[d]] = NULL]
      /\ foreign' = IF owner[Major[d]] \in {NULL, d} THEN foreign ELSE foreign \cup {d}
  BY DEF Unregister, Done, vars
<1>2. \/ d = "linked" /\ todo[d] = <<"unregister", "in">> /\ Tail(todo[d]) = <<"in">>
      \/ todo[d] = <<"unregister", "out">> /\ Tail(todo[d]) = <<"out">>
      \/ /\ d \in {"linked", "broken"} /\ todo[d] = <<"unregister", "remove", "wait", "out">>
         /\ Tail(todo[d]) = <<"remove", "wait", "out">>
      \/ /\ d = "broken" /\ todo[d] = <<"unregister", "remove", "wait">>
         /\ Tail(todo[d]) = <<"remove", "wait">>
  BY <1>1, AtStep, Tails
<1>3. Tail(todo[d]) \in Plan(d)
  BY <1>2 DEF Plan, Drivers
<1>4. /\ todo' = [e \in Drivers |-> todo'[e]] /\ \A e \in Drivers : todo'[e] \in Plan(e)
      /\ todo'[d] = Tail(todo[d]) /\ \A e \in Drivers \ {d} : todo'[e] = todo[e]
  BY <1>1, <1>3, NewPlan
<1>5. Major[d] \in {198, 199, 899} /\ NULL \notin Drivers
  BY Own, Null DEF Major
<1>6. owner'[Major[d]] = NULL /\ \A m \in {198, 199, 899} \ {Major[d]} : owner'[m] = owner[m]
  BY <1>1, <1>5 DEF ModulesTypeOK
<1>7. \/ foreign' = foreign
      \/ /\ foreign' = foreign \cup {d} /\ d \in {"linked", "circular"}
         /\ owner[199] \in {"linked", "circular"} \ {d}
  <2>1. owner[Major[d]] \notin {NULL, d} =>
             owner[Major[d]] \in Drivers /\ Major[owner[Major[d]]] = Major[d]
    BY <1>5 DEF ModulesTypeOK
  <2> QED  BY <1>1, <1>5, <2>1 DEF Major, Drivers
<1>8. ModulesTypeOK'
  <2>1. /\ owner' \in [{198, 199, 899} -> Drivers \cup {NULL}]
        /\ \A m \in {198, 199, 899} : owner'[m] = NULL \/ Major[owner'[m]] = m
    BY <1>1, <1>5, <1>6 DEF ModulesTypeOK
  <2>2. foreign' \subseteq {"linked", "circular"}
    BY <1>7 DEF ModulesTypeOK
  <2> QED  BY <1>1, <1>4, <2>1, <2>2 DEF ModulesTypeOK
<1>9. OthersAlone(d)
  BY <1>1, <1>4, <1>5, <1>6 DEF OthersAlone, Major
<1>10. /\ DriverOK(d) /\ ~Running(d) /\ todo[d] \notin Waited
  <2>1. ~Running(d) /\ todo[d] \notin Waited
    BY <1>2 DEF Running, Waited
  <2> QED  BY <2>1
<1>11. DriverOK(d)'
  <2>1. todo[d] \in BeyondRemove => todo'[d] \in BeyondRemove
    BY <1>2, <1>4 DEF BeyondRemove
  <2>2. d # "broken" /\ todo[d] \in Having => todo'[d] \in Having
    BY <1>2, <1>4 DEF Having
  <2> QED  BY <1>1, <1>5, <1>6, <1>10, <2>1, <2>2 DEF DriverOK, RemovalWaited, PointerRight,
                                                    NumberUndone, EntryUndone
<1>12. BrokenOK'
  <2>1. CASE d = "broken"
    <3>1. \/ todo'["broken"] \in {<<"out">>, <<"remove", "wait", "out">>}
          \/ /\ todo'["broken"] = <<"remove", "wait">>
             /\ todo["broken"] = <<"unregister", "remove", "wait">>
      BY <1>2, <1>4, <2>1
    <3>2. todo["broken"] = <<"unregister", "remove", "wait">> => misread /\ "broken" \in loaded
      BY DEF BrokenOK, Misreading
    <3>3. todo'["broken"] # <<>> /\ todo'["broken"] # <<"create", "register", "kmalloc", "in">>
      <4>1. todo'["broken"] \in {<<"out">>, <<"remove", "wait", "out">>, <<"remove", "wait">>}
        BY <3>1
      <4> QED  BY <4>1
    <3>4. todo'["broken"] \in Misreading => misread /\ "broken" \in loaded
      BY <3>1, <3>2 DEF Misreading
    <3> QED  BY <1>1, <3>3, <3>4 DEF BrokenOK, Misreading
  <2> QED  BY <1>9, <2>1, OthersOK
<1>13. NumberKept'
  <2>1. CASE d = "circular"
    <3>1. todo["circular"] = <<"unregister", "out">> /\ todo'["circular"] = <<"out">>
      BY <1>2, <1>4, <2>1
    <3>2. todo["circular"] \in Holding /\ todo'["circular"] \notin Holding
      BY <3>1 DEF Holding
    <3>3. ~Running("circular")' /\ Holding' = Holding
      BY <3>1 DEF Running, Holding
    <3>4. ~starved /\ "linked" \notin foreign => foreign' = foreign
      BY <1>1, <2>1, <3>2 DEF NumberKept, Major
    <3>5. "linked" \in foreign => "linked" \in foreign'
      BY <1>7
    <3> QED  BY <1>1, <3>2, <3>3, <3>4, <3>5 DEF NumberKept
  <2>2. CASE d = "linked"
    BY <1>1, <1>4, <1>7, <2>2 DEF NumberKept, Holding, Running, Major, Drivers
  <2>3. CASE d \notin {"circular", "linked"}
    <3>1. Major[d] # 199 /\ "circular" \in Drivers
      BY <2>3 DEF Major, Drivers
    <3>2. owner'[199] = owner[199] /\ foreign' = foreign /\ todo'["circular"] = todo["circular"]
      BY <1>4, <1>6, <1>7, <2>3, <3>1
    <3> QED  BY <1>1, <3>2 DEF NumberKept, Holding, Running
  <2> QED  BY <2>1, <2>2, <2>3
<1> QED  BY <1>1, <1>8, <1>9, <1>11, <1>12, <1>13, OthersOK

\* The module's code goes away: nothing of it is left, but of broken's what is then known.
LEMMA UnloadOK ==
    ASSUME DriversConsistent, NEW d \in Drivers, Unload(d)
    PROVE  DriversConsistent'
<1> USE DEF DriversConsistent
<1>1. /\ Doing(d, "out") /\ todo' = [todo EXCEPT ![d] = Tail(todo[d])]
      /\ UNCHANGED <<life, drivers, version, owner, foreign, starved, misread, damaged>>
      /\ loaded' = loaded \ {d} /\ proc_entry' = proc_entry \ {d}
      /\ left' = IF life[d] = "linked" \/ owner[Major[d]] = d THEN left \cup {d} ELSE left
  BY DEF Unload, Done, vars
<1>2. todo[d] = <<"out">> /\ Tail(todo[d]) = <<>>
  BY <1>1, AtStep, Tails
<1>3. Tail(todo[d]) \in Plan(d)
  BY <1>2 DEF Plan, Drivers
<1>4. /\ todo' = [e \in Drivers |-> todo'[e]] /\ \A e \in Drivers : todo'[e] \in Plan(e)
      /\ todo'[d] = Tail(todo[d]) /\ \A e \in Drivers \ {d} : todo'[e] = todo[e]
  BY <1>1, <1>3, NewPlan
<1>5. /\ DriverOK(d) /\ ~Running(d) /\ todo[d] \notin Waited
      /\ todo[d] \notin Owning /\ todo[d] \notin Having
  <2>1. ~Running(d) /\ todo[d] \notin Waited /\ todo[d] \notin Owning /\ todo[d] \notin Having
    BY <1>2 DEF Running, Waited, Owning, Having
  <2> QED  BY <2>1
<1>6. d # "broken" => owner[Major[d]] # d /\ life[d] # "linked"
  BY <1>5 DEF DriverOK, NumberUndone, EntryUndone
<1>7. ModulesTypeOK'
  BY <1>1, <1>4, <1>6 DEF ModulesTypeOK
<1>8. OthersAlone(d)
  BY <1>1, <1>4 DEF OthersAlone
<1>9. DriverOK(d)'
  BY <1>1, <1>5, <1>6 DEF DriverOK, RemovalWaited, PointerRight, NumberUndone, EntryUndone
<1>10. BrokenOK'
  <2>1. CASE d = "broken"
    BY <1>1, <1>2, <1>4, <2>1 DEF BrokenOK, Misreading, Major
  <2> QED  BY <1>8, <2>1, OthersOK
<1>11. NumberKept'
  <2>1. CASE d = "circular"
    BY <1>1, <1>2, <1>4, <2>1 DEF NumberKept, Holding, Running
  <2>2. CASE d # "circular"
    BY <1>1, <1>4, <2>2 DEF NumberKept, Holding, Running, Drivers
  <2> QED  BY <2>1, <2>2
<1> QED  BY <1>1, <1>7, <1>8, <1>9, <1>10, <1>11, OthersOK

\* Each step of the drivers keeps what is known of them.
LEMMA DriversNext ==
    Consistent /\ DriversConsistent /\ [ModulesNext]_allVars => DriversConsistent'
<1> SUFFICES ASSUME Consistent, DriversConsistent, [ModulesNext]_allVars PROVE DriversConsistent'
  OBVIOUS
<1>1. drivers \subseteq Drivers
  BY DEF DriversConsistent, ModulesTypeOK
<1>2. CASE (Kernel \/ Going_on) /\ UNCHANGED modules
  BY <1>2, DriversGoOn
<1>3. ASSUME NEW d \in Drivers, Step(d) PROVE DriversConsistent'
  <2>1. CASE CreateEntry(d) \/ CreateFails(d) \/ RemoveEntry(d) \/ EntryRemoved(d)
    BY <2>1, CreateEntryOK, CreateFailsOK, RemoveEntryOK, EntryRemovedOK
  <2>2. CASE Register(d) \/ Unregister(d) \/ Unload(d)
    BY <2>2, RegisterOK, UnregisterOK, UnloadOK
  <2>3. CASE RegisterFails(d)
    <3>1. PICK memory \in {owner[Major[d]] # NULL, FALSE} : Failed(d, memory)
      BY <2>3 DEF RegisterFails
    <3>2. memory \in BOOLEAN /\ (memory => owner[Major[d]] # NULL)
      OBVIOUS
    <3> QED  BY <2>3, <3>1, <3>2, FailOK DEF RegisterFails, vars
  <2>4. CASE Kmalloc(d)
    <3>1. /\ Doing(d, "kmalloc") /\ UNCHANGED <<life, drivers, version, loaded, proc_entry, owner>>
          /\ UNCHANGED <<left, foreign, misread, damaged>>
      BY <2>4 DEF Kmalloc, vars
    <3>2. CASE Done(d) /\ UNCHANGED starved
      <4>1. loaded' = loaded /\ UNCHANGED <<life, drivers, version, proc_entry, owner>>
        BY <3>1
      <4>2. UNCHANGED <<left, foreign, starved, misread, damaged>>
        BY <3>1, <3>2
      <4>3. \/ Doing(d, "kmalloc") /\ loaded' = loaded
            \/ Doing(d, "in") /\ loaded' = loaded \cup {d}
        BY <3>1
      <4>4. Done(d)
        BY <3>2
      <4> QED  BY <4>1, <4>2, <4>3, <4>4, GoneWellOK
    <3>3. CASE Failed(d, FALSE)
      BY <3>1, <3>3, FailOK
    <3> QED  BY <2>4, <3>2, <3>3 DEF Kmalloc
  <2>5. CASE Finish(d)
    BY <2>5, GoneWellOK DEF Finish, vars, hist
  <2> QED  BY <1>3, <2>1, <2>2, <2>3, <2>4, <2>5 DEF Step
<1>4. CASE UNCHANGED allVars
  BY <1>4 DEF allVars, vars, modules, hist, DriversConsistent, ModulesTypeOK, DriverOK,
              RemovalWaited, PointerRight, NumberUndone, EntryUndone, BrokenOK, NumberKept, Running
<1> QED  BY <1>1, <1>2, <1>3, <1>4, InsmodOK, RmmodOK, MisreadOK DEF ModulesNext

\* A driver that is out has done all its steps: what they undo is not there.
LEMMA CleanKept == Consistent /\ DriversConsistent => CleanExit
<1> SUFFICES ASSUME Consistent, DriversConsistent PROVE CleanExit
  OBVIOUS
<1> USE DEF DriversConsistent
<1>1. ASSUME NEW d \in Drivers, d \notin loaded, todo[d] = <<>>
      PROVE  /\ owner[Major[d]] = d => d \in left
             /\ life[d] = "linked" => d \in left
             /\ d \in left \/ \A p \in Users : pc[p] \in Handler => ent[p] # d
  <2>1. /\ DriverOK(d) /\ ~Running(d) /\ todo[d] \notin Waited
        /\ todo[d] \notin Owning /\ todo[d] \notin Having
    BY <1>1 DEF Running, Waited, Owning, Having
  <2>2. d \notin left => owner[Major[d]] # d /\ life[d] # "linked"
    BY <1>1, <2>1 DEF DriverOK, NumberUndone, EntryUndone, BrokenOK, Major
  <2>3. d \notin left => life[d] \in {"absent", "removed"}
    BY <2>1, <2>2, Own DEF DriverOK, RemovalWaited, InRemoval, Consistent, IInv, TypeOK
  <2> QED  BY <2>2, <2>3, HandlerKept DEF NoCallIntoGone
<1>2. left \subseteq {"broken"}
  BY DEF ModulesTypeOK
<1>3. foreign # {} => starved \/ "linked" \in foreign
  BY DEF NumberKept
<1> QED  BY <1>1, <1>2, <1>3 DEF CleanExit

\* insmod and rmmod, any processes that use the entries meanwhile: what is known of each
\* driver from what it has left to do, which keeps the following one by one.
THEOREM DriversInvariance == ModulesSpec => []DriversConsistent
BY ModulesSafe, DriversInit, DriversNext, PTL DEF ModulesSpec

\* A driver that is out has neither number nor entry, and no process is in its code,
\* unless it is broken and a failed insertion is to blame.
THEOREM ModulesClean == ModulesSpec => []CleanExit
BY ModulesSafe, DriversInvariance, CleanKept, PTL
-----------------------------------------------------------------------------
(***************************************************************************)
(* proc_sysctl.c: a process sees what its namespace has.                   *)
(***************************************************************************)
\* The types of the state.
Heads == [live : BOOLEAN, parent : Headers \cup {NIL}, nreg : Int, used : Int, count : Int,
          dying : Clients \cup {NIL, Nobody}, tree : SUBSET (Nat \X Headers),
          sealed : BOOLEAN]
\* The headers that a registration of c may make, and the directories of the core tree.
OwnHeads(c) == {<<c, "file">>, <<c, "dir">>}
CoreDirs == {h \in Headers : Set(h) = "core" /\ IsDir(h)}
Maybe == Headers \cup {NIL}
AfterOps  == {<<"unlock", NIL>>}
             \cup ({"drop", "putlinks", "unregister", "wait", "erase"} \X Headers)
             \cup ({"putlink"} \X Headers \X Headers \X SUBSET Nat)
MidOps(c) == AfterOps \cup ({"walk", "make", "look", "take"} \X {NIL})
             \cup ({"insert", "entries"} \X OwnHeads(c))
             \cup ({"links"} \X OwnHeads(c) \X CoreDirs)
OpsOf(c)  == MidOps(c) \cup ({"in", "fail"} \X {NIL})
\* the last step alone can be a return
Good(c, s) == s \in Seq(OpsOf(c)) /\ \A i \in 1 .. Len(s) - 1 : s[i] \in MidOps(c)
\* A client that has no directory has only unregistering left to do.
TodoTyped == /\ DOMAIN work = Clients
             /\ \A c \in Clients : /\ Good(c, work[c])
                                   /\ at[c] = NIL => work[c] \in Seq(AfterOps)
TablesTyped == /\ hd \in [Headers -> Heads] /\ lock \in Clients \cup {NIL}
               /\ at \in [Clients -> Maybe] /\ TodoTyped
               /\ in \subseteq Clients /\ revived \in BOOLEAN
\* What a process uses, by what it is about.
UsersTyped ==
    /\ ns \in [Processes -> Sets \ {"core"}] /\ cur \in [Processes -> Headers]
    /\ place \in [Processes -> {"idle", "handler", "list", "lookup", "link", "follow",
                                "followlisted", "make", "makelisted"}]
    /\ holds \in [Processes -> Seq(Headers)] /\ name \in [Processes -> Nat]
    /\ dcache \subseteq Headers \X Nat \X Headers
    /\ \A u \in Processes :
         /\ place[u] = "idle" => holds[u] = <<>>
         /\ place[u] \in {"link", "follow", "make"} => Len(holds[u]) = 2
         /\ place[u] = "followlisted" => Len(holds[u]) = 3
         /\ place[u] = "makelisted" => Len(holds[u]) >= 2
SysctlTypeOK == TablesTyped /\ UsersTyped
\* Headers are below, and registrations in, directories of their own set.
TreesApart ==
    /\ \A h \in Headers : hd[h].parent # NIL => Set(hd[h].parent) = Set(h)
    /\ \A d \in Headers : \A e \in hd[d].tree : Set(e[2]) = Set(d)
    /\ \A c \in Clients : at[c] # NIL => Set(at[c]) = SetOf[c]
\* What a process uses is the core's or of its namespace.
OwnSeen == \A u \in Processes : \A i \in 1 .. Len(holds[u]) :
               Set(holds[u][i]) \in {"core", ns[u]}
\* The inductive invariant: when something goes wrong, nothing else happens any more.
SpacesInv == OwnNamespace /\ (oops = NIL => SysctlTypeOK /\ TreesApart /\ OwnSeen)

\* A header has a set and finitely many names.
LEMMA NamesTyped ==
    ASSUME SysctlBounds, NEW h \in Headers
    PROVE  /\ Set(h) \in Sets /\ Names(h) \in SUBSET Nat /\ IsFiniteSet(Names(h))
           /\ h[2] # "set" => h[1] \in Clients
<1> USE DEF SysctlBounds, SetDir, Headers, Kinds, Set, IsLink
<1>1. IsFiniteSet({}) /\ \A n : IsFiniteSet({n})
  BY FS_EmptySet, FS_Singleton
<1>2. CASE h \in {SetDir(s) : s \in Sets}
  BY <1>1, <1>2 DEF Names
<1>3. CASE h \in Clients \X Kinds
  <2>1. h[1] \in Clients /\ h[2] \in Kinds
    BY <1>3
  <2>2. DirOf[h[1]] \in Nat /\ FilesOf[h[1]] \in SUBSET Nat /\ IsFiniteSet(FilesOf[h[1]])
    BY <2>1
  <2>3. Set(h) \in Sets
    BY <2>1
  <2>4. Names(h) \in {{DirOf[h[1]]}, FilesOf[h[1]]}
    BY <2>1 DEF Names
  <2> DEFINE one == {DirOf[h[1]]}
             names == Names(h)
  <2>5. one \in SUBSET Nat /\ IsFiniteSet(one) /\ names \in {one, FilesOf[h[1]]}
    BY <1>1, <2>2, <2>4
  <2> HIDE DEF one, names
  <2>6. names \in SUBSET Nat /\ IsFiniteSet(names)
    BY ONLY <2>2, <2>5
  <2>7. Names(h) \in SUBSET Nat /\ IsFiniteSet(Names(h))
    BY ONLY <2>6 DEF names
  <2> QED  BY ONLY <2>1, <2>3, <2>7
<1> QED  BY <1>2, <1>3

\* The headers of a set, of a client and of its links.
LEMMA KindsTyped ==
    ASSUME SysctlBounds
    PROVE  /\ \A s \in Sets : SetDir(s) \in Headers /\ Set(SetDir(s)) = s /\ IsDir(SetDir(s))
           /\ \A c \in Clients, k \in Kinds : <<c, k>> \in Headers
           /\ \A c \in Clients : \A h \in OwnHeads(c) :
                 /\ h \in Headers /\ Set(h) = SetOf[c] /\ LinkOf(h) \in Headers
                 /\ Set(LinkOf(h)) = "core" /\ ~IsDir(LinkOf(h))
           /\ \A h \in Headers :
                 /\ Set(h) \in Sets
                 /\ Names(h) \in SUBSET Nat /\ IsFiniteSet(Names(h))
                 /\ h[2] # "set" => h[1] \in Clients
<1> USE DEF SysctlBounds, SetDir, Headers, Kinds, Set, IsLink, IsDir, LinkOf, OwnHeads
<1>1. \A s \in Sets : SetDir(s) \in Headers /\ Set(SetDir(s)) = s /\ IsDir(SetDir(s))
  OBVIOUS
<1>2. \A c \in Clients, k \in Kinds : <<c, k>> \in Headers
  OBVIOUS
<1>3. \A c \in Clients : \A h \in OwnHeads(c) :
         h \in Headers /\ Set(h) = SetOf[c] /\ LinkOf(h) \in Headers
                 /\ Set(LinkOf(h)) = "core" /\ ~IsDir(LinkOf(h))
  OBVIOUS
<1>4. ASSUME NEW h \in Headers
      PROVE  /\ Set(h) \in Sets /\ Names(h) \in SUBSET Nat /\ IsFiniteSet(Names(h))
             /\ h[2] # "set" => h[1] \in Clients
  BY NamesTyped
<1> QED  BY <1>1, <1>2, <1>3, <1>4

\* What find_entry finds is of the set in whose tree it looks.
LEMMA FoundIn ==
    ASSUME SysctlBounds, SysctlTypeOK, TreesApart, NEW d \in Headers, NEW n,
           Find(d, n) # NIL
    PROVE  Find(d, n) \in Headers /\ Set(Find(d, n)) = Set(d) /\ <<n, Find(d, n)>> \in hd[d].tree
<1>1. \E e \in hd[d].tree : e[1] = n
  BY DEF Find
<1>2. (CHOOSE e \in hd[d].tree : e[1] = n) \in hd[d].tree
      /\ (CHOOSE e \in hd[d].tree : e[1] = n)[1] = n
  BY <1>1
<1>3. hd[d].tree \subseteq Nat \X Headers
  BY DEF SysctlTypeOK, TablesTyped, UsersTyped, Heads
<1> QED  BY <1>1, <1>2, <1>3 DEF Find, TreesApart

\* xlate_dir finds a directory of the set that it is given.
LEMMA XlateIn ==
    ASSUME SysctlBounds, SysctlTypeOK, TreesApart, NEW s \in Sets, NEW d,
           XlateDir(s, d) # NIL
    PROVE  /\ XlateDir(s, d) \in Headers /\ Set(XlateDir(s, d)) = s
           /\ IsDir(XlateDir(s, d))
<1>1. SetDir(s) \in Headers /\ Set(SetDir(s)) = s /\ IsDir(SetDir(s))
  BY KindsTyped
<1> QED  BY <1>1, FoundIn DEF XlateDir

\* What a client has to do is well-formed.
LEMMA OpTyped ==
    ASSUME SysctlTypeOK, NEW c \in Clients, work[c] # <<>>
    PROVE  LET op == Head(work[c]) IN
           /\ op \in OpsOf(c) /\ Good(c, Tail(work[c]))
           /\ op[1] \in {"insert", "entries", "links"} => op[2] \in OwnHeads(c)
           /\ op[1] \in {"drop", "putlinks", "unregister", "wait", "erase", "putlink"}
              => op[2] \in Headers
           /\ op[1] = "links" => op[3] \in CoreDirs
           /\ op[1] = "putlink" => op[3] \in Headers /\ op[4] \in SUBSET Nat
           /\ op[1] \in {"in", "fail"} => Tail(work[c]) = <<>>
           /\ at[c] = NIL => op \in AfterOps /\ Tail(work[c]) \in Seq(AfterOps)
<1>1. Good(c, work[c]) /\ (at[c] = NIL => work[c] \in Seq(AfterOps))
  BY DEF SysctlTypeOK, TablesTyped, UsersTyped, TodoTyped
<1>2. Head(work[c]) \in OpsOf(c) /\ Tail(work[c]) \in Seq(OpsOf(c))
  BY <1>1 DEF Good
<1>3. at[c] = NIL => Head(work[c]) \in AfterOps /\ Tail(work[c]) \in Seq(AfterOps)
  BY <1>1
<1>4. \A i \in 1 .. Len(Tail(work[c])) - 1 : Tail(work[c])[i] \in MidOps(c)
  <2> SUFFICES ASSUME NEW i \in 1 .. Len(Tail(work[c])) - 1 PROVE Tail(work[c])[i] \in MidOps(c)
    OBVIOUS
  <2>1. Tail(work[c])[i] = work[c][i + 1] /\ i + 1 \in 1 .. Len(work[c]) - 1
    BY <1>1 DEF Good
  <2> QED  BY <1>1, <2>1 DEF Good
<1>5. Head(work[c])[1] \in {"in", "fail"} => Tail(work[c]) = <<>>
  <2> SUFFICES ASSUME Head(work[c])[1] \in {"in", "fail"} PROVE Tail(work[c]) = <<>>
    OBVIOUS
  <2>1. Head(work[c]) \notin MidOps(c)
    BY DEF MidOps, AfterOps
  <2>2. work[c][1] = Head(work[c])
    BY <1>1 DEF Good
  <2>3. Len(work[c]) <= 1
    BY <1>1, <2>1, <2>2 DEF Good
  <2> QED  BY <1>1, <2>3 DEF Good
<1> QED  BY <1>2, <1>3, <1>4, <1>5 DEF OpsOf, MidOps, AfterOps, Good

\* The steps that are left to do, by when they may be.
LEMMA OpsBuilt ==
    ASSUME NEW c \in Clients
    PROVE  /\ \A h \in Headers : PutHeader(h) \in AfterOps
           /\ Op("unlock") \in AfterOps
           /\ \A h \in Headers, o \in {"drop", "putlinks", "unregister", "wait", "erase"} :
                 <<o, h>> \in AfterOps
           /\ \A h \in Headers, k \in Headers, n \in SUBSET Nat : <<"putlink", h, k, n>> \in AfterOps
           /\ \A o \in {"walk", "make", "look", "take", "unlock"} : Op(o) \in MidOps(c)
           /\ \A h \in OwnHeads(c) : <<"insert", h>> \in MidOps(c) /\ <<"entries", h>> \in MidOps(c)
           /\ \A h \in OwnHeads(c), k \in CoreDirs : <<"links", h, k>> \in MidOps(c)
           /\ AfterOps \subseteq MidOps(c) /\ MidOps(c) \subseteq OpsOf(c)
           /\ Op("in") \in OpsOf(c) /\ Op("fail") \in OpsOf(c)
BY DEF OpsOf, MidOps, AfterOps, PutHeader, Op

\* Short sequences and what two of them make.
LEMMA SeqBuilt ==
    ASSUME NEW S
    PROVE  /\ <<>> \in Seq(S)
           /\ \A x \in S : <<x>> \in Seq(S)
           /\ \A x, y \in S : <<x, y>> \in Seq(S)
           /\ \A x, y, z \in S : <<x, y, z>> \in Seq(S)
           /\ \A s, t \in Seq(S) : s \o t \in Seq(S)
OBVIOUS

\* A sequence of elements of a set is one of a larger set.
LEMMA SeqWider == ASSUME NEW S, NEW T, S \subseteq T, NEW s \in Seq(S) PROVE s \in Seq(T)
OBVIOUS

\* Steps put before those that are left to do.
LEMMA GoodBefore ==
    ASSUME NEW c \in Clients, NEW ops \in Seq(MidOps(c)), NEW s, Good(c, s)
    PROVE  Good(c, ops \o s)
<1>1. ops \in Seq(OpsOf(c)) /\ s \in Seq(OpsOf(c))
  BY OpsBuilt, SeqWider DEF Good
<1>2. ops \o s \in Seq(OpsOf(c))
  BY <1>1, SeqBuilt
<1>3. ASSUME NEW i \in 1 .. Len(ops \o s) - 1 PROVE (ops \o s)[i] \in MidOps(c)
  <2>1. CASE i <= Len(ops)
    BY <1>1, <1>3, <2>1
  <2>2. CASE ~(i <= Len(ops))
    <3>1. (ops \o s)[i] = s[i - Len(ops)] /\ i - Len(ops) \in 1 .. Len(s) - 1
      BY <1>1, <1>3, <2>2
    <3> QED  BY <3>1 DEF Good
  <2> QED  BY <2>1, <2>2
<1> QED  BY <1>2, <1>3 DEF Good

\* What becomes of the steps to do.
LEMMA TodoSet ==
    ASSUME SysctlTypeOK, NEW c \in Clients, NEW s, Good(c, s),
           work' = [work EXCEPT ![c] = s], \A b \in Clients \ {c} : at'[b] = at[b],
           at'[c] = NIL => s \in Seq(AfterOps)
    PROVE  TodoTyped'
<1>1. \A b \in Clients : work'[b] = IF b = c THEN s ELSE work[b]
  BY DEF SysctlTypeOK, TablesTyped, UsersTyped, TodoTyped
<1>2. DOMAIN work' = Clients
  BY DEF SysctlTypeOK, TablesTyped, UsersTyped, TodoTyped
<1>3. ASSUME NEW b \in Clients
      PROVE  Good(b, work'[b]) /\ (at'[b] = NIL => work'[b] \in Seq(AfterOps))
  BY <1>1 DEF SysctlTypeOK, TablesTyped, UsersTyped, TodoTyped
<1>4. \A b \in Clients : Good(b, work[b])' = Good(b, work'[b])
  BY DEF Good, OpsOf, MidOps, AfterOps, OwnHeads, CoreDirs, Set, IsLink, IsDir
<1> QED  BY <1>2, <1>3, <1>4 DEF TodoTyped

\* What goes on with steps before the others has something well-formed left to do.
LEMMA FirstTyped ==
    ASSUME SysctlTypeOK, NEW c \in Clients, work[c] # <<>>, NEW ops \in Seq(MidOps(c)),
           First(c, ops), \A b \in Clients \ {c} : at'[b] = at[b],
           at'[c] = NIL => /\ ops \in Seq(AfterOps)
                           /\ at[c] = NIL \/ Head(work[c])[1] \in {"in", "fail"}
    PROVE  TodoTyped'
<1>1. Good(c, ops \o Tail(work[c]))
  BY OpTyped, GoodBefore
<1>2. at'[c] = NIL => ops \o Tail(work[c]) \in Seq(AfterOps)
  <2> SUFFICES ASSUME at'[c] = NIL PROVE ops \o Tail(work[c]) \in Seq(AfterOps)
    OBVIOUS
  <2>1. Tail(work[c]) \in Seq(AfterOps)
    BY OpTyped, SeqBuilt
  <2> QED  BY <2>1, SeqBuilt
<1>3. work' = [work EXCEPT ![c] = ops \o Tail(work[c])]
  BY DEF First
<1> QED  BY <1>1, <1>2, <1>3, TodoSet

\* So has what fails.
LEMMA FailTyped ==
    ASSUME SysctlTypeOK, NEW c \in Clients, NEW ops \in Seq(MidOps(c)),
           Fail(c, ops), UNCHANGED at, at[c] # NIL
    PROVE  TodoTyped'
<1> DEFINE end == <<Op("unlock"), Op("fail")>>
<1>1. Good(c, end)
  <2>1. end \in Seq(OpsOf(c)) /\ Len(end) = 2 /\ end[1] \in MidOps(c)
    BY OpsBuilt, SeqBuilt
  <2> HIDE DEF end
  <2> QED  BY <2>1 DEF Good
<1> HIDE DEF end
<1>2. Good(c, ops \o end)
  BY <1>1, GoodBefore
<1>3. work' = [work EXCEPT ![c] = ops \o end]
  BY DEF Fail, end
<1> QED  BY <1>2, <1>3, TodoSet

\* no entry, and no directory to be in, is new
Shrinks == /\ hd' \in [Headers -> Heads]
           /\ \A g \in Headers :
                 /\ hd'[g].parent \in {hd[g].parent, NIL}
                 /\ hd'[g].tree \subseteq hd[g].tree
\* the directory of a registration is of its set
AtTyped == /\ at' \in [Clients -> Maybe]
           /\ \A c \in Clients : at'[c] # NIL => Set(at'[c]) = SetOf[c]
\* what is new in a tree, or where a header is put, is of its own set
Fits == /\ hd' \in [Headers -> Heads]
        /\ \A g \in Headers :
              /\ hd'[g].parent \in {hd[g].parent, NIL} \/ Set(hd'[g].parent) = Set(g)
              /\ \A e \in hd'[g].tree : e \in hd[g].tree \/ Set(e[2]) = Set(g)

\* A step that keeps headers below directories of their set keeps the trees apart.
LEMMA FitsTyped ==
    ASSUME SysctlTypeOK, TreesApart, Fits, AtTyped, TodoTyped',
           lock' \in Clients \cup {NIL}, in' \subseteq Clients, revived' \in BOOLEAN
    PROVE  TablesTyped' /\ TreesApart'
<1>1. TablesTyped'
  BY DEF TablesTyped, Fits, AtTyped
<1>2. \A h \in Headers : hd'[h].parent # NIL => Set(hd'[h].parent) = Set(h)
  BY DEF Fits, TreesApart
<1>3. \A d \in Headers : \A e \in hd'[d].tree : Set(e[2]) = Set(d)
  BY DEF Fits, TreesApart
<1> QED  BY <1>1, <1>2, <1>3 DEF TreesApart, AtTyped, Set, IsLink

\* So does one that adds no entry and no parent.
LEMMA ShrinksTyped ==
    ASSUME SysctlTypeOK, TreesApart, Shrinks, AtTyped, TodoTyped',
           lock' \in Clients \cup {NIL}, in' \subseteq Clients, revived' \in BOOLEAN
    PROVE  TablesTyped' /\ TreesApart'
<1>1. Fits
  BY DEF Shrinks, Fits
<1> QED  BY <1>1, FitsTyped

\* What one field's change leaves of a header.
LEMMA FieldsKept ==
    ASSUME NEW r \in Heads
    PROVE  /\ \A k \in Int : LET s == [r EXCEPT !.nreg = k]
                             IN  s \in Heads /\ s.parent = r.parent /\ s.tree = r.tree
           /\ \A k \in Int : LET s == [r EXCEPT !.used = k]
                             IN  s \in Heads /\ s.parent = r.parent /\ s.tree = r.tree
           /\ \A k \in Int : LET s == [r EXCEPT !.count = k]
                             IN  s \in Heads /\ s.parent = r.parent /\ s.tree = r.tree
           /\ \A k \in BOOLEAN : LET s == [r EXCEPT !.live = k]
                             IN  s \in Heads /\ s.parent = r.parent /\ s.tree = r.tree
           /\ \A k \in BOOLEAN : LET s == [r EXCEPT !.sealed = k]
                             IN  s \in Heads /\ s.parent = r.parent /\ s.tree = r.tree
           /\ \A k \in Clients \cup {NIL, Nobody} :
                             LET s == [r EXCEPT !.dying = k]
                             IN  s \in Heads /\ s.parent = r.parent /\ s.tree = r.tree
           /\ \A k \in Maybe : LET s == [r EXCEPT !.parent = k]
                             IN  s \in Heads /\ s.parent = k /\ s.tree = r.tree
           /\ \A k \in SUBSET (Nat \X Headers) :
                             LET s == [r EXCEPT !.tree = k]
                             IN  s \in Heads /\ s.parent = r.parent /\ s.tree = k
BY DEF Heads, Maybe

\* A header that is free or new.
LEMMA FreshTyped == /\ Free \in Heads /\ \A n \in Int : Fresh(n) \in Heads
                    /\ Free.parent = NIL /\ Free.tree = {}
                    /\ \A n \in Int : Fresh(n).parent = NIL /\ Fresh(n).tree = {}
<1>1. Free \in Heads /\ Free.parent = NIL /\ Free.tree = {}
  BY DEF Free, Heads, Maybe
<1>2. ASSUME NEW n \in Int PROVE Fresh(n) \in Heads /\ Fresh(n).parent = NIL /\ Fresh(n).tree = {}
  <2>1. Fresh(n) = [live |-> TRUE, parent |-> NIL, nreg |-> n, used |-> 0, count |-> 1,
                dying |-> NIL, tree |-> {}, sealed |-> FALSE]
    <3>1. Fresh(n) = [[[Free EXCEPT !.live = TRUE] EXCEPT !.nreg = n] EXCEPT !.count = 1]
      BY DEF Fresh
    <3> QED  BY <3>1 DEF Free
  <2> QED  BY <2>1 DEF Heads, Maybe
<1> QED  BY <1>1, <1>2

\* One header's references.
Counted(heads, h, k) == [heads EXCEPT ![h] = [heads[h] EXCEPT !.nreg = heads[h].nreg + k]]
Alike(new, heads) == /\ new \in [Headers -> Heads]
                     /\ \A g \in Headers :
                           /\ new[g].parent = heads[g].parent
                           /\ new[g].tree = heads[g].tree

\* A reference more or less leaves parents and trees alone.
LEMMA CountTyped ==
    ASSUME NEW heads \in [Headers -> Heads], NEW h, NEW k \in Int
    PROVE  Alike(Counted(heads, h, k), heads)
<1> USE DEF Alike, Counted
<1> DEFINE new == [heads EXCEPT ![h] = [heads[h] EXCEPT !.nreg = heads[h].nreg + k]]
<1>1. CASE h \notin Headers
  BY <1>1
<1>2. CASE h \in Headers
  <2>1. heads[h] \in Heads /\ heads[h].nreg + k \in Int
    BY <1>2 DEF Heads
  <2>2. LET s == [heads[h] EXCEPT !.nreg = heads[h].nreg + k]
        IN  s \in Heads /\ s.parent = heads[h].parent /\ s.tree = heads[h].tree
    BY <2>1, FieldsKept
  <2>3. new \in [Headers -> Heads]
    BY <2>2
  <2>4. \A g \in Headers : new[g].parent = heads[g].parent /\ new[g].tree = heads[g].tree
    BY <2>2
  <2> QED  BY <2>3, <2>4
<1> QED  BY <1>1, <1>2

\* sysctl_head_put frees a header or leaves its parent and its tree alone.
LEMMA UncountTyped ==
    ASSUME NEW heads \in [Headers -> Heads], NEW h
    PROVE  /\ Uncount(heads, h) \in [Headers -> Heads]
           /\ \A g \in Headers :
                 /\ Uncount(heads, h)[g].parent \in {heads[g].parent, NIL}
                 /\ Uncount(heads, h)[g].tree \subseteq heads[g].tree
<1>1. Uncount(heads, h) = [heads EXCEPT ![h] = IF heads[h].count = 1 THEN Free
                            ELSE [heads[h] EXCEPT !.count = heads[h].count - 1]]
  BY Zenon DEF Uncount
<1>2. CASE h \notin Headers
  <2>1. Uncount(heads, h) = heads
    BY <1>1, <1>2
  <2> QED  BY <2>1
<1>3. CASE h \in Headers
  <2>1. heads[h] \in Heads
    BY <1>3
  <2>a. heads[h].count - 1 \in Int
    BY <2>1 DEF Heads
  <2>2. [heads[h] EXCEPT !.count = heads[h].count - 1] \in Heads
        /\ [heads[h] EXCEPT !.count = heads[h].count - 1].parent = heads[h].parent
        /\ [heads[h] EXCEPT !.count = heads[h].count - 1].tree = heads[h].tree
    BY <2>1, <2>a, FieldsKept
  <2> QED  BY <1>1, <2>2, FreshTyped
<1> QED  BY <1>2, <1>3

\* erase_header adds no entry and no parent.
LEMMA ErasedTyped ==
    ASSUME SysctlTypeOK, NEW h, hd' = Erased(h) PROVE Shrinks
<1> DEFINE p    == hd[h].parent
           one  == [hd EXCEPT ![p].tree = @ \ (Names(h) \X {h})]
           two  == [one EXCEPT ![h].live = FALSE]
           three == [two EXCEPT ![h].dying = Nobody]
<1>1. hd' = Uncount(three, h)
  BY DEF Erased
<1>2. one \in [Headers -> Heads] /\ \A g \in Headers : one[g].parent = hd[g].parent /\ one[g].tree \subseteq hd[g].tree
  <2>1. CASE p \notin Headers
    BY <2>1 DEF SysctlTypeOK, TablesTyped, UsersTyped
  <2>2. CASE p \in Headers
    <3>1. hd \in [Headers -> Heads] /\ hd[p] \in Heads
      BY <2>2 DEF SysctlTypeOK, TablesTyped, UsersTyped
    <3>2. hd[p].tree \ (Names(h) \X {h}) \in SUBSET (Nat \X Headers)
      BY <3>1 DEF Heads
    <3>3. LET s == [hd[p] EXCEPT !.tree = hd[p].tree \ (Names(h) \X {h})]
          IN  s \in Heads /\ s.parent = hd[p].parent /\ s.tree = hd[p].tree \ (Names(h) \X {h})
      BY ZenonT(60), <3>1, <3>2, FieldsKept
    <3> QED  BY <3>1, <3>3
  <2> QED  BY <2>1, <2>2
<1>3. two \in [Headers -> Heads] /\ \A g \in Headers : two[g].parent = one[g].parent /\ two[g].tree = one[g].tree
  <2> HIDE DEF one
  <2> QED  BY ZenonT(60), <1>2 DEF Heads
<1>4. three \in [Headers -> Heads] /\ \A g \in Headers : three[g].parent = two[g].parent /\ three[g].tree = two[g].tree
  <2> HIDE DEF two
  <2> QED  BY ZenonT(60), <1>3 DEF Heads
<1> HIDE DEF one, two, three
<1>5. hd' \in [Headers -> Heads] /\ \A g \in Headers : hd'[g].parent \in {three[g].parent, NIL} /\ hd'[g].tree \subseteq three[g].tree
  BY <1>1, <1>4, UncountTyped
<1> QED  BY <1>2, <1>3, <1>4, <1>5 DEF Shrinks

\* get_subdir takes a directory of the set.
LEMMA FoundTyped ==
    ASSUME SysctlBounds, SysctlTypeOK, TreesApart, NEW c \in Clients, work[c] # <<>>,
           NEW d \in Headers, Set(d) = SetOf[c], NEW ops \in Seq(MidOps(c)),
           Found(c, d, ops), at[c] # NIL
    PROVE  Shrinks /\ AtTyped /\ TodoTyped' /\ lock' = c /\ revived' \in BOOLEAN
<1>1. Shrinks
  <2>1. hd' = Counted(hd, d, 1)
    BY DEF Found, Counted
  <2>2. hd \in [Headers -> Heads] /\ 1 \in Int
    BY DEF SysctlTypeOK, TablesTyped, UsersTyped
  <2> QED  BY <2>1, <2>2, CountTyped DEF Shrinks, Alike
<1>2. AtTyped
  BY DEF Found, AtTyped, SysctlTypeOK, TablesTyped, UsersTyped, TreesApart, Maybe
<1>3. TodoTyped'
  <2>1. at[c] \in Headers
    BY DEF SysctlTypeOK, TablesTyped, UsersTyped, Maybe
  <2>2. <<PutHeader(at[c])>> \o ops \o <<Op("unlock")>> \in Seq(MidOps(c))
    <3>1. <<PutHeader(at[c])>> \in Seq(MidOps(c)) /\ <<Op("unlock")>> \in Seq(MidOps(c))
      BY <2>1, OpsBuilt, SeqBuilt
    <3> QED  BY <3>1, SeqBuilt
  <2>3. First(c, <<PutHeader(at[c])>> \o ops \o <<Op("unlock")>>)
    BY DEF Found
  <2>4. \A b \in Clients : at'[b] = IF b = c THEN d ELSE at[b]
    BY DEF Found, SysctlTypeOK, TablesTyped, UsersTyped
  <2>5. d # NIL
    BY DEF SysctlBounds
  <2> QED  BY <2>2, <2>3, <2>4, <2>5, FirstTyped
<1>4. lock' = c /\ revived' \in BOOLEAN
  BY DEF Found, Locked, Revive, SysctlTypeOK, TablesTyped, UsersTyped
<1> QED  BY <1>1, <1>2, <1>3, <1>4

\* An insertion that fails.
LEMMA InsertFailsTyped ==
    ASSUME SysctlBounds, SysctlTypeOK, NEW c \in Clients, NEW h \in OwnHeads(c),
           NEW d \in Headers, NEW ops \in Seq(MidOps(c)), InsertFails(c, h, d, ops),
           UNCHANGED at, at[c] # NIL
    PROVE  TodoTyped'
<1>1. h \in Headers
  BY KindsTyped
<1>2. <<PutHeader(d)>> \in Seq(MidOps(c)) /\ (IF h[2] = "dir" THEN <<PutHeader(h)>> ELSE <<>>) \in Seq(MidOps(c))
  BY <1>1, OpsBuilt, SeqBuilt
<1>3. ops \o <<PutHeader(d)>> \o (IF h[2] = "dir" THEN <<PutHeader(h)>> ELSE <<>>) \in Seq(MidOps(c))
  BY <1>2, SeqBuilt
<1> QED  BY <1>3, FailTyped DEF InsertFails

\* What each step of a client keeps.
Post == TablesTyped' /\ TreesApart'

\* Headers are typed.
LEMMA HeadsTyped == ASSUME SysctlTypeOK
                    PROVE  hd \in [Headers -> Heads] /\ 1 \in Int /\ -1 \in Int
BY DEF SysctlTypeOK, TablesTyped, UsersTyped

\* Steps that leave the headers alone.
LEMMA SameHeads ==
    ASSUME SysctlTypeOK, UNCHANGED hd
    PROVE  Shrinks
BY DEF Shrinks, SysctlTypeOK, TablesTyped, UsersTyped

\* Steps that leave the directories of the registrations alone.
LEMMA SameAt ==
    ASSUME SysctlTypeOK, TreesApart, UNCHANGED at
    PROVE  AtTyped
BY DEF AtTyped, SysctlTypeOK, TablesTyped, UsersTyped, TreesApart

\* Steps of c, whatever they change at c, keep what they do not mention.
LEMMA RegisterStep ==
    ASSUME SysctlBounds, SysctlTypeOK, TreesApart, NEW c \in Clients, RegisterTable(c)
    PROVE  Post
<1> DEFINE h == <<c, "file">>
           root == SetDir(SetOf[c])
           ops == <<Op("walk"), <<"insert", h>>, Op("in")>>
<1>1. h \in Headers /\ h \in OwnHeads(c) /\ root \in Headers /\ Set(root) = SetOf[c] /\ root # NIL
  <2>1. SetOf[c] \in Sets /\ NIL \notin Headers
    BY DEF SysctlBounds
  <2>2. h \in OwnHeads(c)
    BY DEF OwnHeads
  <2>3. h \in Headers /\ root \in Headers /\ Set(root) = SetOf[c]
    BY <2>1, <2>2, KindsTyped
  <2> QED  BY <2>1, <2>2, <2>3
<1>2. Shrinks
  <2> DEFINE one == [hd EXCEPT ![h] = Fresh(1)]
  <2>1. one \in [Headers -> Heads] /\ \A g \in Headers : one[g].parent \in {hd[g].parent, NIL}
                                                    /\ one[g].tree \subseteq hd[g].tree
    <3>1. Fresh(1) \in Heads /\ Fresh(1).parent = NIL /\ Fresh(1).tree = {}
      BY FreshTyped
    <3>2. one \in [Headers -> Heads]
      BY <3>1, <1>1, HeadsTyped
    <3>3. \A g \in Headers : one[g] = IF g = h THEN Fresh(1) ELSE hd[g]
      BY <1>1, HeadsTyped
    <3> HIDE DEF h, one
    <3> QED  BY <3>1, <3>2, <3>3
  <2>2. hd' = Counted(one, root, 1)
    <3>1. h # root
      BY DEF SetDir
    <3>2. hd' = [hd EXCEPT ![h] = Fresh(1), ![root].nreg = @ + 1]
      BY DEF RegisterTable
    <3> HIDE DEF h, root
    <3> QED  BY <1>1, <3>1, <3>2, HeadsTyped DEF Counted
  <2> HIDE DEF one
  <2>3. Alike(hd', one)
    BY <2>1, <2>2, HeadsTyped, CountTyped
  <2> QED  BY <2>1, <2>3 DEF Shrinks, Alike
<1>3. AtTyped /\ \A b \in Clients : at'[b] = IF b = c THEN root ELSE at[b]
  BY <1>1 DEF RegisterTable, AtTyped, SysctlTypeOK, TablesTyped, UsersTyped, TreesApart, Maybe
<1>4. TodoTyped'
  <2>1. ops \in Seq(OpsOf(c)) /\ Len(ops) = 3 /\ ops[1] \in MidOps(c) /\ ops[2] \in MidOps(c)
    BY <1>1, OpsBuilt, SeqBuilt
  <2>2. work' = [work EXCEPT ![c] = ops]
    BY DEF RegisterTable
  <2> HIDE DEF ops, root, h
  <2>3. Good(c, ops)
    BY <2>1 DEF Good
  <2> QED  BY <1>1, <1>3, <2>2, <2>3, TodoSet
<1>5. UNCHANGED <<lock, in, revived>>
  BY DEF RegisterTable
<1> QED  BY <1>2, <1>3, <1>4, <1>5, ShrinksTyped DEF Post, SysctlTypeOK, TablesTyped, UsersTyped

\* A step that finds the directory.
LEMMA FoundStep ==
    ASSUME SysctlBounds, SysctlTypeOK, TreesApart, NEW c \in Clients, work[c] # <<>>,
           NEW d \in Headers, Set(d) = SetOf[c], NEW ops \in Seq(MidOps(c)),
           Found(c, d, ops), at[c] # NIL, UNCHANGED in
    PROVE  Post
<1>1. Shrinks /\ AtTyped /\ TodoTyped' /\ lock' = c /\ revived' \in BOOLEAN
  BY FoundTyped
<1> QED  BY <1>1, ShrinksTyped DEF Post, SysctlTypeOK, TablesTyped, UsersTyped

\* A step that changes but what there is to do.
LEMMA SameStep ==
    ASSUME SysctlTypeOK, TreesApart, Shrinks, UNCHANGED <<at, in>>, TodoTyped',
           lock' \in Clients \cup {NIL}, revived' \in BOOLEAN
    PROVE  Post
BY SameAt, ShrinksTyped DEF Post, SysctlTypeOK, TablesTyped, UsersTyped

\* A client that still does its registration knows the directory.
LEMMA AtKnown ==
    ASSUME SysctlTypeOK, TreesApart, NEW c \in Clients, work[c] # <<>>,
           Head(work[c])[1] \in {"walk", "make", "look", "take", "insert", "entries", "links",
                                 "in", "fail"}
    PROVE  at[c] \in Headers /\ at[c] # NIL /\ Set(at[c]) = SetOf[c]
<1>1. Head(work[c]) \notin AfterOps
  BY DEF AfterOps
<1> QED  BY <1>1, OpTyped DEF SysctlTypeOK, TablesTyped, UsersTyped, TreesApart, Maybe

\* get_subdir looks for the directory, before and after it allocates a new one.
LEMMA WalkStep ==
    ASSUME SysctlBounds, SysctlTypeOK, TreesApart, NEW c \in Clients, Walk(c) \/ Look(c)
    PROVE  Post
<1> DEFINE d == Find(at[c], DirOf[c])
           new == <<c, "dir">>
<1>1. work[c] # <<>> /\ UNCHANGED in /\ at[c] \in Headers /\ Set(at[c]) = SetOf[c] /\ at[c] # NIL
  BY AtKnown DEF Walk, Look, About
<1>2. d # NIL => d \in Headers /\ Set(d) = SetOf[c]
  BY <1>1, FoundIn
<1>a. new \in OwnHeads(c) /\ new \in Headers
  BY KindsTyped DEF OwnHeads
<1>b. <<PutHeader(new)>> \in Seq(MidOps(c)) /\ <<PutHeader(at[c]), PutHeader(new)>> \in Seq(MidOps(c))
      /\ <<PutHeader(at[c])>> \in Seq(MidOps(c)) /\ <<Op("make")>> \in Seq(MidOps(c))
      /\ <<<<"insert", new>>, Op("take")>> \in Seq(MidOps(c)) /\ <<>> \in Seq(MidOps(c))
  BY <1>1, <1>a, OpsBuilt, SeqBuilt DEF Maybe
<1>3. ASSUME NEW ops \in Seq(MidOps(c)), First(c, ops), lock' \in {NIL, c},
             UNCHANGED <<hd, at, revived>>
      PROVE  Post
  BY <1>1, <1>3, FirstTyped, SameHeads, SameStep DEF SysctlTypeOK, TablesTyped, UsersTyped
<1>4. ASSUME NEW ops \in Seq(MidOps(c)), d # NIL, Found(c, d, ops)
      PROVE  Post
  BY <1>1, <1>2, <1>4, FoundStep
<1>5. ASSUME NEW ops \in Seq(MidOps(c)), Fail(c, ops), Locked(c), UNCHANGED <<hd, at, revived>>
      PROVE  Post
  BY <1>1, <1>5, FailTyped, SameHeads, SameStep DEF Locked, SysctlTypeOK, TablesTyped, UsersTyped
<1>6. CASE Walk(c)
  <2>1. \/ First(c, <<Op("make")>>) /\ lock' = NIL /\ UNCHANGED <<hd, at, revived>>
        \/ d # NIL /\ Found(c, d, <<>>)
        \/ Fail(c, <<PutHeader(at[c])>>) /\ Locked(c) /\ UNCHANGED <<hd, at, revived>>
    BY <1>6, Zenon DEF Walk, Unlocked
  <2> HIDE DEF d, new
  <2> QED  BY <1>b, <1>3, <1>4, <1>5, <2>1
<1>7. CASE Look(c)
  <2>1. \/ First(c, <<<<"insert", new>>, Op("take")>>) /\ lock' = c /\ UNCHANGED <<hd, at, revived>>
        \/ d # NIL /\ Found(c, d, <<PutHeader(new)>>)
        \/ Fail(c, <<PutHeader(at[c]), PutHeader(new)>>) /\ Locked(c) /\ UNCHANGED <<hd, at, revived>>
    BY <1>7, Zenon DEF Look, Locked
  <2> HIDE DEF d, new
  <2> QED  BY <1>b, <1>3, <1>4, <1>5, <2>1
<1> QED  BY <1>6, <1>7

\* new_dir.
LEMMA AllocateStep ==
    ASSUME SysctlBounds, SysctlTypeOK, TreesApart, NEW c \in Clients, Allocate(c)
    PROVE  Post
<1> DEFINE new == <<c, "dir">>
<1>1. work[c] # <<>> /\ UNCHANGED <<lock, at, in, revived>> /\ at[c] # NIL /\ at[c] \in Headers
  BY AtKnown DEF Allocate, About
<1>2. CASE hd' = [hd EXCEPT ![new] = Fresh(1)] /\ First(c, <<Op("look")>>)
  <2>1. Shrinks
    <3>1. Fresh(1) \in Heads /\ Fresh(1).parent = NIL /\ Fresh(1).tree = {}
      BY FreshTyped
    <3>2. new \in Headers
      BY KindsTyped DEF Kinds
    <3> HIDE DEF new
    <3> QED  BY <1>2, <3>1, <3>2, HeadsTyped DEF Shrinks
  <2>2. TodoTyped'
    <3>1. <<Op("look")>> \in Seq(MidOps(c))
      BY OpsBuilt, SeqBuilt
    <3> QED  BY <1>1, <1>2, <3>1, FirstTyped
  <2> QED  BY <1>1, <2>1, <2>2, SameStep DEF SysctlTypeOK, TablesTyped, UsersTyped
<1>3. CASE Fail(c, <<PutHeader(at[c])>>) /\ UNCHANGED hd
  <2>1. <<PutHeader(at[c])>> \in Seq(MidOps(c))
    BY <1>1, OpsBuilt, SeqBuilt
  <2> QED  BY <1>1, <1>3, <2>1, FailTyped, SameHeads, SameStep DEF SysctlTypeOK, TablesTyped, UsersTyped
<1> QED  BY <1>2, <1>3 DEF Allocate

\* get_subdir takes the directory that it has made.
LEMMA TakeStep ==
    ASSUME SysctlBounds, SysctlTypeOK, TreesApart, NEW c \in Clients, Take(c)
    PROVE  Post
<1> DEFINE new == <<c, "dir">>
<1>1. work[c] # <<>> /\ UNCHANGED in /\ Found(c, new, <<PutHeader(new)>>) /\ at[c] # NIL
  BY AtKnown DEF Take, About
<1>2. new \in Headers /\ Set(new) = SetOf[c]
  BY KindsTyped DEF OwnHeads
<1>3. <<PutHeader(new)>> \in Seq(MidOps(c))
  BY <1>2, OpsBuilt, SeqBuilt
<1> HIDE DEF new
<1> QED  BY <1>1, <1>2, <1>3, FoundStep

\* Links that are there get their references.
LEMMA LinksTyped ==
    ASSUME SysctlBounds, NEW heads \in [Headers -> Heads], NEW cp, NEW h \in Headers
    PROVE  Alike(GetLinks(heads, cp, h), heads)
<1> DEFINE k(l) == Cardinality({n \in Names(h) : Find(cp, n) = l})
<1>1. ASSUME NEW l \in Headers PROVE k(l) \in Int
  <2>1. IsFiniteSet({n \in Names(h) : Find(cp, n) = l})
    BY NamesTyped, FS_Subset
  <2> QED  BY <2>1, FS_CardinalityType
<1> HIDE DEF k
<1>2. GetLinks(heads, cp, h) = [l \in Headers |-> [heads[l] EXCEPT !.nreg = heads[l].nreg + k(l)]]
  BY DEF GetLinks, k
<1>3. ASSUME NEW l \in Headers
      PROVE  LET s == [heads[l] EXCEPT !.nreg = heads[l].nreg + k(l)]
             IN  s \in Heads /\ s.parent = heads[l].parent /\ s.tree = heads[l].tree
  <2>1. heads[l].nreg + k(l) \in Int
    BY <1>1 DEF Heads
  <2> QED  BY <2>1, FieldsKept
<1> QED  BY <1>2, <1>3 DEF Alike

\* insert_header gives a header the registration's directory for its parent.
LEMMA InsertStep ==
    ASSUME SysctlBounds, SysctlTypeOK, TreesApart, NEW c \in Clients, InsertHeader(c)
    PROVE  Post
<1> DEFINE h  == Arg(c)
           d == at[c]
           cp == IF Set(h) = "core" THEN NIL ELSE XlateDir("core", d)
           mount == Names(h) = {}
           new == [hd EXCEPT ![h].parent = d, ![d].nreg = @ + 1, ![d].sealed = @ \/ mount]
<1>1. /\ work[c] # <<>> /\ UNCHANGED <<at, in>> /\ h \in OwnHeads(c) /\ h \in Headers
      /\ Set(h) = SetOf[c] /\ d \in Headers /\ Set(d) = SetOf[c] /\ d # NIL /\ d \in Maybe
  BY AtKnown, OpTyped, KindsTyped DEF InsertHeader, About, Arg, Maybe
<1>2. cp # NIL => cp \in CoreDirs
  <2>1. XlateDir("core", d) # NIL => XlateDir("core", d) \in Headers /\ Set(XlateDir("core", d)) = "core"
                             /\ IsDir(XlateDir("core", d))
    BY XlateIn DEF SysctlBounds
  <2> QED  BY <2>1 DEF CoreDirs
<1>3. \/ InsertFails(c, h, d, <<>>) /\ Locked(c) /\ UNCHANGED <<hd, revived>>
      \/ /\ hd' = IF cp = NIL THEN new ELSE GetLinks(new, cp, h)
         /\ Revive(IF cp = NIL THEN {} ELSE Linked(cp, h))
         /\ First(c, <<<<"entries", h>>>>) /\ Locked(c)
      \/ /\ cp # NIL /\ hd' = [new EXCEPT ![cp].nreg = @ + 1]
         /\ Revive({cp})
         /\ First(c, <<<<"links", h, cp>>>>) /\ Unlocked
  BY Zenon DEF InsertHeader
<1>4. /\ new \in [Headers -> Heads]
      /\ \A g \in Headers : new[g].parent = (IF g = h THEN d ELSE hd[g].parent)
                            /\ new[g].tree = hd[g].tree
  <2> DEFINE one == [hd EXCEPT ![h] = [hd[h] EXCEPT !.parent = d]]
             two == Counted(one, d, 1)
             three == [two EXCEPT ![d] = [two[d] EXCEPT !.sealed = two[d].sealed \/ mount]]
  <2>1. one \in [Headers -> Heads] /\ \A g \in Headers : one[g].parent = (IF g = h THEN d ELSE hd[g].parent)
                                                     /\ one[g].tree = hd[g].tree
    <3>1. LET s == [hd[h] EXCEPT !.parent = d]
          IN  s \in Heads /\ s.parent = d /\ s.tree = hd[h].tree
      BY <1>1, HeadsTyped, FieldsKept
    <3> QED  BY <3>1, <1>1, HeadsTyped
  <2> HIDE DEF one
  <2>2. Alike(two, one)
    BY <2>1, HeadsTyped, CountTyped
  <2> HIDE DEF two
  <2>3. Alike(three, two)
    <3>1. two \in [Headers -> Heads] /\ two[d] \in Heads
      BY <2>2, <1>1 DEF Alike
    <3>2. (two[d].sealed \/ mount) \in BOOLEAN
      BY <3>1 DEF Heads
    <3>3. LET s == [two[d] EXCEPT !.sealed = two[d].sealed \/ mount]
          IN  s \in Heads /\ s.parent = two[d].parent /\ s.tree = two[d].tree
      BY <3>1, <3>2, FieldsKept
    <3> QED  BY <3>1, <3>3 DEF Alike
  <2>4. new = three
    BY DEF three, two, one, Counted
  <2> HIDE DEF three
  <2> QED  BY ZenonT(60), <2>1, <2>2, <2>3, <2>4 DEF Alike
<1>r. lock' \in {c, NIL} /\ revived' \in BOOLEAN
  BY <1>3 DEF Locked, Unlocked, Revive, SysctlTypeOK, TablesTyped, UsersTyped
<1> HIDE DEF new, cp, mount, d, h
<1>5. ASSUME Alike(hd', new) PROVE Fits
  BY <1>1, <1>4, <1>5 DEF Fits, Alike
<1>6. CASE InsertFails(c, h, d, <<>>) /\ UNCHANGED hd
  <2>1. TodoTyped'
    BY <1>1, <1>6, InsertFailsTyped, SeqBuilt DEF d
  <2> QED  BY <1>1, <1>r, <1>6, <2>1, SameHeads, SameStep DEF SysctlTypeOK, TablesTyped, UsersTyped
<1>7. ASSUME NEW ops \in Seq(MidOps(c)), First(c, ops), Alike(hd', new) PROVE Post
  <2>1. TodoTyped'
    BY <1>1, <1>7, FirstTyped DEF d
  <2>2. AtTyped
    BY <1>1, SameAt
  <2> QED  BY <1>1, <1>5, <1>7, <1>r, <2>1, <2>2, FitsTyped DEF Post, SysctlTypeOK, TablesTyped, UsersTyped
<1>8. CASE hd' = (IF cp = NIL THEN new ELSE GetLinks(new, cp, h)) /\ First(c, <<<<"entries", h>>>>)
  <2>1. Alike(hd', new)
    BY <1>8, <1>4, <1>1, LinksTyped DEF Alike
  <2>2. <<<<"entries", h>>>> \in Seq(MidOps(c))
    BY <1>1, OpsBuilt, SeqBuilt
  <2> QED  BY <1>7, <1>8, <2>1, <2>2
<1>9. CASE cp # NIL /\ hd' = [new EXCEPT ![cp].nreg = @ + 1] /\ First(c, <<<<"links", h, cp>>>>)
  <2>1. hd' = Counted(new, cp, 1)
    BY <1>9 DEF Counted
  <2>2. Alike(hd', new)
    BY <1>4, <2>1, HeadsTyped, CountTyped
  <2>3. <<<<"links", h, cp>>>> \in Seq(MidOps(c))
    BY <1>1, <1>2, <1>9, OpsBuilt, SeqBuilt
  <2> QED  BY <1>7, <1>9, <2>2, <2>3
<1> QED  BY <1>3, <1>6, <1>8, <1>9

\* insert_links puts links in a directory of the core.
LEMMA LinksStep ==
    ASSUME SysctlBounds, SysctlTypeOK, TreesApart, NEW c \in Clients, Links(c), oops' = NIL
    PROVE  Post
<1> DEFINE h  == Arg(c)
           cp == Head(work[c])[3]
           l  == LinkOf(h)
           n  == Cardinality(Names(h))
<1>1. /\ work[c] # <<>> /\ UNCHANGED <<at, in>> /\ lock' = c
      /\ at[c] \in Headers /\ at[c] # NIL
      /\ h \in OwnHeads(c) /\ h \in Headers /\ cp \in CoreDirs /\ cp \in Headers /\ cp # NIL
      /\ l \in Headers /\ Set(l) = "core" /\ l # cp
  <2>1. work[c] # <<>> /\ UNCHANGED <<at, in>> /\ lock' = c
    BY DEF Links, About, Locked
  <2>2. Head(work[c])[1] = "links"
    BY DEF Links, About
  <2>3. at[c] \in Headers /\ at[c] # NIL
    BY <2>1, <2>2, AtKnown
  <2>4. h \in OwnHeads(c) /\ cp \in CoreDirs
    BY <2>1, <2>2, OpTyped DEF Arg
  <2>5. h \in Headers /\ l \in Headers /\ Set(l) = "core" /\ ~IsDir(l)
    BY <2>4, KindsTyped
  <2> HIDE DEF h, cp, l
  <2>6. cp \in Headers /\ IsDir(cp) /\ cp # NIL
    BY <2>4 DEF CoreDirs, SysctlBounds
  <2> QED  BY <2>1, <2>3, <2>4, <2>5, <2>6
<1>2. \/ LinksFail(c, h, cp) /\ UNCHANGED revived
      \/ /\ hd' = GetLinks(hd, cp, h)
         /\ First(c, <<PutHeader(cp), <<"entries", h>>>>)
         /\ Revive(Linked(cp, h))
      \/ /\ hd' = [hd EXCEPT ![l] = [Fresh(n) EXCEPT !.parent = cp],
                             ![cp].nreg = @ + 1, ![cp].tree = @ \cup (Names(h) \X {l})]
         /\ First(c, <<PutHeader(cp), <<"entries", h>>>>)
         /\ UNCHANGED revived
      \/ oops' = "spoiled" /\ UNCHANGED <<hd, work, revived>>
  BY Zenon DEF Links
<1>3. revived' \in BOOLEAN
  BY <1>2 DEF Revive, SysctlTypeOK, TablesTyped, UsersTyped
<1>4. <<PutHeader(cp), <<"entries", h>>>> \in Seq(MidOps(c)) /\ <<PutHeader(cp), PutHeader(at[c])>> \in Seq(MidOps(c))
  <2> HIDE DEF h, cp
  <2> QED  BY <1>1, OpsBuilt, SeqBuilt
<1>n. n \in Int /\ Names(h) \X {l} \in SUBSET (Nat \X Headers)
  <2>1. h \in Headers
    BY <1>1
  <2> HIDE DEF h
  <2>2. IsFiniteSet(Names(h)) /\ Names(h) \in SUBSET Nat
    BY <2>1, NamesTyped
  <2>3. Cardinality(Names(h)) \in Int
    BY <2>2, FS_CardinalityType
  <2> QED  BY <1>1, <2>2, <2>3
<1> HIDE DEF h, cp, l, n
<1>5. CASE LinksFail(c, h, cp) /\ UNCHANGED revived
  <2>1. TodoTyped'
    BY <1>1, <1>4, <1>5, InsertFailsTyped DEF LinksFail
  <2>2. hd' = [hd EXCEPT ![h] = [hd[h] EXCEPT !.parent = NIL]]
    BY <1>5 DEF LinksFail
  <2>3. LET s == [hd[h] EXCEPT !.parent = NIL]
        IN  s \in Heads /\ s.parent = NIL /\ s.tree = hd[h].tree
    BY <1>1, HeadsTyped, FieldsKept DEF Maybe
  <2>4. Shrinks
    BY <1>1, <2>2, <2>3, HeadsTyped DEF Shrinks
  <2> QED  BY <1>1, <1>3, <2>1, <2>4, SameStep
<1>6. CASE hd' = GetLinks(hd, cp, h) /\ First(c, <<PutHeader(cp), <<"entries", h>>>>)
  <2>1. TodoTyped'
    BY <1>1, <1>4, <1>6, FirstTyped
  <2>2. Alike(hd', hd)
    BY <1>1, <1>6, HeadsTyped, LinksTyped
  <2>3. Shrinks
    BY <2>2 DEF Alike, Shrinks
  <2> QED  BY <1>1, <1>3, <2>1, <2>3, SameStep
<1>7. CASE /\ hd' = [hd EXCEPT ![l] = [Fresh(n) EXCEPT !.parent = cp],
                               ![cp].nreg = @ + 1, ![cp].tree = @ \cup (Names(h) \X {l})]
           /\ First(c, <<PutHeader(cp), <<"entries", h>>>>)
  <2>1. TodoTyped'
    BY <1>1, <1>4, <1>7, FirstTyped
  <2> DEFINE new == [Fresh(n) EXCEPT !.parent = cp]
             t == hd[cp].tree \cup (Names(h) \X {l})
             up == [hd[cp] EXCEPT !.nreg = hd[cp].nreg + 1]
             down == [up EXCEPT !.tree = t]
  <2>2. new \in Heads /\ new.parent = cp /\ new.tree = {}
    <3>1. Fresh(n) \in Heads /\ Fresh(n).tree = {}
      BY <1>n, FreshTyped
    <3> QED  BY <1>1, <3>1, FieldsKept DEF Maybe
  <2>3. down \in Heads /\ down.parent = hd[cp].parent /\ down.tree = t
    <3>1. hd[cp] \in Heads /\ hd[cp].nreg + 1 \in Int /\ t \in SUBSET (Nat \X Headers)
      BY <1>1, <1>n, HeadsTyped DEF Heads
    <3>2. up \in Heads /\ up.parent = hd[cp].parent
      BY <3>1, FieldsKept
    <3> HIDE DEF up, t
    <3> QED  BY <3>1, <3>2, FieldsKept
  <2>4. \A g \in Headers : hd'[g] = IF g = l THEN new ELSE IF g = cp THEN down ELSE hd[g]
    <3>1. hd' = [hd EXCEPT ![l] = new, ![cp] = down]
      BY <1>1, <1>7, HeadsTyped
    <3> HIDE DEF new, down
    <3> QED  BY <1>1, <3>1, HeadsTyped
  <2>5. hd' \in [Headers -> Heads]
    <3>1. hd' = [hd EXCEPT ![l] = new, ![cp] = down]
      BY <1>1, <1>7, HeadsTyped
    <3> HIDE DEF new, down
    <3> QED  BY <1>1, <2>2, <2>3, <3>1, HeadsTyped
  <2> HIDE DEF new, down
  <2>6. Fits
    <3>1. ASSUME NEW g \in Headers PROVE hd'[g].parent \in {hd[g].parent, NIL} \/ Set(hd'[g].parent) = Set(g)
      BY <1>1, <2>2, <2>3, <2>4 DEF CoreDirs
    <3>2. ASSUME NEW g \in Headers, NEW e \in hd'[g].tree PROVE e \in hd[g].tree \/ Set(e[2]) = Set(g)
      BY <1>1, <2>2, <2>3, <2>4, <3>2 DEF CoreDirs
    <3> QED  BY <2>5, <3>1, <3>2, Zenon DEF Fits
  <2>7. AtTyped
    BY <1>1, SameAt
  <2> QED  BY <1>1, <1>3, <2>1, <2>6, <2>7, FitsTyped DEF Post, SysctlTypeOK, TablesTyped, UsersTyped
<1> QED  BY <1>2, <1>5, <1>6, <1>7 DEF SysctlBounds

\* insert_entry puts a header in the tree of its parent.
LEMMA EntriesStep ==
    ASSUME SysctlBounds, SysctlTypeOK, TreesApart, NEW c \in Clients, Entries(c), oops' = NIL
    PROVE  Post
<1> DEFINE h == Arg(c)
           d == hd[h].parent
           t == hd[d].tree \cup (Names(h) \X {h})
<1>1. /\ work[c] # <<>> /\ UNCHANGED <<at, in, revived>> /\ lock' = c
      /\ at[c] # NIL /\ h \in Headers
      /\ hd' = [hd EXCEPT ![d].tree = @ \cup (Names(h) \X {h})] /\ First(c, <<>>)
  <2>1. work[c] # <<>> /\ Head(work[c])[1] = "entries" /\ UNCHANGED <<at, in, revived>> /\ lock' = c
    BY DEF Entries, About, Locked
  <2>2. hd' = [hd EXCEPT ![d].tree = @ \cup (Names(h) \X {h})] /\ First(c, <<>>)
    <3>1. \/ hd' = [hd EXCEPT ![d].tree = @ \cup (Names(h) \X {h})] /\ First(c, <<>>)
          \/ oops' = "spoiled"
      BY Zenon DEF Entries
    <3> QED  BY <3>1 DEF SysctlBounds
  <2>3. at[c] # NIL
    BY <2>1, AtKnown
  <2>4. h \in Headers
    BY <2>1, OpTyped, KindsTyped DEF Arg
  <2> QED  BY <2>1, <2>2, <2>3, <2>4
<1>2. TodoTyped'
  BY <1>1, SeqBuilt, FirstTyped
<1>3. d # NIL => d \in Headers /\ Set(d) = Set(h)
  BY <1>1, HeadsTyped DEF Heads, Maybe, TreesApart
<1> HIDE DEF h, d
<1>n. Names(h) \X {h} \in SUBSET (Nat \X Headers)
  <2>1. Names(h) \in SUBSET Nat
    BY <1>1, NamesTyped
  <2> QED  BY <1>1, <2>1
<1>4. Fits
  <2>1. CASE d = NIL
    <3>1. hd' = hd
      BY <1>1, <2>1, HeadsTyped DEF SysctlBounds
    <3> QED  BY <3>1, HeadsTyped DEF Fits
  <2>2. CASE d # NIL
    <3>1. hd[d] \in Heads /\ t \in SUBSET (Nat \X Headers)
      BY <1>3, <1>n, <2>2, HeadsTyped DEF Heads
    <3> DEFINE new == [hd[d] EXCEPT !.tree = t]
    <3>2. hd' = [hd EXCEPT ![d] = new]
      BY <1>1
    <3> HIDE DEF t
    <3>3. new \in Heads /\ new.parent = hd[d].parent /\ new.tree = t
      BY <3>1, FieldsKept
    <3> HIDE DEF new
    <3>4. \A g \in Headers : hd'[g] = IF g = d THEN new ELSE hd[g]
      BY <3>2, HeadsTyped
    <3>5. hd' \in [Headers -> Heads]
      BY <3>2, <3>3, HeadsTyped
    <3>6. ASSUME NEW g \in Headers, NEW e \in hd'[g].tree PROVE e \in hd[g].tree \/ Set(e[2]) = Set(g)
      BY <1>1, <1>3, <2>2, <3>3, <3>4, <3>6 DEF t
    <3> QED  BY <3>3, <3>4, <3>5, <3>6 DEF Fits
  <2> QED  BY <2>1, <2>2
<1> QED  BY <1>1, <1>2, <1>4, SameAt, FitsTyped DEF Post, SysctlTypeOK, TablesTyped, UsersTyped

\* A header dropped and not the last one, or the last one with a parent to drop.
LEMMA DropStep ==
    ASSUME SysctlBounds, SysctlTypeOK, TreesApart, NEW c \in Clients, DropTable(c), oops' = NIL
    PROVE  Post
<1> DEFINE h == Arg(c)
           final == hd[h].nreg = 1
           ops == IF final THEN <<<<"putlinks", h>>, <<"unregister", h>>, PutHeader(hd[h].parent)>>
                  ELSE <<>>
<1>1. /\ work[c] # <<>> /\ UNCHANGED <<at, in, revived>> /\ lock' = c /\ First(c, ops)
      /\ hd' = [hd EXCEPT ![h].nreg = @ - 1] /\ (final => hd[h].parent # NIL)
      /\ Head(work[c])[1] = "drop"
  <2>1. /\ work[c] # <<>> /\ UNCHANGED <<at, in, revived>> /\ lock' = c
        /\ Head(work[c])[1] = "drop"
    BY DEF DropTable, About, Locked
  <2>2. First(c, ops) /\ hd' = [hd EXCEPT ![h].nreg = @ - 1]
    BY Zenon DEF DropTable
  <2>3. oops' = IF final /\ hd[h].parent = NIL THEN "null" ELSE NIL
    BY Zenon DEF DropTable
  <2> HIDE DEF h, ops
  <2>4. final => hd[h].parent # NIL
    BY <2>3 DEF SysctlBounds
  <2> QED  BY <2>1, <2>2, <2>4
<1>2. h \in Headers
  BY <1>1, OpTyped DEF Arg
<1>3. Shrinks
  <2>1. hd[h].nreg - 1 = hd[h].nreg + (-1)
    BY <1>2, HeadsTyped DEF Heads
  <2>2. hd' = Counted(hd, h, -1)
    BY <1>1, <2>1 DEF Counted
  <2>3. Alike(hd', hd)
    BY <2>2, HeadsTyped, CountTyped
  <2> QED  BY <2>3 DEF Alike, Shrinks
<1>4. ops \in Seq(AfterOps)
  <2> HIDE DEF h
  <2>1. CASE final
    <3>1. hd[h].parent \in Headers
      BY <1>1, <1>2, <2>1, HeadsTyped DEF Heads, Maybe
    <3>2. <<"putlinks", h>> \in AfterOps /\ <<"unregister", h>> \in AfterOps
          /\ PutHeader(hd[h].parent) \in AfterOps
      BY <1>2, <3>1, OpsBuilt
    <3> QED  BY <2>1, <3>2, SeqBuilt
  <2>2. CASE ~final
    BY <2>2, SeqBuilt
  <2> QED  BY <2>1, <2>2
<1>5. ops \in Seq(MidOps(c))
  BY <1>4, OpsBuilt, SeqWider
<1> HIDE DEF ops
<1>6. TodoTyped'
  BY <1>1, <1>4, <1>5, FirstTyped
<1> QED  BY <1>1, <1>3, <1>6, SameStep DEF SysctlTypeOK, TablesTyped, UsersTyped

\* What a step that follows a removal prepends is a removal's.
LEMMA AfterStep ==
    ASSUME SysctlTypeOK, TreesApart, NEW c \in Clients, work[c] # <<>>,
           NEW ops \in Seq(AfterOps), First(c, ops), UNCHANGED <<at, in, revived>>,
           lock' \in Clients \cup {NIL}, Shrinks, Head(work[c])[1] \notin {"in", "fail"}
    PROVE  Post
<1>1. ops \in Seq(MidOps(c))
  BY OpsBuilt, SeqWider
<1>2. TodoTyped'
  BY <1>1, FirstTyped
<1> QED  BY <1>2, SameStep DEF SysctlTypeOK, TablesTyped, UsersTyped

\* put_links has names of links to drop, or nothing to do.
LEMMA EachBuilt ==
    ASSUME NEW h \in Headers, NEW cp \in Maybe, NEW names \in SUBSET Nat
    PROVE  PutEach(h, cp, names) \in Seq(AfterOps)
<1>1. cp # NIL => <<"putlink", h, cp, names>> \in AfterOps
  BY DEF AfterOps, Maybe
<1> QED  BY <1>1, SeqBuilt DEF PutEach

\* put_links changes but what there is to do.
LEMMA PutLinksStep ==
    ASSUME SysctlBounds, SysctlTypeOK, TreesApart, NEW c \in Clients, PutLinks(c) \/ PutLink(c)
    PROVE  Post
<1>1. /\ work[c] # <<>> /\ UNCHANGED <<hd, lock, at, in, revived>>
      /\ Head(work[c])[1] \in {"putlinks", "putlink"}
  BY DEF PutLinks, PutLink, About
<1>2. Shrinks
  BY <1>1, SameHeads
<1>3. ASSUME NEW ops \in Seq(AfterOps), First(c, ops) PROVE Post
  BY <1>1, <1>2, <1>3, AfterStep DEF SysctlTypeOK, TablesTyped, UsersTyped
<1>4. CASE PutLinks(c)
  <2> DEFINE h  == Arg(c)
             x  == XlateDir("core", hd[h].parent)
             cp == IF Set(h) = "core" THEN NIL ELSE x
  <2>1. First(c, PutEach(h, cp, Names(h)))
    BY <1>4, Zenon DEF PutLinks
  <2>a. h \in Headers
    BY <1>1, OpTyped DEF Arg
  <2>2. h \in Headers /\ Names(h) \in SUBSET Nat
    <3> HIDE DEF h, cp, x
    <3> QED  BY <2>a, NamesTyped
  <2>3. x # NIL => x \in Headers
    BY XlateIn DEF SysctlBounds
  <2> HIDE DEF x, h
  <2>4. cp \in Maybe
    BY <2>3 DEF Maybe
  <2> HIDE DEF cp
  <2> QED  BY <1>3, <2>1, <2>2, <2>4, EachBuilt
<1>5. CASE PutLink(c)
  <2> DEFINE op == Head(work[c])
  <2>1. op[2] \in Headers /\ op[3] \in Headers /\ op[4] \in SUBSET Nat
    <3>1. op[1] = "putlink"
      BY <1>5 DEF PutLink, About
    <3> QED  BY <1>1, <3>1, OpTyped
  <2>2. PICK n \in op[4] :
           First(c, (IF Find(op[3], n) # NIL /\ (IF IsDir(Find(op[3], n)) THEN IsDir(op[2])
                                          ELSE IsLink(Find(op[3], n)))
                 THEN <<PutHeader(Find(op[3], n))>> ELSE <<>>)
                    \o PutEach(op[2], op[3], op[4] \ {n}))
    BY <1>5, Zenon DEF PutLink
  <2> HIDE DEF op
  <2>3. PutEach(op[2], op[3], op[4] \ {n}) \in Seq(AfterOps)
    BY <2>1, EachBuilt DEF Maybe
  <2>4. Find(op[3], n) # NIL => PutHeader(Find(op[3], n)) \in AfterOps
    BY <2>1, FoundIn, OpsBuilt
  <2> DEFINE first == IF Find(op[3], n) # NIL /\ (IF IsDir(Find(op[3], n)) THEN IsDir(op[2])
                                              ELSE IsLink(Find(op[3], n)))
                      THEN <<PutHeader(Find(op[3], n))>> ELSE <<>>
  <2>5. first \in Seq(AfterOps)
    BY <2>4, SeqBuilt
  <2>6. first \o PutEach(op[2], op[3], op[4] \ {n}) \in Seq(AfterOps)
    <3> HIDE DEF first
    <3> QED  BY <2>3, <2>5, SeqBuilt
  <2> QED  BY <1>3, <2>2, <2>6
<1> QED  BY <1>4, <1>5

\* start_unregistering, with and without somebody to wait for.
LEMMA UnregisteringStep ==
    ASSUME SysctlBounds, SysctlTypeOK, TreesApart, NEW c \in Clients,
           Unregistering(c) \/ Erase(c)
    PROVE  Post
<1> DEFINE h == Arg(c)
<1>1. /\ work[c] # <<>> /\ UNCHANGED <<at, in, revived>> /\ h \in Headers
      /\ Head(work[c])[1] \in {"unregister", "erase"}
  BY OpTyped DEF Unregistering, Erase, About, Arg
<1> HIDE DEF h
<1>2. \/ hd' = Erased(h) /\ First(c, <<>>) /\ lock' = c
      \/ hd' = [hd EXCEPT ![h].dying = c] /\ First(c, <<<<"wait", h>>>>) /\ lock' = NIL
  BY DEF Unregistering, Erase, Begin, Locked, Unlocked, h
<1>3. <<>> \in Seq(AfterOps) /\ <<<<"wait", h>>>> \in Seq(AfterOps)
  BY <1>1, OpsBuilt, SeqBuilt
<1>4. CASE hd' = Erased(h) /\ First(c, <<>>) /\ lock' = c
  BY <1>1, <1>3, <1>4, ErasedTyped, AfterStep
<1>5. CASE hd' = [hd EXCEPT ![h].dying = c] /\ First(c, <<<<"wait", h>>>>) /\ lock' = NIL
  <2> DEFINE s == [hd[h] EXCEPT !.dying = c]
  <2>1. s \in Heads /\ s.parent = hd[h].parent /\ s.tree = hd[h].tree
    BY <1>1, HeadsTyped, FieldsKept
  <2>2. hd' = [hd EXCEPT ![h] = s]
    BY <1>5
  <2> HIDE DEF s
  <2>3. Shrinks
    BY <1>1, <2>1, <2>2, HeadsTyped DEF Shrinks
  <2> QED  BY <1>1, <1>3, <1>5, <2>3, AfterStep
<1> QED  BY <1>2, <1>4, <1>5

\* The ends of __register_sysctl_table, and unregister_sysctl_table.
LEMMA ReturnStep ==
    ASSUME SysctlBounds, SysctlTypeOK, TreesApart, NEW c \in Clients,
           ReturnError(c) \/ Succeed(c) \/ UnregisterTable(c) \/ Unlock(c)
    PROVE  Post
<1> DEFINE f == <<c, "file">>
<1>1. f \in Headers
  BY KindsTyped DEF Kinds
<1>2. Shrinks
  <2>1. Free \in Heads /\ Free.parent = NIL /\ Free.tree = {}
    BY FreshTyped
  <2>2. hd' = hd \/ hd' = [hd EXCEPT ![f] = Free]
    BY DEF ReturnError, Succeed, UnregisterTable, Unlock
  <2> HIDE DEF f
  <2> QED  BY <1>1, <2>1, <2>2, HeadsTyped DEF Shrinks
<1>3. at' = at \/ at' = [at EXCEPT ![c] = NIL]
  BY DEF ReturnError, Succeed, UnregisterTable, Unlock
<1>4. AtTyped /\ \A b \in Clients \ {c} : at'[b] = at[b]
  BY <1>3 DEF AtTyped, SysctlTypeOK, TablesTyped, UsersTyped, TreesApart, Maybe
<1>5. lock' \in Clients \cup {NIL} /\ in' \subseteq Clients /\ UNCHANGED revived
  BY DEF ReturnError, Succeed, UnregisterTable, Unlock, Locked, Unlocked, SysctlTypeOK, TablesTyped, UsersTyped
<1>6. TodoTyped'
  <2> HIDE DEF f
  <2>1. CASE ReturnError(c)
    <3>1. First(c, <<>>) /\ work[c] # <<>> /\ Head(work[c])[1] = "fail"
      BY <2>1 DEF ReturnError, About
    <3> QED  BY <1>4, <3>1, SeqBuilt, FirstTyped
  <2>2. CASE Succeed(c)
    <3>1. First(c, <<PutHeader(at[c]), Op("unlock")>>) /\ work[c] # <<>> /\ Head(work[c])[1] = "in"
      BY <2>2 DEF Succeed, About
    <3>2. <<PutHeader(at[c]), Op("unlock")>> \in Seq(AfterOps)
      BY <3>1, AtKnown, OpsBuilt, SeqBuilt
    <3>3. <<PutHeader(at[c]), Op("unlock")>> \in Seq(MidOps(c))
      BY <3>2, OpsBuilt, SeqWider
    <3> QED  BY <1>4, <3>1, <3>2, <3>3, FirstTyped
  <2>3. CASE UnregisterTable(c)
    <3>1. work' = [work EXCEPT ![c] = <<PutHeader(f), Op("unlock")>>]
      BY <2>3 DEF UnregisterTable, f
    <3>2. <<PutHeader(f), Op("unlock")>> \in Seq(AfterOps)
      BY <1>1, OpsBuilt, SeqBuilt
    <3>3. Good(c, <<PutHeader(f), Op("unlock")>>)
      <4>1. <<PutHeader(f), Op("unlock")>> \in Seq(OpsOf(c)) /\ PutHeader(f) \in MidOps(c)
        BY <1>1, <3>2, OpsBuilt, SeqWider
      <4> QED  BY <4>1 DEF Good
    <3> QED  BY <1>4, <3>1, <3>2, <3>3, TodoSet
  <2>4. CASE Unlock(c)
    <3>1. First(c, <<>>) /\ work[c] # <<>> /\ UNCHANGED at
      BY <2>4 DEF Unlock, About
    <3> QED  BY <1>4, <3>1, SeqBuilt, FirstTyped
  <2> QED  BY <2>1, <2>2, <2>3, <2>4
<1> QED  BY <1>2, <1>4, <1>5, <1>6, ShrinksTyped DEF Post, SysctlTypeOK, TablesTyped, UsersTyped

\* Each step of a registration or removal in which nothing goes wrong.
LEMMA ClientStep ==
    ASSUME SysctlBounds, SysctlTypeOK, TreesApart, NEW c \in Clients, Client(c), oops' = NIL
    PROVE  Post
<1>1. ~Crash(c)
  BY DEF Crash, SysctlBounds
<1> QED
  BY <1>1, RegisterStep, WalkStep, AllocateStep, TakeStep, InsertStep, LinksStep, EntriesStep,
     DropStep, PutLinksStep, UnregisteringStep, ReturnStep, Zenon DEF Client, WorkStep

\* How often a header occurs is a number.
LEMMA OccursTyped == ASSUME NEW h, NEW s \in Seq(Headers) PROVE Occurs(h, s) \in Int
<1>1. DOMAIN s = 1 .. Len(s) /\ Len(s) \in Nat
  OBVIOUS
<1>2. IsFiniteSet(1 .. Len(s))
  BY <1>1, FS_Interval
<1>3. IsFiniteSet({i \in DOMAIN s : s[i] = h})
  BY <1>1, <1>2, FS_Subset
<1> QED  BY <1>3, FS_CardinalityType DEF Occurs

\* A process that begins or ceases to use headers leaves the trees alone.
LEMMA InUseStep ==
    ASSUME SysctlBounds, SysctlTypeOK, TreesApart, NEW u \in Processes, NEW heads, Alike(heads, hd),
           NEW new \in Seq(Headers), UseHeaders(u, heads, new), UNCHANGED NotUser
    PROVE  Post /\ holds' = [holds EXCEPT ![u] = new]
<1>1. /\ holds' = [holds EXCEPT ![u] = new] /\ UNCHANGED <<lock, at, in, revived>>
      /\ hd' = [h \in Headers |-> [heads[h] EXCEPT
                   !.used = heads[h].used + Occurs(h, new) - Occurs(h, holds[u])]]
  BY DEF UseHeaders, NotUser
<1>2. work' = [c \in Clients |-> IF work'[c] = work[c] THEN work[c]
                                 ELSE <<<<"erase", Arg(c)>>>> \o Tail(work[c])]
      /\ \A c \in Clients : work'[c] # work[c] => work[c] # <<>> /\ Head(work[c])[1] = "wait"
  BY DEF UseHeaders
<1>3. Alike(hd', hd)
  <2>1. ASSUME NEW h \in Headers
        PROVE  LET s == [heads[h] EXCEPT !.used = heads[h].used + Occurs(h, new) - Occurs(h, holds[u])]
               IN  s \in Heads /\ s.parent = hd[h].parent /\ s.tree = hd[h].tree
    <3>1. heads[h] \in Heads /\ heads[h].parent = hd[h].parent /\ heads[h].tree = hd[h].tree
      BY DEF Alike
    <3>2. heads[h].used \in Int
      BY <3>1 DEF Heads
    <3>3. Occurs(h, new) \in Int /\ Occurs(h, holds[u]) \in Int
      BY OccursTyped DEF SysctlTypeOK, UsersTyped
    <3>4. heads[h].used + Occurs(h, new) - Occurs(h, holds[u]) \in Int
      BY <3>2, <3>3
    <3> QED  BY <3>1, <3>4, FieldsKept
  <2> QED  BY <1>1, <2>1 DEF Alike
<1>4. Shrinks
  BY <1>3 DEF Alike, Shrinks
<1>5. TodoTyped'
  <2>1. ASSUME NEW c \in Clients
        PROVE  Good(c, work'[c]) /\ (at[c] = NIL => work'[c] \in Seq(AfterOps))
    <3>0. Good(c, work[c]) /\ (at[c] = NIL => work[c] \in Seq(AfterOps))
      BY DEF SysctlTypeOK, TablesTyped, TodoTyped
    <3>1. CASE work'[c] = work[c]
      BY <3>0, <3>1
    <3>2. CASE work'[c] # work[c]
      <4>1. /\ work'[c] = <<<<"erase", Arg(c)>>>> \o Tail(work[c])
            /\ work[c] # <<>> /\ Head(work[c])[1] = "wait"
        BY <1>2, <3>2
      <4>2. Arg(c) \in Headers /\ Good(c, Tail(work[c]))
            /\ (at[c] = NIL => Tail(work[c]) \in Seq(AfterOps))
        BY <4>1, OpTyped DEF Arg
      <4>3. <<<<"erase", Arg(c)>>>> \in Seq(AfterOps)
        BY <4>2, OpsBuilt, SeqBuilt
      <4>4. <<<<"erase", Arg(c)>>>> \in Seq(MidOps(c))
        BY <4>3, OpsBuilt, SeqWider
      <4>5. Good(c, <<<<"erase", Arg(c)>>>> \o Tail(work[c]))
        BY <4>2, <4>4, GoodBefore
      <4>6. at[c] = NIL => <<<<"erase", Arg(c)>>>> \o Tail(work[c]) \in Seq(AfterOps)
        BY <4>2, <4>3, SeqBuilt
      <4> QED  BY <4>1, <4>5, <4>6
    <3> QED  BY <3>1, <3>2
  <2>2. DOMAIN work' = Clients
    BY <1>2
  <2>3. \A b \in Clients : Good(b, work[b])' = Good(b, work'[b])
    BY DEF Good, OpsOf, MidOps, AfterOps, OwnHeads, CoreDirs, Set, IsLink, IsDir
  <2> QED  BY <1>1, <2>1, <2>2, <2>3 DEF TodoTyped
<1> QED  BY <1>1, <1>4, <1>5, SameStep DEF SysctlTypeOK, TablesTyped

\* What process u has got to is its own.
Apart(u) == /\ Set(cur[u]) \in {"core", ns[u]}
            /\ \A i \in 1 .. Len(holds[u]) : Set(holds[u][i]) \in {"core", ns[u]}
UserKept == UsersTyped /\ \A u \in Processes : Apart(u)

\* Process u gets, if anywhere, to what is its own.
Stays(u) == /\ cur' \in [Processes -> Headers] /\ UNCHANGED ns
            /\ \A v \in Processes \ {u} : cur'[v] = cur[v]
            /\ Set(cur'[u]) \in {"core", ns[u]}

\* It may get nowhere.
LEMMA CurSame ==
    ASSUME SysctlTypeOK, UserKept, NEW u \in Processes, UNCHANGED <<ns, cur>>
    PROVE  Stays(u)
BY DEF Stays, SysctlTypeOK, UsersTyped, UserKept, Apart

\* A step of u that begins to use, or stops using, headers of its own.
LEMMA UserUses ==
    ASSUME SysctlTypeOK, UserKept, NEW u \in Processes, NEW new \in Seq(Headers),
           holds' = [holds EXCEPT ![u] = new], Stays(u),
           NEW l, MoveTo(u, l),
           \A i \in 1 .. Len(new) : Set(new[i]) \in {"core", ns[u]},
           \/ l = "idle" /\ new = <<>>
           \/ l \in {"handler", "list", "lookup"}
           \/ l \in {"link", "follow", "make"} /\ Len(new) = 2
           \/ l = "followlisted" /\ Len(new) = 3
           \/ l = "makelisted" /\ Len(new) >= 2,
           name' \in [Processes -> Nat], dcache' \subseteq Headers \X Nat \X Headers
    PROVE  UserKept'
<1>1. \A v \in Processes : holds'[v] = (IF v = u THEN new ELSE holds[v])
                       /\ place'[v] = (IF v = u THEN l ELSE place[v])
  BY DEF MoveTo, SysctlTypeOK, UsersTyped
<1>2. holds' \in [Processes -> Seq(Headers)]
  BY DEF SysctlTypeOK, UsersTyped
<1>3. place' \in [Processes -> {"idle", "handler", "list", "lookup", "link", "follow",
                                "followlisted", "make", "makelisted"}]
  BY DEF SysctlTypeOK, UsersTyped, MoveTo
<1>4. \A v \in Processes : /\ place'[v] = "idle" => holds'[v] = <<>>
                           /\ place'[v] \in {"link", "follow", "make"} => Len(holds'[v]) = 2
                           /\ place'[v] = "followlisted" => Len(holds'[v]) = 3
                           /\ place'[v] = "makelisted" => Len(holds'[v]) >= 2
  BY <1>1 DEF SysctlTypeOK, UsersTyped
<1>5. ASSUME NEW v \in Processes PROVE Apart(v)'
  <2>1. Apart(v)' <=> /\ Set(cur'[v]) \in {"core", ns'[v]}
                      /\ \A i \in 1 .. Len(holds'[v]) : Set(holds'[v][i]) \in {"core", ns'[v]}
    BY DEF Apart, Set, IsLink
  <2>2. CASE v = u
    BY <1>1, <2>1, <2>2 DEF Stays
  <2>3. CASE v # u
    BY <1>1, <2>1, <2>3 DEF UserKept, Apart, Stays
  <2> QED  BY <2>2, <2>3
<1>6. UsersTyped'
  <2>1. /\ ns' \in [Processes -> Sets \ {"core"}] /\ cur' \in [Processes -> Headers]
        /\ name' \in [Processes -> Nat] /\ dcache' \subseteq Headers \X Nat \X Headers
    BY DEF SysctlTypeOK, UsersTyped, Stays
  <2> QED  BY <1>2, <1>3, <1>4, <2>1, Zenon DEF UsersTyped
<1> QED  BY <1>5, <1>6 DEF UserKept

\* The headers are like themselves.
LEMMA AlikeSelf == ASSUME SysctlTypeOK PROVE Alike(hd, hd)
BY HeadsTyped DEF Alike

\* All that u uses is left.
LEMMA FinishStep ==
    ASSUME SysctlBounds, SysctlTypeOK, TreesApart, UserKept, NEW u \in Processes, FinishUse(u),
           UNCHANGED <<NotUser, ns, cur>>, name' \in [Processes -> Nat],
           dcache' \subseteq Headers \X Nat \X Headers
    PROVE  Post /\ UserKept'
<1>1. UseHeaders(u, hd, <<>>) /\ MoveTo(u, "idle") /\ <<>> \in Seq(Headers)
  BY SeqBuilt DEF FinishUse
<1>2. Post /\ holds' = [holds EXCEPT ![u] = <<>>]
  BY <1>1, AlikeSelf, InUseStep
<1>3. UserKept'
  <2>1. \A i \in 1 .. Len(<<>>) : Set(<<>>[i]) \in {"core", ns[u]}
    OBVIOUS
  <2> QED  BY <1>1, <1>2, <2>1, UserUses, CurSame
<1> QED  BY <1>2, <1>3

\* grab_header, for an inode that u has got to.
LEMMA GrabStep ==
    ASSUME SysctlBounds, SysctlTypeOK, TreesApart, UserKept, NEW u \in Processes, Grab(u)
    PROVE  Post /\ UserKept'
<1> DEFINE new == <<cur[u]>>
<1>1. cur[u] \in Headers /\ Set(cur[u]) \in {"core", ns[u]}
  BY DEF SysctlTypeOK, UsersTyped, UserKept, Apart
<1>2. new \in Seq(Headers) /\ \A i \in 1 .. Len(new) : Set(new[i]) \in {"core", ns[u]}
  BY <1>1
<1>3. UseHeaders(u, hd, new) /\ UNCHANGED <<NotUser, ns, cur, dcache>>
  BY DEF Grab
<1>4. \E l \in {"handler", "list", "lookup"} : MoveTo(u, l)
  BY DEF Grab
<1>5. name' \in [Processes -> Nat]
  <2>1. EntriesOf(cur[u]) \subseteq Nat
    BY <1>1, HeadsTyped DEF EntriesOf, Heads
  <2>2. \/ UNCHANGED name \/ name' = [name EXCEPT ![u] = 0]
        \/ \E n \in EntriesOf(cur[u]) : name' = [name EXCEPT ![u] = n]
    BY DEF Grab
  <2> QED  BY <2>1, <2>2 DEF SysctlTypeOK, UsersTyped
<1> HIDE DEF new
<1>6. Post /\ holds' = [holds EXCEPT ![u] = new]
  BY <1>2, <1>3, AlikeSelf, InUseStep
<1>7. UserKept'
  <2>1. dcache' \subseteq Headers \X Nat \X Headers
    BY <1>3 DEF SysctlTypeOK, UsersTyped
  <2> QED  BY <1>2, <1>3, <1>4, <1>5, <1>6, <2>1, UserUses, CurSame
<1> QED  BY <1>6, <1>7

\* The end of what process u does with name and dcache as they are.
LEMMA UseSame ==
    ASSUME SysctlBounds, SysctlTypeOK, TreesApart, UserKept, NEW u \in Processes,
           NEW heads, Alike(heads, hd), NEW new \in Seq(Headers), UseHeaders(u, heads, new),
           UNCHANGED NotUser, Stays(u), NEW l, MoveTo(u, l),
           \A i \in 1 .. Len(new) : Set(new[i]) \in {"core", ns[u]},
           \/ l = "idle" /\ new = <<>>
           \/ l \in {"handler", "list", "lookup"}
           \/ l \in {"link", "follow", "make"} /\ Len(new) = 2
           \/ l = "followlisted" /\ Len(new) = 3
           \/ l = "makelisted" /\ Len(new) >= 2,
           name' \in [Processes -> Nat], dcache' \subseteq Headers \X Nat \X Headers
    PROVE  Post /\ UserKept'
<1>1. Post /\ holds' = [holds EXCEPT ![u] = new]
  BY InUseStep
<1>2. UserKept'
  BY <1>1, UserUses
<1> QED  BY <1>1, <1>2

\* lookup_entry looks in a tree of u's own.
LEMMA LookupStep ==
    ASSUME SysctlBounds, SysctlTypeOK, TreesApart, UserKept, NEW u \in Processes, LookupEntry(u)
    PROVE  Post /\ UserKept'
<1> DEFINE h == Find(cur[u], name[u])
           new == <<cur[u], h>>
           l == IF IsLink(h) THEN "follow" ELSE "make"
<1>1. /\ cur[u] \in Headers /\ Set(cur[u]) \in {"core", ns[u]}
      /\ name' \in [Processes -> Nat] /\ dcache' \subseteq Headers \X Nat \X Headers
      /\ UNCHANGED <<NotUser, ns, cur>>
  BY DEF SysctlTypeOK, UsersTyped, UserKept, Apart, LookupEntry
<1>2. \/ h # NIL /\ UseHeaders(u, hd, new) /\ MoveTo(u, l)
      \/ FinishUse(u)
  BY Zenon DEF LookupEntry
<1>3. ASSUME h # NIL, UseHeaders(u, hd, new), MoveTo(u, l) PROVE Post /\ UserKept'
  <2>1. h \in Headers /\ Set(h) = Set(cur[u])
    BY <1>1, <1>3, FoundIn
  <2> HIDE DEF h
  <2>2. /\ new \in Seq(Headers) /\ Len(new) = 2
        /\ \A i \in 1 .. Len(new) : Set(new[i]) \in {"core", ns[u]}
    BY <1>1, <2>1
  <2>3. l \in {"follow", "make"}
    OBVIOUS
  <2> HIDE DEF new, l
  <2> QED  BY <1>1, <1>3, <2>2, <2>3, AlikeSelf, CurSame, UseSame
<1> QED  BY <1>1, <1>2, <1>3, FinishStep

\* first_entry and next_entry do.
LEMMA ListStep ==
    ASSUME SysctlBounds, SysctlTypeOK, TreesApart, UserKept, NEW u \in Processes, List(u)
    PROVE  Post /\ UserKept'
<1>1. /\ cur[u] \in Headers /\ Set(cur[u]) \in {"core", ns[u]}
      /\ dcache' \subseteq Headers \X Nat \X Headers
      /\ UNCHANGED <<NotUser, ns, cur>> /\ name \in [Processes -> Nat]
  BY DEF SysctlTypeOK, UsersTyped, UserKept, Apart, List
<1>2. \/ \E e \in hd[cur[u]].tree :
            /\ UseHeaders(u, hd, <<cur[u], e[2]>>) /\ name' = [name EXCEPT ![u] = e[1]]
            /\ MoveTo(u, IF IsLink(e[2]) THEN "link" ELSE "makelisted")
      \/ FinishUse(u) /\ UNCHANGED name
  BY DEF List
<1>3. ASSUME NEW e \in hd[cur[u]].tree, UseHeaders(u, hd, <<cur[u], e[2]>>),
             name' = [name EXCEPT ![u] = e[1]],
             MoveTo(u, IF IsLink(e[2]) THEN "link" ELSE "makelisted")
      PROVE  Post /\ UserKept'
  <2> DEFINE new == <<cur[u], e[2]>>
             l == IF IsLink(e[2]) THEN "link" ELSE "makelisted"
  <2>1. e[1] \in Nat /\ e[2] \in Headers /\ Set(e[2]) = Set(cur[u])
    BY <1>1, HeadsTyped DEF Heads, TreesApart
  <2>2. /\ new \in Seq(Headers) /\ Len(new) = 2
        /\ \A i \in 1 .. Len(new) : Set(new[i]) \in {"core", ns[u]}
    <3> DEFINE x == e[2]
    <3>1. x \in Headers /\ Set(x) \in {"core", ns[u]}
      BY <1>1, <2>1
    <3> HIDE DEF x
    <3>2. /\ <<cur[u], x>> \in Seq(Headers) /\ Len(<<cur[u], x>>) = 2
          /\ \A i \in 1 .. 2 : Set(<<cur[u], x>>[i]) \in {"core", ns[u]}
      BY <1>1, <3>1
    <3> QED  BY <3>2 DEF x
  <2>3. l \in {"link", "makelisted"} /\ name' \in [Processes -> Nat] /\ MoveTo(u, l) /\ UseHeaders(u, hd, new)
    BY <1>1, <1>3, <2>1
  <2> HIDE DEF new, l
  <2>4. (l = "link" /\ Len(new) = 2) \/ (l = "makelisted" /\ Len(new) >= 2)
    BY <2>2, <2>3
  <2> QED  BY <1>1, <2>2, <2>3, <2>4, AlikeSelf, CurSame, UseSame
<1> QED  BY <1>1, <1>2, <1>3, FinishStep

\* One element of a sequence replaced.
LEMMA ReplaceTyped ==
    ASSUME NEW S, NEW s \in Seq(S), NEW x \in S, NEW k \in 1 .. Len(s)
    PROVE  /\ [s EXCEPT ![k] = x] \in Seq(S) /\ Len([s EXCEPT ![k] = x]) = Len(s)
           /\ \A i \in 1 .. Len(s) : [s EXCEPT ![k] = x][i] = IF i = k THEN x ELSE s[i]
OBVIOUS

\* One element more.
LEMMA AppendTyped ==
    ASSUME NEW S, NEW s \in Seq(S), NEW x \in S
    PROVE  /\ Append(s, x) \in Seq(S) /\ Len(Append(s, x)) = Len(s) + 1
           /\ \A i \in 1 .. Len(s) : Append(s, x)[i] = s[i]
           /\ Append(s, x)[Len(s) + 1] = x
OBVIOUS

\* A link is used once more.
LEMMA GrabLinkStep ==
    ASSUME SysctlBounds, SysctlTypeOK, TreesApart, UserKept, NEW u \in Processes, GrabLink(u),
           oops' = NIL
    PROVE  Post /\ UserKept'
<1> DEFINE new == Append(holds[u], holds[u][2])
<1>1. /\ name' \in [Processes -> Nat] /\ dcache' \subseteq Headers \X Nat \X Headers
      /\ UNCHANGED <<NotUser, ns, cur>> /\ UseHeaders(u, hd, new) /\ MoveTo(u, "followlisted")
  <2>1. name' \in [Processes -> Nat] /\ dcache' \subseteq Headers \X Nat \X Headers
        /\ UNCHANGED <<NotUser, ns, cur>>
    BY DEF SysctlTypeOK, UsersTyped, GrabLink
  <2>2. UseHeaders(u, hd, new) /\ MoveTo(u, "followlisted")
    BY DEF GrabLink, SysctlBounds
  <2> QED  BY <2>1, <2>2
<1>2. holds[u] \in Seq(Headers) /\ Len(holds[u]) = 2
      /\ \A i \in 1 .. Len(holds[u]) : Set(holds[u][i]) \in {"core", ns[u]}
  BY DEF SysctlTypeOK, UsersTyped, UserKept, Apart, GrabLink
<1>3. /\ new \in Seq(Headers) /\ Len(new) = 3
      /\ \A i \in 1 .. Len(new) : Set(new[i]) \in {"core", ns[u]}
  <2> DEFINE x == holds[u][2]
  <2>1. x \in Headers /\ Set(x) \in {"core", ns[u]}
    BY <1>2
  <2> HIDE DEF x
  <2> DEFINE a == Append(holds[u], x)
  <2>2. /\ a \in Seq(Headers) /\ Len(a) = Len(holds[u]) + 1
        /\ \A i \in 1 .. Len(holds[u]) : a[i] = holds[u][i]
        /\ a[Len(holds[u]) + 1] = x
    BY <1>2, <2>1, AppendTyped
  <2> HIDE DEF a
  <2>3. Len(a) = 3 /\ a[3] = x /\ \A i \in 1 .. 2 : a[i] = holds[u][i]
    BY <1>2, <2>2
  <2>4. \A i \in 1 .. 3 : Set(a[i]) \in {"core", ns[u]}
    <3> SUFFICES ASSUME NEW i \in 1 .. 3 PROVE Set(a[i]) \in {"core", ns[u]}
      OBVIOUS
    <3>1. CASE i \in 1 .. 2
      BY <1>2, <2>3, <3>1
    <3>2. CASE i = 3
      BY <2>1, <2>3, <3>2
    <3> QED  BY <3>1, <3>2
  <2>5. new = a
    BY DEF a, x
  <2> HIDE DEF new
  <2> QED  BY <2>2, <2>3, <2>4, <2>5
<1> HIDE DEF new
<1> QED  BY <1>1, <1>3, AlikeSelf, CurSame, UseSame

\* sysctl_follow_link leads to what is in u's namespace.
LEMMA FollowStep ==
    ASSUME SysctlBounds, SysctlTypeOK, TreesApart, UserKept, NEW u \in Processes, Follow(u)
    PROVE  Post /\ UserKept'
<1> DEFINE k == Len(holds[u])
           h == Target(u, holds[u][k])
           new == [holds[u] EXCEPT ![k] = h]
           rest == SubSeq(holds[u], 1, 2)
<1>1. /\ name' \in [Processes -> Nat] /\ dcache' \subseteq Headers \X Nat \X Headers
      /\ UNCHANGED <<NotUser, ns, cur>>
  BY DEF SysctlTypeOK, UsersTyped, Follow
<1>2. \/ /\ place[u] \in {"follow", "followlisted"} /\ h # NIL /\ UseHeaders(u, hd, new)
         /\ MoveTo(u, IF place[u] = "follow" THEN "make" ELSE "makelisted")
      \/ FinishUse(u)
      \/ place[u] = "followlisted" /\ UseHeaders(u, hd, rest) /\ MoveTo(u, "list")
  BY Zenon DEF Follow
<1>3. holds[u] \in Seq(Headers) /\ k \in Nat
      /\ (place[u] = "follow" => k = 2) /\ (place[u] = "followlisted" => k = 3)
      /\ \A i \in 1 .. k : Set(holds[u][i]) \in {"core", ns[u]}
  BY DEF SysctlTypeOK, UsersTyped, UserKept, Apart
<1>4. h # NIL => h \in Headers /\ Set(h) = ns[u]
  <2>1. ns[u] \in Sets
    BY DEF SysctlTypeOK, UsersTyped
  <2> DEFINE l == holds[u][k]
             d == XlateDir(ns[u], hd[l].parent)
  <2>2. d # NIL => d \in Headers /\ Set(d) = ns[u]
    BY <2>1, XlateIn
  <2>3. h = IF d = NIL THEN NIL ELSE Find(d, name[u])
    BY DEF Target
  <2> HIDE DEF l, d, h
  <2> QED  BY <2>2, <2>3, FoundIn
<1> HIDE DEF h, k
<1>5. CASE /\ place[u] \in {"follow", "followlisted"} /\ h # NIL /\ UseHeaders(u, hd, new)
           /\ MoveTo(u, IF place[u] = "follow" THEN "make" ELSE "makelisted")
  <2> DEFINE l == IF place[u] = "follow" THEN "make" ELSE "makelisted"
  <2>1. /\ new \in Seq(Headers) /\ Len(new) = k
        /\ \A i \in 1 .. k : new[i] = IF i = k THEN h ELSE holds[u][i]
    <3>1. k = Len(holds[u]) /\ h \in Headers
      BY <1>4, <1>5 DEF k
    <3>2. k \in 1 .. Len(holds[u])
      BY <1>3, <1>5, <3>1
    <3>3. k = Len(holds[u]) /\ Len(holds[u]) = k
      BY <3>1
    <3> QED  BY <1>3, <3>1, <3>2, <3>3, ReplaceTyped
  <2>2. (l = "make" /\ k = 2) \/ (l = "makelisted" /\ k = 3)
    BY <1>3, <1>5
  <2> HIDE DEF new, l
  <2>3. \A i \in 1 .. Len(new) : Set(new[i]) \in {"core", ns[u]}
    BY <1>3, <1>4, <1>5, <2>1
  <2>4. (l = "make" /\ Len(new) = 2) \/ (l = "makelisted" /\ Len(new) >= 2)
    BY <2>1, <2>2
  <2>5. UseHeaders(u, hd, new) /\ MoveTo(u, l)
    BY <1>5 DEF l
  <2> QED  BY <1>1, <2>1, <2>3, <2>4, <2>5, AlikeSelf, CurSame, UseSame
<1>6. CASE place[u] = "followlisted" /\ UseHeaders(u, hd, rest) /\ MoveTo(u, "list")
  <2>1. /\ rest \in Seq(Headers) /\ Len(rest) = 2
        /\ \A i \in 1 .. 2 : rest[i] = holds[u][i]
    BY <1>3, <1>6 DEF k
  <2> HIDE DEF rest
  <2>2. \A i \in 1 .. Len(rest) : Set(rest[i]) \in {"core", ns[u]}
    BY <1>3, <1>6, <2>1
  <2> QED  BY <1>1, <1>6, <2>1, <2>2, AlikeSelf, CurSame, UseSame
<1> QED  BY <1>1, <1>2, <1>5, <1>6, FinishStep

\* The inode that is made is of a header that u uses, thus u's own.
LEMMA MakeStep ==
    ASSUME SysctlBounds, SysctlTypeOK, TreesApart, UserKept, NEW u \in Processes, Make(u)
    PROVE  Post /\ UserKept'
<1> DEFINE g == holds[u][Len(holds[u])]
           d == <<cur[u], name[u], g>>
           rest == IF place[u] = "make" THEN <<>> ELSE SubSeq(holds[u], 1, 2)
           more == [hd EXCEPT ![g] = [hd[g] EXCEPT !.count = hd[g].count + 1]]
<1>1. /\ name' \in [Processes -> Nat] /\ UNCHANGED <<NotUser, ns>>
      /\ place[u] \in {"make", "makelisted"}
  BY DEF SysctlTypeOK, UsersTyped, Make
<1>2. /\ holds[u] \in Seq(Headers) /\ Len(holds[u]) \in Nat /\ Len(holds[u]) >= 2
      /\ \A i \in 1 .. Len(holds[u]) : Set(holds[u][i]) \in {"core", ns[u]}
  <2>1. /\ holds[u] \in Seq(Headers)
        /\ \A i \in 1 .. Len(holds[u]) : Set(holds[u][i]) \in {"core", ns[u]}
        /\ place[u] = "make" => Len(holds[u]) = 2
        /\ place[u] = "makelisted" => Len(holds[u]) >= 2
    BY DEF SysctlTypeOK, UsersTyped, UserKept, Apart
  <2> HIDE DEF g, d, rest, more
  <2>2. Len(holds[u]) \in Nat
    BY <2>1
  <2>3. Len(holds[u]) >= 2
    <3>1. CASE place[u] = "make"
      <4>1. Len(holds[u]) = 2
        BY <2>1, <3>1
      <4> QED  BY <4>1
    <3>2. CASE place[u] = "makelisted"
      BY <2>1, <3>2
    <3> QED  BY <1>1, <3>1, <3>2
  <2> QED  BY <2>1, <2>2, <2>3
<1>3. g \in Headers /\ Set(g) \in {"core", ns[u]}
  BY <1>2
<1>4. \/ /\ MakeInode(u, d)
         /\ \/ place[u] = "make" /\ MoveTo(u, "idle") /\ cur' = [cur EXCEPT ![u] = g]
            \/ place[u] = "makelisted" /\ MoveTo(u, "list") /\ UNCHANGED cur
      \/ FinishUse(u) /\ UNCHANGED <<cur, dcache>>
  <2>1. d[3] = g
    OBVIOUS
  <2> QED  BY <2>1, Zenon DEF Make
<1>5. /\ rest \in Seq(Headers) /\ (place[u] = "make" => rest = <<>>)
      /\ \A i \in 1 .. Len(rest) : Set(rest[i]) \in {"core", ns[u]}
  <2>1. CASE place[u] = "make"
    BY <2>1
  <2>2. CASE place[u] # "make"
    <3>1. /\ rest \in Seq(Headers) /\ Len(rest) = 2
          /\ \A i \in 1 .. 2 : rest[i] = holds[u][i]
      BY <1>2, <2>2
    <3> HIDE DEF rest
    <3> QED  BY <1>2, <2>2, <3>1
  <2> QED  BY <2>1, <2>2
<1> HIDE DEF g, rest
<1>6. Alike(more, hd)
  <2>1. hd[g] \in Heads /\ hd[g].count + 1 \in Int
    BY <1>3, HeadsTyped DEF Heads
  <2>2. LET s == [hd[g] EXCEPT !.count = hd[g].count + 1]
        IN  s \in Heads /\ s.parent = hd[g].parent /\ s.tree = hd[g].tree
    BY <2>1, FieldsKept
  <2> QED  BY <1>3, <2>2, HeadsTyped DEF Alike
<1>7. CASE FinishUse(u) /\ UNCHANGED <<cur, dcache>>
  BY <1>1, <1>7, FinishStep DEF SysctlTypeOK, UsersTyped
<1>8. ASSUME MakeInode(u, d),
             \/ place[u] = "make" /\ MoveTo(u, "idle") /\ cur' = [cur EXCEPT ![u] = g]
             \/ place[u] = "makelisted" /\ MoveTo(u, "list") /\ UNCHANGED cur
      PROVE  Post /\ UserKept'
  <2>1. d \in Headers \X Nat \X Headers /\ d[3] = g
    BY <1>3 DEF SysctlTypeOK, UsersTyped
  <2>2. /\ UseHeaders(u, hd, rest) \/ UseHeaders(u, more, rest)
        /\ dcache' = dcache \/ dcache' = dcache \cup {d}
    <3>1. \/ UseHeaders(u, hd, rest) /\ dcache' = dcache
          \/ UseHeaders(u, [hd EXCEPT ![d[3]].count = @ + 1], rest) /\ dcache' = dcache \cup {d}
      BY <1>8, Zenon DEF MakeInode, rest
    <3>2. [hd EXCEPT ![d[3]].count = @ + 1] = more
      BY <2>1
    <3> HIDE DEF more, d
    <3> QED  BY <3>1, <3>2
  <2>3. dcache' \subseteq Headers \X Nat \X Headers
    BY <2>1, <2>2 DEF SysctlTypeOK, UsersTyped
  <2>4. Stays(u)
    BY <1>1, <1>3, <1>8 DEF Stays, SysctlTypeOK, UsersTyped, UserKept, Apart
  <2> HIDE DEF more, d
  <2>5. CASE place[u] = "make" /\ MoveTo(u, "idle")
    BY <1>1, <1>5, <1>6, <2>2, <2>3, <2>4, <2>5, AlikeSelf, UseSame
  <2>6. CASE MoveTo(u, "list")
    BY <1>1, <1>5, <1>6, <2>2, <2>3, <2>4, <2>6, AlikeSelf, UseSame
  <2> QED  BY <1>8, <2>5, <2>6
<1> QED  BY <1>4, <1>7, <1>8

\* The steps of a process that change what it has got to, or the cache.
LEMMA VisitStep ==
    ASSUME SysctlBounds, SysctlTypeOK, TreesApart, UserKept,
           (\E u \in Processes : Visit(u) \/ Home(u)) \/ Prune
    PROVE  Post /\ UserKept'
<1>1. /\ UNCHANGED <<lock, at, work, in, revived, place, holds, name>> /\ dcache' \subseteq dcache
      /\ Shrinks
  <2>1. CASE \E u \in Processes : Visit(u) \/ Home(u)
    BY <2>1, SameHeads DEF Visit, Home, tables
  <2>2. CASE Prune
    <3>1. /\ UNCHANGED <<lock, at, work, in, revived, place, holds, name>> /\ dcache' \subseteq dcache
          /\ \E d \in dcache : hd' = Uncount(hd, d[3])
      BY <2>2 DEF Prune
    <3> QED  BY <3>1, HeadsTyped, UncountTyped DEF Shrinks
  <2> QED  BY <2>1, <2>2
<1>2. Post
  <2>1. \A b \in Clients : Good(b, work[b])' = Good(b, work[b])
    BY <1>1 DEF Good, OpsOf, MidOps, AfterOps, OwnHeads, CoreDirs, Set, IsLink, IsDir
  <2>2. TodoTyped'
    BY <1>1, <2>1 DEF TodoTyped, SysctlTypeOK, TablesTyped
  <2> QED  BY <1>1, <2>2, SameStep DEF SysctlTypeOK, TablesTyped
<1>3. ASSUME NEW u \in Processes, Visit(u) PROVE UserKept'
  <2>1. PICK d \in dcache : IsSeen(u, d[3]) /\ cur' = [cur EXCEPT ![u] = d[3]]
    BY <1>3 DEF Visit
  <2>2. d[3] \in Headers /\ Set(d[3]) \in {"core", ns[u]}
    BY <2>1 DEF IsSeen, SysctlTypeOK, UsersTyped
  <2>3. UNCHANGED <<ns, dcache>>
    BY <1>3 DEF Visit
  <2>4. \A v \in Processes : cur'[v] = IF v = u THEN d[3] ELSE cur[v]
    BY <2>1 DEF SysctlTypeOK, UsersTyped
  <2>5. cur' \in [Processes -> Headers]
    BY <2>1, <2>2 DEF SysctlTypeOK, UsersTyped
  <2>6. UsersTyped'
    BY <1>1, <2>3, <2>5 DEF SysctlTypeOK, UsersTyped
  <2>7. \A v \in Processes : Apart(v)'
    BY <1>1, <2>2, <2>3, <2>4 DEF UserKept, Apart, Set, IsLink
  <2> QED  BY <2>6, <2>7 DEF UserKept
<1>4. ASSUME NEW u \in Processes, Home(u) PROVE UserKept'
  <2>1. PICK s \in Sets \ {"core"} : ns' = [ns EXCEPT ![u] = s]
    BY <1>4 DEF Home
  <2>2. core \in Headers /\ Set(core) = "core"
    BY KindsTyped DEF core, SysctlBounds
  <2>3. cur' = [cur EXCEPT ![u] = core] /\ UNCHANGED dcache /\ holds[u] = <<>>
    BY <1>4 DEF Home, SysctlTypeOK, UsersTyped
  <2>4. \A v \in Processes : /\ cur'[v] = IF v = u THEN core ELSE cur[v]
                             /\ v # u => ns'[v] = ns[v]
    BY <2>1, <2>3 DEF SysctlTypeOK, UsersTyped
  <2>5. cur' \in [Processes -> Headers] /\ ns' \in [Processes -> Sets \ {"core"}]
    BY <2>1, <2>2, <2>3 DEF SysctlTypeOK, UsersTyped
  <2>6. UsersTyped'
    BY <1>1, <2>3, <2>5 DEF SysctlTypeOK, UsersTyped
  <2>7. \A v \in Processes : Apart(v)'
    BY <1>1, <2>2, <2>3, <2>4 DEF UserKept, Apart, Set, IsLink
  <2> QED  BY <2>6, <2>7 DEF UserKept
<1>5. CASE Prune
  <2>1. UNCHANGED <<ns, cur>> /\ dcache' \subseteq Headers \X Nat \X Headers
    BY <1>1, <1>5 DEF Prune, SysctlTypeOK, UsersTyped
  <2>2. UsersTyped'
    BY <1>1, <2>1 DEF SysctlTypeOK, UsersTyped
  <2>3. \A v \in Processes : Apart(v)'
    BY <1>1, <2>1 DEF UserKept, Apart, Set, IsLink
  <2> QED  BY <1>2, <2>2, <2>3 DEF UserKept
<1>6. ASSUME NEW u \in Processes, Visit(u) \/ Home(u) PROVE UserKept'
  BY <1>3, <1>4, <1>6
<1>7. CASE \E u \in Processes : Visit(u) \/ Home(u)
  <2>1. PICK u \in Processes : Visit(u) \/ Home(u)
    BY <1>7, Zenon
  <2> QED  BY <1>2, <1>6, <2>1
<1> QED  BY <1>5, <1>7, Zenon

\* The end of a read or write.
LEMMA HandledStep ==
    ASSUME SysctlBounds, SysctlTypeOK, TreesApart, UserKept, NEW u \in Processes, Handled(u)
    PROVE  Post /\ UserKept'
<1>1. FinishUse(u) /\ UNCHANGED <<NotUser, ns, cur, name, dcache>>
  BY DEF Handled
<1> QED  BY <1>1, FinishStep DEF SysctlTypeOK, UsersTyped

\* Each step of a process, and an eviction.
LEMMA UserStep ==
    ASSUME SysctlBounds, SysctlTypeOK, TreesApart, UserKept, oops' = NIL,
           (\E u \in Processes : Process(u)) \/ Prune
    PROVE  Post /\ UserKept'
<1>1. CASE Prune
  BY <1>1, VisitStep
<1>2. ASSUME NEW u \in Processes, Process(u) PROVE Post /\ UserKept'
  <2>1. \/ Visit(u) \/ Home(u) \/ Grab(u) \/ Handled(u) \/ LookupEntry(u) \/ List(u)
        \/ GrabLink(u) \/ Follow(u) \/ Make(u)
    BY <1>2 DEF Process, InKernel
  <2>2. CASE Visit(u) \/ Home(u)
    BY <2>2, VisitStep
  <2> QED  BY <2>1, <2>2, GrabStep, HandledStep, LookupStep, ListStep, GrabLinkStep,
              FollowStep, MakeStep
<1>3. CASE \E u \in Processes : Process(u)
  BY <1>2, <1>3
<1> QED  BY <1>1, <1>3

\* The steps of a client have nothing to do with the processes.
LEMMA ClientKeeps ==
    ASSUME UserKept, UNCHANGED users
    PROVE  UserKept'
BY DEF UserKept, UsersTyped, Apart, users, Set, IsLink

\* What goes wrong, goes wrong while nobody gets on.
LEMMA WrongStep ==
    ASSUME SysctlBounds, OwnNamespace, oops = NIL, SysctlNext, oops' # NIL
    PROVE  OwnNamespace'
<1>1. CASE UNCHANGED users
  BY <1>1 DEF OwnNamespace, users, Set, IsLink
<1>2. CASE Prune
  BY <1>2 DEF Prune
<1>3. ASSUME NEW u \in Processes, Process(u) PROVE UNCHANGED <<ns, cur>>
  BY <1>3 DEF Process, InKernel, Visit, Home, Grab, Handled, LookupEntry, List, GrabLink, Follow,
              Make, tables
<1>4. UNCHANGED <<ns, cur>> => OwnNamespace'
  BY DEF OwnNamespace, Set, IsLink
<1>5. CASE \E u \in Processes : Process(u)
  BY <1>3, <1>4, <1>5
<1> QED  BY <1>1, <1>2, <1>5 DEF SysctlNext

\* In the beginning each process is at /proc/sys.
LEMMA SpacesInit == ASSUME SysctlBounds, SysctlInit PROVE SpacesInv
<1>1. core \in Headers /\ Set(core) = "core"
  BY KindsTyped DEF core, SysctlBounds
<1>2. UsersTyped /\ OwnNamespace /\ OwnSeen
  BY <1>1 DEF SysctlInit, UsersTyped, OwnNamespace, OwnSeen
<1>3. TablesTyped
  <2>1. Free \in Heads /\ Fresh(1) \in Heads
    BY FreshTyped
  <2>2. hd \in [Headers -> Heads] /\ lock \in Clients \cup {NIL} /\ at \in [Clients -> Maybe]
        /\ in \subseteq Clients /\ revived \in BOOLEAN
    BY <2>1 DEF SysctlInit, TablesInit, Maybe
  <2>3. TodoTyped
    <3>1. \A c \in Clients : work[c] = <<>>
      BY DEF SysctlInit, TablesInit
    <3>2. \A c \in Clients : Good(c, <<>>) /\ <<>> \in Seq(AfterOps)
      BY SeqBuilt DEF Good
    <3> QED  BY <3>1, <3>2 DEF TodoTyped, SysctlInit, TablesInit
  <2> QED  BY <2>2, <2>3 DEF TablesTyped
<1>4. TreesApart
  BY DEF SysctlInit, TablesInit, TreesApart, Free, Fresh
<1> QED  BY <1>2, <1>3, <1>4 DEF SpacesInv, SysctlTypeOK

\* Every step keeps the invariant.
LEMMA SpacesStep == ASSUME SysctlBounds, SpacesInv, [SysctlNext]_(sysctlVars) PROVE SpacesInv'
<1>1. CASE UNCHANGED sysctlVars
  <2>1. UNCHANGED <<hd, lock, at, work, in, oops, revived, ns, cur, place, holds, name, dcache>>
    BY <1>1 DEF sysctlVars, tables, users
  <2>2. OwnNamespace' = OwnNamespace /\ OwnSeen' = OwnSeen
    BY <2>1 DEF OwnNamespace, OwnSeen, Set, IsLink
  <2>3. UsersTyped' = UsersTyped
    BY <2>1 DEF UsersTyped
  <2>4. TreesApart' = TreesApart
    BY <2>1 DEF TreesApart, Set, IsLink
  <2>5. \A b \in Clients : Good(b, work[b])' = Good(b, work[b])
    BY <2>1 DEF Good, OpsOf, MidOps, AfterOps, OwnHeads, CoreDirs, Set, IsLink, IsDir
  <2>6. TodoTyped' = TodoTyped
    BY <2>1, <2>5 DEF TodoTyped, AfterOps
  <2>7. TablesTyped' = TablesTyped
    BY <2>1, <2>6 DEF TablesTyped, Heads, Maybe
  <2> QED  BY <2>1, <2>2, <2>3, <2>4, <2>7 DEF SpacesInv, SysctlTypeOK
<1>2. CASE SysctlNext /\ oops' # NIL
  BY <1>2, WrongStep DEF SpacesInv, SysctlNext
<1>3. CASE SysctlNext /\ oops' = NIL
  <2>1. SysctlTypeOK /\ TreesApart /\ UserKept
    BY <1>3 DEF SysctlNext, SpacesInv, OwnSeen, OwnNamespace, UserKept, Apart, SysctlTypeOK
  <2>2. Post /\ UserKept'
    <3>1. CASE (\E u \in Processes : Process(u)) \/ Prune
      BY <1>3, <2>1, <3>1, UserStep
    <3>2. ASSUME NEW c \in Clients, Client(c), UNCHANGED users PROVE Post /\ UserKept'
      BY <1>3, <2>1, <3>2, ClientStep, ClientKeeps
    <3> QED  BY <1>3, <3>1, <3>2 DEF SysctlNext
  <2> QED  BY <2>2 DEF Post, SpacesInv, OwnSeen, OwnNamespace, UserKept, Apart, SysctlTypeOK
<1> QED  BY <1>1, <1>2, <1>3

\* Whatever tables come and go, and whatever is in the cache, a process gets only to
\* headers of the core tables and of its own namespace: the links that proc_sys_lookup
\* and proc_sys_readdir follow, and the dentries that proc_sys_compare lets through.
THEOREM SpacesApart == SysctlSpec => []OwnNamespace
<1>1. SysctlInit => SpacesInv
  BY SpacesInit, SysctlAssumption
<1>2. SpacesInv /\ [SysctlNext]_(sysctlVars) => SpacesInv'
  BY SpacesStep, SysctlAssumption
<1>3. SpacesInv => OwnNamespace
  BY DEF SpacesInv
<1> QED  BY <1>1, <1>2, <1>3, PTL DEF SysctlSpec
-----------------------------------------------------------------------------
(***************************************************************************)
(* /dev/simple: what SimpleSync says of its four variants, for any number  *)
(* of processes, of reads and of bytes; and that with a lock, whichever of *)
(* the three it is, every read takes its bytes at one instant.             *)
(***************************************************************************)
\* What a step of p can be, but for the end of the runs.
ReadDoes(p) == simple_read(p) \/ Interrupted(p) \/ \E n \in Counts : Read(p, n)

\* The bound on the bytes is a number.
LEMMA LastByteNat == LastByte \in Nat
<1>1. Cardinality(Procs) \in Nat
  BY Lengths, FS_CardinalityType
<1>2. Cardinality(Procs) * MaxReads \in Nat
  BY <1>1, Lengths
<1> DEFINE m == Cardinality(Procs) * MaxReads
<1>3. m \in Nat
  BY <1>2
<1> HIDE DEF m
<1>4. m * msg_len \in Nat
  BY <1>3, Lengths
<1> QED
  BY <1>4 DEF m, LastByte

\* There is always something left of the message.
LEMMA LeftRange == \A n \in Nat : msg_len - (n % msg_len) \in 1 .. msg_len
<1> SUFFICES ASSUME NEW n \in Nat
             PROVE  msg_len - (n % msg_len) \in 1 .. msg_len
  OBVIOUS
<1>1. n % msg_len \in 0 .. (msg_len - 1)
  BY Lengths
<1> QED
  BY <1>1, Lengths

\* The increments are finitely many, and no more than the bound.
LEMMA StoredBounded == IsFiniteSet(Stored) /\ Cardinality(Stored) \in 0 .. LastByte
<1> DEFINE R == 1 .. MaxReads
           B == 1 .. msg_len
<1>1. IsFiniteSet(R) /\ Cardinality(R) = MaxReads
  BY FS_Interval, Lengths, SMTT(20)
<1>2. IsFiniteSet(B) /\ Cardinality(B) = msg_len
  BY FS_Interval, Lengths, SMTT(20)
<1> HIDE DEF R, B
<1>3. IsFiniteSet(Procs)
  BY Lengths
<1>4. IsFiniteSet(Procs \X R) /\ Cardinality(Procs \X R) = Cardinality(Procs) * MaxReads
  BY <1>1, <1>3, FS_Product
<1> DEFINE P == (Procs \X R) \X B
           T == Procs \X R \X B
           f == [b \in T |-> <<<<b[1], b[2]>>, b[3]>>]
<1>5. IsFiniteSet(P) /\ Cardinality(P) = Cardinality(Procs) * MaxReads * msg_len
  BY <1>2, <1>4, FS_Product
<1>6. f \in [T -> P]
  BY Zenon
<1>7. \A a, b \in T : f[a] = f[b] => a = b
  <2> TAKE a \in T, b \in T
  <2> HAVE f[a] = f[b]
  <2>1. a[1] = b[1] /\ a[2] = b[2] /\ a[3] = b[3]
    OBVIOUS
  <2> QED
    BY <2>1
<1>8. f \in Injection(T, P)
  BY <1>6, <1>7 DEF Injection, IsInjective
<1> HIDE DEF f, P, T
<1>9. IsFiniteSet(T) /\ Cardinality(T) <= Cardinality(P)
  BY <1>5, <1>8, FS_Injection
<1>10. Stored \in SUBSET T
  BY DEF Stored, T, R, B
<1>11. IsFiniteSet(Stored) /\ Cardinality(Stored) <= Cardinality(T)
  BY <1>9, <1>10, FS_Subset
<1>12. Cardinality(Stored) \in Nat /\ Cardinality(T) \in Nat
  BY <1>9, <1>11, FS_CardinalityType
<1>13. Cardinality(P) = LastByte
  BY <1>5 DEF LastByte
<1> QED
  BY <1>9, <1>11, <1>12, <1>13, LastByteNat

\* In the beginning nothing has been handed out.
LEMMA SimpleInitInv == SimpleInit => SimpleInv
<1> SUFFICES ASSUME SimpleInit PROVE SimpleInv
  OBVIOUS
<1>1. \A p \in Procs : phase[p] = "user" /\ local[p] = NoCall /\ reads[p] = 0
  BY DEF SimpleInit
<1>2. SimpleTypeOK
  BY LastByteNat, Lengths DEF SimpleInit, SimpleTypeOK, NoCall
<1>3. BufferConsistent
  BY <1>1 DEF BufferConsistent, NoCall, Buffers
<1>4. PositionBounded
  BY <1>1, StoredBounded, LastByteNat DEF SimpleInit, PositionBounded, NoCall
<1>5. NoByteSkipped
  BY <1>1 DEF SimpleInit, NoByteSkipped, NoCall
<1>6. LockConsistent
  BY <1>1 DEF SimpleInit, LockConsistent, Holders
<1>7. ReadConsistent
  BY <1>1 DEF ReadConsistent
<1> QED
  BY <1>2, <1>3, <1>4, <1>5, <1>6, <1>7 DEF SimpleInv

\* A buffer that kmalloc has given is none that it has not.
LEMMA NoBuffer == /\ \A s \in Seq(Nat) : s # NOMEM
                  /\ <<>> # NOMEM /\ <<>> \in Seq(Nat) /\ Len(<<>>) = 0
<1>1. \A s \in Seq(Nat) : s # NOMEM
  BY Lengths, Zenon
<1>2. <<>> \in Seq(Nat) /\ Len(<<>>) = 0
  OBVIOUS
<1> QED
  BY <1>1, <1>2, Zenon

\* A step leaves the other processes where they are.
LEMMA OthersKept ==
    ASSUME NEW p \in Procs, ReadDoes(p), SimpleTypeOK
    PROVE  \A q \in Procs \ {p} : /\ phase'[q] = phase[q] /\ local'[q] = local[q]
                                  /\ reads'[q] = reads[q]
<1> USE DEF SimpleTypeOK, Moves, history
<1>1. CASE \E n \in Counts : Read(p, n)
  BY <1>1 DEF Read
<1>2. CASE Interrupted(p) \/ NoMemory(p) \/ Send(p)
  BY <1>2 DEF Interrupted, NoMemory, Send, Returns
<1>3. CASE Acquire(p) \/ Measure(p) \/ Release(p)
  BY <1>3 DEF Acquire, Measure, Release
<1>4. CASE LoadPos(p) \/ StorePos(p)
  BY <1>4 DEF LoadPos, StorePos
<1> QED
  BY <1>1, <1>2, <1>3, <1>4 DEF ReadDoes, simple_read

\* A read keeps its buffer, but for a StorePos, which fills one more place of it.
LEMMA BufferStep ==
    ASSUME NEW p \in Procs, ReadDoes(p), SimpleTypeOK, BufferConsistent
    PROVE  BufferConsistent'
<1> DEFINE Buf(q) ==
      /\ phase[q] # "user" => reads[q] > 0 /\ local[q].count \in Counts
      /\ phase[q] \in {"user", "locking", "measuring"} => local[q].local_buf \in Buffers
      /\ phase[q] \in {"copying", "storing", "sending"} =>
            /\ local[q].local_buf # NOMEM
            /\ Len(local[q].local_buf) <= local[q].length_to_copy
            /\ local[q].length_to_copy <= msg_len
      /\ phase[q] = "storing" => Unfinished(q)
      /\ phase[q] = "sending" => ~Unfinished(q)
<1>1. \A q \in Procs : Buf(q)
  BY DEF BufferConsistent
<1>2. SUFFICES \A q \in Procs : Buf(q)'
  BY DEF BufferConsistent
<1>3. \A q \in Procs \ {p} : Buf(q)'
  BY <1>1, OthersKept DEF Unfinished
<1>4. Buf(p)'
  <2> USE <1>1 DEF SimpleTypeOK, Moves, history, Unfinished
  <2>1. CASE \E n \in Counts : Read(p, n)
    BY <2>1 DEF Read, Buffers
  <2>2. CASE Interrupted(p) \/ NoMemory(p) \/ Send(p)
    BY <2>2 DEF Interrupted, NoMemory, Send, Returns, Buffers, NoCall
  <2>3. CASE Acquire(p)
    BY <2>3 DEF Acquire
  <2>4. CASE Measure(p)
    <3>1. Length(p) \in 0 .. msg_len
      <4>1. msg_pos \in Nat /\ local[p].count \in Nat
        BY LastByteNat
      <4> QED
        BY <4>1, LeftRange, Lengths DEF Length
    <3>2. /\ local'[p].length_to_copy = Length(p)
          /\ local'[p].local_buf = local[p].local_buf
          /\ local'[p].count = local[p].count
      BY <2>4 DEF Measure
    <3>3. local[p].local_buf = <<>>
      BY <2>4 DEF Measure, Buffers
    <3>4. phase[p] = "measuring" /\ phase'[p] = "copying" /\ reads' = reads
      BY <2>4 DEF Measure
    <3>5. reads[p] > 0 /\ local[p].count \in Counts
      BY <3>4
    <3> HIDE DEF SimpleTypeOK
    <3> QED
      BY <3>1, <3>2, <3>3, <3>4, <3>5, NoBuffer
  <2>5. CASE LoadPos(p) \/ Release(p)
    BY <2>5 DEF LoadPos, Release
  <2>6. CASE StorePos(p)
    <3>1. /\ phase[p] = "storing" /\ phase'[p] = "copying" /\ reads' = reads
          /\ local'[p].count = local[p].count
          /\ local'[p].length_to_copy = local[p].length_to_copy
          /\ local'[p].local_buf = Append(local[p].local_buf, local[p].old)
      BY <2>6 DEF StorePos
    <3>2. local[p].local_buf \in Seq(Nat) /\ local[p].old \in Nat
      BY <3>1, LastByteNat
    <3>3. /\ Append(local[p].local_buf, local[p].old) \in Seq(Nat)
          /\ Len(Append(local[p].local_buf, local[p].old)) = Len(local[p].local_buf) + 1
      BY <3>2, AppendProperties
    <3>4. Len(local[p].local_buf) \in Nat /\ local[p].length_to_copy \in Nat
      BY <3>2
    <3>5. /\ reads[p] > 0 /\ local[p].count \in Counts
          /\ Len(local[p].local_buf) < local[p].length_to_copy
          /\ local[p].length_to_copy <= msg_len
      BY <3>1
    <3> HIDE <1>1 DEF SimpleTypeOK, Unfinished
    <3>6. Len(local'[p].local_buf) <= local'[p].length_to_copy
      BY <3>1, <3>3, <3>4, <3>5
    <3>7. local'[p].local_buf # NOMEM
      BY <3>1, <3>3, NoBuffer
    <3> QED
      BY <3>1, <3>5, <3>6, <3>7
  <2> QED
    BY <2>1, <2>2, <2>3, <2>4, <2>5, <2>6 DEF ReadDoes, simple_read
<1> QED
  BY <1>3, <1>4

\* The k-th byte of the r-th read of q has been handed out.
Had(q, r, k) ==
    \/ r < reads[q]
    \/ /\ r = reads[q]
       /\ phase[q] \in {"copying", "storing", "sending"} => k <= Len(local[q].local_buf)
       /\ phase[q] \notin {"locking", "measuring"}

\* Stored is the set of these bytes.
LEMMA StoredIs == \A q \in Procs, r \in 1 .. MaxReads, k \in 1 .. msg_len :
                      <<q, r, k>> \in Stored <=> Had(q, r, k)
  BY DEF Stored, Had

\* A byte that has been handed out stays so: a step that is no StorePos takes no
\* increment away, and a StorePos adds one.
LEMMA StoredStep ==
    ASSUME NEW p \in Procs, ReadDoes(p), SimpleTypeOK, BufferConsistent
    PROVE  /\ Cardinality(Stored) <= Cardinality(Stored')
           /\ StorePos(p) => Cardinality(Stored) < Cardinality(Stored')
<1> DEFINE R == 1 .. MaxReads
           B == 1 .. msg_len
           T == Procs \X R \X B
<1>0. (IsFiniteSet(Stored) /\ Cardinality(Stored) \in 0 .. LastByte)'
  BY StoredBounded, PTL
<1>1. /\ IsFiniteSet(Stored) /\ Cardinality(Stored) \in 0 .. LastByte
      /\ IsFiniteSet(Stored') /\ Cardinality(Stored') \in 0 .. LastByte
  BY <1>0, StoredBounded DEF LastByte
<1>2. (\A q \in Procs, r \in 1 .. MaxReads, k \in 1 .. msg_len :
          <<q, r, k>> \in Stored <=> Had(q, r, k))'
  BY StoredIs, PTL
<1>3. /\ phase[p] # "user" => reads[p] > 0
      /\ phase[p] = "storing" =>
            /\ Len(local[p].local_buf) < local[p].length_to_copy
            /\ local[p].length_to_copy <= msg_len
            /\ local[p].local_buf # NOMEM
  BY DEF BufferConsistent, Unfinished
<1>4. /\ reads[p] \in 0 .. MaxReads /\ local[p].length_to_copy \in Nat
      /\ local[p].local_buf \in Seq(Nat) \cup {NOMEM}
      /\ local[p].old \in Nat
  BY LastByteNat DEF SimpleTypeOK
<1>5. ASSUME NEW r \in R, NEW k \in B, Had(p, r, k)
      PROVE  Had(p, r, k)'
  <2> USE <1>5 DEF SimpleTypeOK, Moves, history, Had
  <2>1. CASE \E n \in Counts : Read(p, n)
    BY <2>1 DEF Read
  <2>2. CASE Interrupted(p) \/ NoMemory(p) \/ Send(p)
    BY <2>2 DEF Interrupted, NoMemory, Send, Returns
  <2>3. CASE Acquire(p) \/ Measure(p)
    BY <2>3 DEF Acquire, Measure
  <2>4. CASE LoadPos(p) \/ Release(p)
    BY <2>4 DEF LoadPos, Release
  <2>5. CASE StorePos(p)
    <3>1. local[p].local_buf \in Seq(Nat)
      BY <2>5, <1>3, <1>4 DEF StorePos
    <3>2. Len(Append(local[p].local_buf, local[p].old)) = Len(local[p].local_buf) + 1
      BY <3>1, <1>4, AppendProperties
    <3>3. /\ phase[p] = "storing" /\ phase'[p] = "copying" /\ reads' = reads
          /\ local'[p].local_buf = Append(local[p].local_buf, local[p].old)
      BY <2>5 DEF StorePos
    <3>4. Len(local[p].local_buf) \in Nat
      BY <3>1
    <3> HIDE DEF SimpleTypeOK, Moves, history
    <3> QED
      BY <3>2, <3>3, <3>4
  <2> QED
    BY <2>1, <2>2, <2>3, <2>4, <2>5 DEF ReadDoes, simple_read
<1>6. \A q \in Procs \ {p}, r \in R, k \in B : Had(q, r, k) => Had(q, r, k)'
  BY OthersKept DEF Had
<1>7. Stored \subseteq Stored'
  <2> SUFFICES ASSUME NEW b \in Stored PROVE b \in Stored'
    OBVIOUS
  <2>1. PICK q \in Procs, r \in R, k \in B : b = <<q, r, k>>
    BY DEF Stored
  <2>2. Had(q, r, k)
    BY <2>1, StoredIs
  <2>3. Had(q, r, k)'
    BY <2>2, <1>5, <1>6
  <2> QED
    BY <2>1, <2>3, <1>2
<1>8. Cardinality(Stored) <= Cardinality(Stored')
  BY <1>1, <1>7, FS_Subset
<1>9. ASSUME StorePos(p)
      PROVE  Cardinality(Stored) < Cardinality(Stored')
  <2>1. /\ phase[p] = "storing" /\ phase'[p] = "copying" /\ reads' = reads
        /\ local'[p].local_buf = Append(local[p].local_buf, local[p].old)
    BY <1>9 DEF StorePos, Moves, SimpleTypeOK
  <2>2. local[p].local_buf \in Seq(Nat)
    BY <2>1, <1>3, <1>4
  <2>3. /\ Len(local[p].local_buf) \in Nat
        /\ Len(local'[p].local_buf) = Len(local[p].local_buf) + 1
    BY <2>1, <2>2, <1>4, AppendProperties
  <2>4. reads[p] \in R /\ Len(local[p].local_buf) + 1 \in B
    <3>1. reads[p] \in R
      BY <2>1, <1>3, <1>4
    <3>2. /\ Len(local[p].local_buf) < local[p].length_to_copy
          /\ local[p].length_to_copy <= msg_len
      BY <2>1, <1>3
    <3>3. local[p].length_to_copy \in Nat /\ msg_len \in Nat
      BY <1>4, Lengths
    <3>4. Len(local[p].local_buf) + 1 \in B
      BY <2>3, <3>2, <3>3
    <3> QED
      BY <3>1, <3>4
  <2>5. PICK r \in R, k \in B : r = reads[p] /\ k = Len(local[p].local_buf) + 1
    BY <2>4
  <2> DEFINE b == <<p, r, k>>
  <2>6. ~Had(p, r, k) /\ Had(p, r, k)'
    BY <2>1, <2>3, <2>5, <1>4 DEF Had
  <2>7. b \notin Stored /\ b \in Stored'
    BY <2>6, <1>2, StoredIs
  <2>8. Stored \cup {b} \in SUBSET Stored'
    BY <2>7, <1>7
  <2>9. Cardinality(Stored \cup {b}) = Cardinality(Stored) + 1
    BY <2>7, <1>1, FS_AddElement
  <2>10. Cardinality(Stored \cup {b}) <= Cardinality(Stored')
    BY <2>8, <1>1, FS_Subset
  <2> QED
    BY <2>9, <2>10, <1>1
<1> QED
  BY <1>8, <1>9

\* Only a StorePos moves msg_pos, to the byte after the one that it hands out; what a
\* read has loaded of msg_pos is what was there, or forgotten.
LEMMA PositionStep ==
    ASSUME NEW p \in Procs, ReadDoes(p), SimpleTypeOK
    PROVE  \/ /\ StorePos(p)
              /\ msg_pos' = local[p].old + 1 /\ local'[p].old = local[p].old
              /\ handed' = [handed EXCEPT ![local[p].old] = @ + 1]
           \/ /\ msg_pos' = msg_pos /\ handed' = handed
              /\ local'[p].old \in {local[p].old, 0, msg_pos}
<1> USE DEF SimpleTypeOK, Moves, history
<1>1. CASE \E n \in Counts : Read(p, n)
  BY <1>1 DEF Read
<1>2. CASE Interrupted(p) \/ NoMemory(p) \/ Send(p)
  BY <1>2 DEF Interrupted, NoMemory, Send, Returns, NoCall
<1>3. CASE Acquire(p) \/ Measure(p) \/ Release(p)
  BY <1>3 DEF Acquire, Measure, Release
<1>4. CASE LoadPos(p)
  BY <1>4 DEF LoadPos
<1>5. CASE StorePos(p)
  BY <1>5 DEF StorePos, Following
<1> QED
  BY <1>1, <1>2, <1>3, <1>4, <1>5 DEF ReadDoes, simple_read

\* So there is an increment for every position.
LEMMA BoundStep ==
    ASSUME NEW p \in Procs, ReadDoes(p), SimpleTypeOK, BufferConsistent, PositionBounded
    PROVE  /\ PositionBounded'
           /\ msg_pos' \in 0 .. LastByte
           /\ \A q \in Procs : local'[q].old \in 0 .. LastByte
<1>0. (IsFiniteSet(Stored) /\ Cardinality(Stored) \in 0 .. LastByte)'
  BY StoredBounded, PTL
<1>1. /\ Cardinality(Stored) \in Nat
      /\ Cardinality(Stored') \in 0 .. LastByte
  BY <1>0, StoredBounded, LastByteNat DEF LastByte
<1>2. /\ Cardinality(Stored) <= Cardinality(Stored')
      /\ StorePos(p) => Cardinality(Stored) < Cardinality(Stored')
  BY StoredStep
<1>3. msg_pos \in Nat /\ \A q \in Procs : local[q].old \in Nat
  BY LastByteNat DEF SimpleTypeOK
<1>4. msg_pos <= Cardinality(Stored) /\ \A q \in Procs : local[q].old <= Cardinality(Stored)
  BY DEF PositionBounded
<1>5. /\ msg_pos' \in Nat /\ msg_pos' <= Cardinality(Stored')
      /\ local'[p].old \in Nat /\ local'[p].old <= Cardinality(Stored')
  <2>1. CASE StorePos(p) /\ msg_pos' = local[p].old + 1 /\ local'[p].old = local[p].old
    BY <2>1, <1>1, <1>2, <1>3, <1>4
  <2>2. CASE msg_pos' = msg_pos /\ local'[p].old \in {local[p].old, 0, msg_pos}
    BY <2>2, <1>1, <1>2, <1>3, <1>4
  <2> QED
    BY <2>1, <2>2, PositionStep
<1>6. \A q \in Procs : local'[q].old \in Nat /\ local'[q].old <= Cardinality(Stored')
  <2> TAKE q \in Procs
  <2>1. CASE q = p
    BY <2>1, <1>5
  <2>2. CASE q # p
    <3>1. local'[q].old = local[q].old
      BY <2>2, OthersKept
    <3> QED
      BY <3>1, <1>1, <1>2, <1>3, <1>4
  <2> QED
    BY <2>1, <2>2
<1> QED
  BY <1>1, <1>5, <1>6, LastByteNat DEF PositionBounded

\* Nothing gets out of its type.
LEMMA SimpleTypeStep ==
    ASSUME NEW p \in Procs, ReadDoes(p), SimpleTypeOK, BufferConsistent, PositionBounded
    PROVE  SimpleTypeOK'
<1>1. msg_pos' \in 0 .. LastByte /\ local'[p].old \in 0 .. LastByte
  BY BoundStep
<1>2. handed' \in [0 .. LastByte -> Nat]
  <2>1. local[p].old \in 0 .. LastByte /\ handed \in [0 .. LastByte -> Nat]
    BY DEF SimpleTypeOK
  <2>2. handed[local[p].old] + 1 \in Nat
    BY <2>1
  <2>3. handed' = [handed EXCEPT ![local[p].old] = @ + 1] \/ handed' = handed
    BY PositionStep
  <2> QED
    BY <2>1, <2>2, <2>3
<1>3. /\ locking' \in {"none", "mutex", "semaphore", "spinlock"}
      /\ some_lock' \in {0, 1} /\ failed' \in BOOLEAN
      /\ phase' \in [Procs -> {"user", "locking", "measuring", "copying",
                            "storing", "sending"}]
      /\ reads' \in [Procs -> 0 .. MaxReads]
  <2> USE DEF SimpleTypeOK, Moves, history
  <2>1. CASE \E n \in Counts : Read(p, n)
    BY <2>1, Lengths DEF Read
  <2>2. CASE Interrupted(p) \/ NoMemory(p) \/ Send(p)
    BY <2>2 DEF Interrupted, NoMemory, Send, Returns
  <2>3. CASE Acquire(p) \/ Measure(p) \/ Release(p)
    BY <2>3 DEF Acquire, Measure, Release
  <2>4. CASE LoadPos(p) \/ StorePos(p)
    BY <2>4 DEF LoadPos, StorePos
  <2> QED
    BY <2>1, <2>2, <2>3, <2>4 DEF ReadDoes, simple_read
<1>4. local' \in [Procs -> [count : Nat, length_to_copy : Nat, old : 0 .. LastByte,
                            local_buf : Seq(Nat) \cup {NOMEM}]]
  <2> USE DEF SimpleTypeOK, Moves, history
  <2>1. CASE \E n \in Counts : Read(p, n)
    <3>1. PICK n \in Counts : Read(p, n)
      BY <2>1
    <3>2. PICK buf \in Buffers :
             local' = [local EXCEPT ![p].count = n, ![p].local_buf = buf]
      BY <3>1 DEF Read, Buffers
    <3>3. n \in Nat /\ buf \in Seq(Nat) \cup {NOMEM}
      BY <3>2, NoBuffer, Lengths DEF Buffers
    <3> QED
      BY <3>2, <3>3
  <2>2. CASE Interrupted(p) \/ NoMemory(p) \/ Send(p)
    <3>1. NoCall \in [count : Nat, length_to_copy : Nat, old : 0 .. LastByte,
                      local_buf : Seq(Nat) \cup {NOMEM}]
      BY NoBuffer, LastByteNat DEF NoCall
    <3>2. local' = [local EXCEPT ![p] = NoCall]
      BY <2>2 DEF Interrupted, NoMemory, Send, Returns
    <3> QED
      BY <3>1, <3>2
  <2>3. CASE Acquire(p) \/ Release(p)
    BY <2>3 DEF Acquire, Release
  <2>4. CASE Measure(p)
    <3>1. Length(p) \in Nat
      <4>1. msg_pos \in Nat /\ local[p].count \in Nat
        BY LastByteNat
      <4> QED
        BY <4>1, LeftRange, Lengths DEF Length
    <3> QED
      BY <2>4, <3>1 DEF Measure
  <2>5. CASE LoadPos(p)
    BY <2>5 DEF LoadPos
  <2>6. CASE StorePos(p)
    <3>1. local[p].local_buf \in Seq(Nat) /\ local[p].old \in Nat
      BY <2>6, LastByteNat DEF StorePos, BufferConsistent
    <3>2. Append(local[p].local_buf, local[p].old) \in Seq(Nat)
      BY <3>1, AppendProperties
    <3>3. local' = [local EXCEPT ![p].local_buf = Append(@, local[p].old)]
      BY <2>6 DEF StorePos
    <3> QED
      BY <3>2, <3>3
  <2> QED
    BY <2>1, <2>2, <2>3, <2>4, <2>5, <2>6 DEF ReadDoes, simple_read
<1> QED
  BY <1>1, <1>2, <1>3, <1>4 DEF SimpleTypeOK

\* No byte is skipped: the byte before the new msg_pos has just been handed out, and
\* those before it had been when the read loaded msg_pos.
LEMMA SkippedStep ==
    ASSUME NEW p \in Procs, ReadDoes(p), SimpleTypeOK, NoByteSkipped
    PROVE  NoByteSkipped'
<1>1. /\ msg_pos \in Nat /\ handed \in [0 .. LastByte -> Nat]
      /\ \A q \in Procs : local[q].old \in 0 .. LastByte /\ local[q].old \in Nat
  BY LastByteNat DEF SimpleTypeOK
<1>2. \A q \in Procs \ {p} : local'[q].old = local[q].old
  BY OthersKept
<1>3. SUFFICES ASSUME NEW k \in 0 .. LastByte,
                      k < msg_pos' \/ \E q \in Procs : k < local'[q].old
               PROVE  handed'[k] > 0
  BY DEF NoByteSkipped, LastByte
<1>4. k < msg_pos \/ (\E q \in Procs : k < local[q].old) => handed[k] > 0
  BY DEF NoByteSkipped
<1>5. k \in Nat
  BY LastByteNat
<1>6. CASE /\ msg_pos' = local[p].old + 1 /\ local'[p].old = local[p].old
           /\ handed' = [handed EXCEPT ![local[p].old] = @ + 1]
  <2>1. k = local[p].old \/ k < msg_pos \/ \E q \in Procs : k < local[q].old
    BY <1>1, <1>2, <1>3, <1>5, <1>6
  <2>2. handed'[k] = IF k = local[p].old THEN handed[k] + 1 ELSE handed[k]
    BY <1>1, <1>6
  <2>3. handed[k] \in Nat
    BY <1>1
  <2> QED
    BY <2>1, <2>2, <2>3, <1>4
<1>7. CASE /\ msg_pos' = msg_pos /\ handed' = handed
           /\ local'[p].old \in {local[p].old, 0, msg_pos}
  <2>1. k < msg_pos \/ \E q \in Procs : k < local[q].old
    BY <1>1, <1>2, <1>3, <1>5, <1>7
  <2> QED
    BY <2>1, <1>4, <1>7
<1> QED
  BY <1>6, <1>7, PositionStep

\* Who gets the lock finds nobody inside, and who leaves gives it back, unless it has
\* had no memory.
LEMMA LockStep ==
    ASSUME NEW p \in Procs, ReadDoes(p), SimpleTypeOK, LockConsistent
    PROVE  LockConsistent'
<1>1. phase \in [Procs -> {"user", "locking", "measuring", "copying", "storing", "sending"}]
  BY DEF SimpleTypeOK
<1>2. locking' = locking
  BY DEF ReadDoes, simple_read, Read, Interrupted, Acquire, Measure, NoMemory, LoadPos,
         StorePos, Release, Send, history
<1>3. SUFFICES ASSUME locking # "none"
               PROVE  /\ \A q, r \in Holders' : q = r
                      /\ Holders' # {} => some_lock' = 0
                      /\ some_lock' = 0 => Holders' # {} \/ failed'
  BY <1>2 DEF LockConsistent
<1>4. /\ \A q, r \in Holders : q = r
      /\ Holders # {} => some_lock = 0
      /\ some_lock = 0 => Holders # {} \/ failed
  BY <1>3 DEF LockConsistent
<1>5. CASE Acquire(p)
  <2>1. some_lock = 1 /\ some_lock' = 0
    BY <1>3, <1>5 DEF Acquire
  <2>2. Holders = {} /\ Holders' = {p}
    BY <1>1, <1>4, <1>5, <2>1 DEF Acquire, Moves, Holders
  <2> QED
    BY <2>1, <2>2
<1>6. CASE Release(p) \/ NoMemory(p)
  <2>1. p \in Holders /\ Holders' = Holders \ {p}
    BY <1>1, <1>6 DEF Release, NoMemory, Returns, Moves, Holders
  <2>2. Holders' = {}
    BY <1>4, <2>1
  <2>3. some_lock' = 1 \/ failed'
    BY <1>6 DEF Release, NoMemory
  <2> QED
    BY <2>2, <2>3
<1>7. CASE (\E n \in Counts : Read(p, n)) \/ Interrupted(p) \/ Send(p)
  <2>1. Holders' = Holders /\ some_lock' = some_lock /\ failed' = failed
    BY <1>1, <1>7 DEF Read, Interrupted, Send, Returns, Moves, Holders, history
  <2> QED
    BY <2>1, <1>4
<1>8. CASE Measure(p) \/ LoadPos(p) \/ StorePos(p)
  <2>1. Holders' = Holders /\ some_lock' = some_lock /\ failed' = failed
    BY <1>1, <1>8 DEF Measure, LoadPos, StorePos, Moves, Holders, history
  <2> QED
    BY <2>1, <1>4
<1> QED
  BY <1>5, <1>6, <1>7, <1>8 DEF ReadDoes, simple_read

\* A read that begins begins at msg_pos, and while it copies nobody else moves that.
LEMMA ReadStep ==
    ASSUME NEW p \in Procs, ReadDoes(p), SimpleTypeOK, BufferConsistent, LockConsistent,
           ReadConsistent
    PROVE  ReadConsistent'
<1> DEFINE Right(q) ==
      /\ phase[q] \in {"copying", "storing"} =>
            /\ Begun(q) >= 0
            /\ \A i \in DOMAIN local[q].local_buf :
                  local[q].local_buf[i] = Begun(q) + i - 1
            /\ local[q].length_to_copy =
                  LET remaining == msg_len - (Begun(q) % msg_len)
                  IN  IF local[q].count < remaining THEN local[q].count ELSE remaining
      /\ phase[q] = "storing" => local[q].old = msg_pos
<1>1. locking' = locking
  BY DEF ReadDoes, simple_read, Read, Interrupted, Acquire, Measure, NoMemory, LoadPos,
         StorePos, Release, Send, history
<1>2. SUFFICES ASSUME locking # "none" PROVE \A q \in Procs : Right(q)'
  BY <1>1 DEF ReadConsistent
<1>3. \A q \in Procs : Right(q)
  BY <1>2 DEF ReadConsistent
<1>4. \A q, r \in Holders : q = r
  BY <1>2 DEF LockConsistent
<1>5. /\ phase \in [Procs -> {"user", "locking", "measuring", "copying", "storing", "sending"}]
      /\ msg_pos \in Nat /\ local[p].count \in Nat /\ local[p].length_to_copy \in Nat
      /\ local[p].local_buf \in Seq(Nat) \cup {NOMEM} /\ local[p].old \in Nat
  BY LastByteNat DEF SimpleTypeOK
<1>6. ASSUME NEW q \in Procs \ {p} PROVE Right(q)'
  <2>1. phase'[q] = phase[q] /\ local'[q] = local[q]
    BY OthersKept
  <2>2. CASE phase[q] \notin {"copying", "storing"}
    BY <2>1, <2>2
  <2>3. CASE phase[q] \in {"copying", "storing"}
    <3>1. p \notin Holders
      BY <1>4, <2>3 DEF Holders
    <3>2. ~StorePos(p)
      BY <3>1 DEF StorePos, Moves, Holders
    <3>3. msg_pos' = msg_pos
      BY <3>2, PositionStep
    <3>4. Begun(q)' = Begun(q)
      BY <2>1, <3>3 DEF Begun
    <3> QED
      BY <2>1, <3>3, <3>4, <1>3
  <2> QED
    BY <2>2, <2>3
<1>7. Right(p)'
  <2>1. CASE Measure(p)
    <3>1. /\ phase'[p] = "copying" /\ msg_pos' = msg_pos
          /\ local'[p].length_to_copy = Length(p)
          /\ local'[p].local_buf = local[p].local_buf
          /\ local'[p].count = local[p].count
          /\ local[p].local_buf = <<>>
      BY <2>1 DEF Measure, Moves, SimpleTypeOK, BufferConsistent, Buffers
    <3>2. Begun(p)' = msg_pos
      BY <3>1, <1>5, NoBuffer DEF Begun
    <3>3. DOMAIN local'[p].local_buf = {}
      BY <3>1
    <3> DEFINE remaining == msg_len - (msg_pos % msg_len)
    <3>4. remaining \in 1 .. msg_len
      BY <1>5, LeftRange
    <3>5. Length(p) = IF remaining > local[p].count THEN local[p].count ELSE remaining
      BY DEF Length
    <3>6. msg_len - (Begun(p)' % msg_len) = remaining
      BY <3>2
    <3> HIDE DEF remaining
    <3>7. local'[p].length_to_copy =
              IF local'[p].count < remaining THEN local'[p].count ELSE remaining
      BY <3>1, <3>4, <3>5, <1>5, Lengths
    <3> QED
      BY <3>1, <3>2, <3>3, <3>6, <3>7, <1>5
  <2>2. CASE LoadPos(p)
    <3>1. /\ phase[p] = "copying" /\ phase'[p] = "storing" /\ msg_pos' = msg_pos
          /\ local'[p].length_to_copy = local[p].length_to_copy
          /\ local'[p].local_buf = local[p].local_buf
          /\ local'[p].count = local[p].count
          /\ local'[p].old = msg_pos
      BY <2>2 DEF LoadPos, Moves, SimpleTypeOK
    <3>2. Begun(p)' = Begun(p)
      BY <3>1 DEF Begun
    <3> QED
      BY <3>1, <3>2, <1>3
  <2>3. CASE StorePos(p)
    <3>1. /\ phase[p] = "storing" /\ phase'[p] = "copying"
          /\ msg_pos' = local[p].old + 1
          /\ local'[p].length_to_copy = local[p].length_to_copy
          /\ local'[p].local_buf = Append(local[p].local_buf, local[p].old)
          /\ local'[p].count = local[p].count
      BY <2>3 DEF StorePos, Following, Moves, SimpleTypeOK
    <3>2. local[p].old = msg_pos
      BY <3>1, <1>3
    <3>3. local[p].local_buf \in Seq(Nat)
      BY <3>1, <1>5 DEF BufferConsistent
    <3> DEFINE buf == local[p].local_buf
               buf1 == local'[p].local_buf
    <3>4. /\ Len(buf) \in Nat /\ DOMAIN buf = 1 .. Len(buf)
          /\ Len(buf1) = Len(buf) + 1
          /\ DOMAIN buf1 = 1 .. Len(buf) + 1
          /\ \A i \in 1 .. Len(buf) : buf1[i] = buf[i]
          /\ buf1[Len(buf) + 1] = msg_pos
      <4>1. buf \in Seq(Nat) /\ buf1 = Append(buf, msg_pos) /\ msg_pos \in Nat
        BY <3>1, <3>2, <3>3, <1>5
      <4> HIDE DEF buf, buf1
      <4>2. /\ buf1 \in Seq(Nat) /\ Len(buf1) = Len(buf) + 1
            /\ \A i \in 1 .. Len(buf) : buf1[i] = buf[i]
            /\ buf1[Len(buf) + 1] = msg_pos
        BY <4>1, AppendProperties
      <4>3. /\ Len(buf) \in Nat /\ DOMAIN buf = 1 .. Len(buf)
            /\ DOMAIN buf1 = 1 .. Len(buf1)
        BY <4>1, <4>2, LenProperties
      <4> QED
        BY <4>2, <4>3
    <3>5. Begun(p) = msg_pos - Len(buf) /\ Begun(p)' = msg_pos' - Len(buf1)
      BY DEF Begun
    <3>6. Begun(p)' = Begun(p)
      <4>1. msg_pos' = msg_pos + 1
        BY <3>1, <3>2
      <4> HIDE DEF buf, buf1
      <4> QED
        BY <4>1, <3>4, <3>5, <1>5
    <3>7. \A i \in DOMAIN buf1 : buf1[i] = Begun(p) + i - 1
      <4>1. \A i \in 1 .. Len(buf) : buf[i] = Begun(p) + i - 1
        BY <3>1, <3>4, <1>3
      <4>2. msg_pos = Begun(p) + (Len(buf) + 1) - 1
        BY <3>4, <3>5, <1>5
      <4> HIDE DEF buf, buf1
      <4> QED
        BY <4>1, <4>2, <3>4
    <3> QED
      BY <3>1, <3>6, <3>7, <1>3
  <2>4. CASE (\E n \in Counts : Read(p, n)) \/ Acquire(p)
    BY <2>4, <1>5 DEF Read, Acquire, Moves
  <2>5. CASE Interrupted(p) \/ NoMemory(p) \/ Release(p) \/ Send(p)
    BY <2>5, <1>5 DEF Interrupted, NoMemory, Release, Send, Returns, Moves
  <2> QED
    BY <2>1, <2>2, <2>3, <2>4, <2>5 DEF ReadDoes, simple_read
<1> QED
  BY <1>6, <1>7

\* Every step keeps all of it.
LEMMA SimpleNextInv == SimpleInv /\ [SimpleNext]_simpleVars => SimpleInv'
<1> SUFFICES ASSUME SimpleInv, [SimpleNext]_simpleVars PROVE SimpleInv'
  OBVIOUS
<1>1. CASE UNCHANGED simpleVars
  BY <1>1 DEF simpleVars, history, SimpleInv, SimpleTypeOK, BufferConsistent, PositionBounded,
              NoByteSkipped, LockConsistent, ReadConsistent, Begun, Holders, Stored,
              Unfinished
<1>2. ASSUME NEW p \in Procs, ReadDoes(p)
      PROVE  SimpleInv'
  <2> USE <1>2 DEF SimpleInv
  <2>1. SimpleTypeOK' /\ PositionBounded'
    BY SimpleTypeStep, BoundStep
  <2>2. BufferConsistent'
    BY BufferStep
  <2>3. NoByteSkipped'
    BY SkippedStep
  <2>4. LockConsistent'
    BY LockStep
  <2>5. ReadConsistent'
    BY ReadStep
  <2> QED
    BY <2>1, <2>2, <2>3, <2>4, <2>5
<1> QED
  BY <1>1, <1>2 DEF SimpleNext, Stopped, ReadDoes

\* In every state of /dev/simple, of each of its four variants, no byte is skipped,
\* the lock keeps the others out, and a read under it has the bytes that are due.
THEOREM SimpleSafe == SimpleSpec => []SimpleInv
  BY SimpleInitInv, SimpleNextInv, PTL DEF SimpleSpec

\* What is in progress is the read that copies.
InProgressKnown ==
    /\ \A p \in Procs : phase[p] \in {"copying", "storing"} =>
          InProgress = Len(local[p].local_buf)
    /\ (\A p \in Procs : phase[p] \notin {"copying", "storing"}) => InProgress = 0

\* Under a lock there is no more than one such read.
LEMMA OneCopies == LockConsistent /\ locking # "none" => InProgressKnown
<1> SUFFICES ASSUME LockConsistent, locking # "none" PROVE InProgressKnown
  OBVIOUS
<1>1. \A p, q \in Copying : p = q
  BY DEF LockConsistent, Holders, Copying
<1>2. ASSUME NEW p \in Procs, phase[p] \in {"copying", "storing"}
      PROVE  InProgress = Len(local[p].local_buf)
  <2>1. p \in Copying
    BY <1>2 DEF Copying
  <2>2. (CHOOSE q \in Copying : TRUE) = p
    BY <1>1, <2>1
  <2> QED
    BY <2>1, <2>2 DEF InProgress
<1>3. ASSUME \A p \in Procs : phase[p] \notin {"copying", "storing"}
      PROVE  InProgress = 0
  BY <1>3 DEF InProgress, Copying
<1> QED
  BY <1>2, <1>3 DEF InProgressKnown

\* The read takes its bytes when it gives the lock back.
LEMMA ReleaseTakes ==
    ASSUME NEW p \in Procs, Release(p), SimpleInv, SimpleInv', locking # "none"
    PROVE  \E asked \in Counts : Stream!Take(p, asked)
<1>1. /\ phase[p] = "copying" /\ phase' = [phase EXCEPT ![p] = "sending"] /\ ~Unfinished(p)
      /\ locking' = locking /\ msg_pos' = msg_pos /\ local' = local
  BY DEF Release, Moves
<1>2. (LockConsistent /\ locking # "none" => InProgressKnown)'
  BY OneCopies, PTL
<1>3. phase \in [Procs -> {"user", "locking", "measuring", "copying", "storing", "sending"}]
  BY DEF SimpleInv, SimpleTypeOK
<1>4. /\ p \in Holders /\ \A q \in Holders : q = p
  BY <1>1 DEF SimpleInv, LockConsistent, Holders
<1>5. \A q \in Procs : phase'[q] \notin {"copying", "storing"}
  BY <1>1, <1>3, <1>4 DEF Holders
<1>6. InProgress' = 0
  BY <1>1, <1>2, <1>5 DEF SimpleInv, InProgressKnown
<1>7. InProgress = Len(local[p].local_buf)
  BY <1>1, OneCopies DEF SimpleInv, InProgressKnown
<1> DEFINE buf == local[p].local_buf
           asked == local[p].count
           remaining == msg_len - (Due % msg_len)
           length == IF asked < remaining THEN asked ELSE remaining
<1>8. /\ buf \in Seq(Nat) /\ asked \in Counts /\ msg_pos \in Nat
      /\ Len(buf) <= local[p].length_to_copy /\ ~(Len(buf) < local[p].length_to_copy)
      /\ local[p].length_to_copy \in Nat
  BY <1>1, LastByteNat DEF SimpleInv, SimpleTypeOK, BufferConsistent, Unfinished
<1>9. Len(buf) \in Nat /\ DOMAIN buf = 1 .. Len(buf)
  BY <1>8, LenProperties
<1>10. Due = Begun(p) /\ Due' = msg_pos
  BY <1>1, <1>6, <1>7, <1>8 DEF Due, Begun
<1>11. /\ \A i \in DOMAIN buf : buf[i] = Begun(p) + i - 1
       /\ local[p].length_to_copy =
             LET l == msg_len - (Begun(p) % msg_len)
             IN  IF local[p].count < l THEN local[p].count ELSE l
  BY <1>1 DEF SimpleInv, ReadConsistent
<1>12. Len(buf) = length
  <2>1. Len(buf) = local[p].length_to_copy
    BY <1>8, <1>9
  <2> QED
    BY <2>1, <1>10, <1>11
<1>13. buf = [i \in 1 .. length |-> Due + i - 1]
  <2>1. buf = [i \in 1 .. Len(buf) |-> buf[i]]
    BY <1>8, <1>9, LenProperties
  <2> HIDE DEF buf, length
  <2> QED
    BY <2>1, <1>9, <1>10, <1>11, <1>12
<1>14. Due' = Due + length
  <2>1. Due = msg_pos - Len(buf) /\ Due' = msg_pos
    BY <1>10 DEF Begun
  <2> HIDE DEF buf, length
  <2> QED
    BY <2>1, <1>8, <1>9, <1>12
<1>15. Taken[p] = <<>> /\ Taken' = [Taken EXCEPT ![p] = buf]
  BY <1>1, <1>3 DEF Taken
<1> HIDE DEF buf
<1> QED
  BY <1>8, <1>13, <1>14, <1>15 DEF Stream!Take

\* No other step takes or gives back a byte of the stream, but Send.
LEMMA StepRefines ==
    SimpleInv /\ SimpleInv' /\ [SimpleNext]_simpleVars => [Stream!Next]_<<Due, Taken>>
<1> SUFFICES ASSUME SimpleInv, SimpleInv', [SimpleNext]_simpleVars
             PROVE  Stream!Next \/ UNCHANGED <<Due, Taken>>
  OBVIOUS
<1>1. CASE UNCHANGED simpleVars
  BY <1>1 DEF simpleVars, Due, Taken, InProgress, Copying
<1>2. ASSUME NEW p \in Procs, ReadDoes(p)
      PROVE  Stream!Next \/ UNCHANGED <<Due, Taken>>
  <2>1. locking' = locking
    BY <1>2 DEF ReadDoes, simple_read, Read, Interrupted, Acquire, Measure, NoMemory,
                LoadPos, StorePos, Release, Send, history
  <2>2. CASE locking = "none"
    BY <2>1, <2>2 DEF Due, Taken
  <2>3. CASE locking # "none"
    <3>1. (LockConsistent /\ locking # "none" => InProgressKnown)'
      BY OneCopies, PTL
    <3>2. /\ phase \in [Procs -> {"user", "locking", "measuring", "copying", "storing",
                               "sending"}]
          /\ msg_pos \in Nat /\ local[p].old \in Nat
          /\ local[p].local_buf \in Seq(Nat) \cup {NOMEM}
      <4>1. SimpleTypeOK
        BY DEF SimpleInv
      <4>2. 0 .. LastByte \subseteq Nat
        BY LastByteNat
      <4> QED
        BY <4>1, <4>2 DEF SimpleTypeOK
    <3>3. \A q, r \in Holders : q = r
      BY <2>3 DEF SimpleInv, LockConsistent
    <3>4. \A q \in Procs \ {p} : phase'[q] = phase[q] /\ local'[q] = local[q]
      BY <1>2, OthersKept DEF SimpleInv
    <3>5. ASSUME phase[p] \notin {"copying", "storing"}, phase'[p] \notin {"copying", "storing"}
          PROVE  InProgress' = InProgress
      <4>1. CASE \E q \in Procs : phase[q] \in {"copying", "storing"}
        <5>1. PICK q \in Procs : phase[q] \in {"copying", "storing"}
          BY <4>1
        <5>2. phase'[q] = phase[q] /\ local'[q] = local[q]
          BY <5>1, <3>4, <3>5
        <5> QED
          BY <5>1, <5>2, <2>1, <2>3, <3>1, OneCopies DEF SimpleInv, InProgressKnown
      <4>2. CASE \A q \in Procs : phase[q] \notin {"copying", "storing"}
        <5>1. \A q \in Procs : phase'[q] \notin {"copying", "storing"}
          BY <4>2, <3>4, <3>5
        <5> QED
          BY <4>2, <5>1, <2>1, <2>3, <3>1, OneCopies DEF SimpleInv, InProgressKnown
      <4> QED
        BY <4>1, <4>2
    <3>6. ASSUME phase[p] # "sending", phase'[p] # "sending"
          PROVE  Taken' = Taken
      BY <2>1, <3>4, <3>6 DEF Taken
    <3>7. CASE Release(p)
      BY <1>2, <2>3, <3>7, ReleaseTakes DEF Stream!Next
    <3>8. CASE Send(p)
      <4>1. phase[p] = "sending" /\ phase'[p] = "user" /\ msg_pos' = msg_pos
        BY <3>2, <3>8 DEF Send, Returns, Moves
      <4>2. Due' = Due
        BY <2>1, <4>1, <3>5 DEF Due
      <4>3. Taken' = [Taken EXCEPT ![p] = <<>>]
        BY <2>1, <3>4, <4>1 DEF Taken
      <4> QED
        BY <4>2, <4>3 DEF Stream!Next, Stream!Return
    <3>9. CASE \/ (\E n \in Counts : Read(p, n)) \/ Acquire(p)
               \/ Interrupted(p) \/ NoMemory(p)
      <4>1. /\ phase[p] \in {"user", "locking", "measuring"}
            /\ phase'[p] \in {"user", "locking", "measuring"} /\ msg_pos' = msg_pos
        BY <3>2, <3>9 DEF Read, Acquire, Interrupted, NoMemory, Returns, Moves
      <4>2. Due' = Due
        BY <2>1, <4>1, <3>5 DEF Due
      <4> QED
        BY <4>1, <4>2, <3>6
    <3>10. CASE Measure(p)
      <4>1. /\ phase[p] = "measuring" /\ phase'[p] = "copying" /\ msg_pos' = msg_pos
            /\ local'[p].local_buf = <<>>
        BY <3>10 DEF Measure, Moves, SimpleInv, SimpleTypeOK, BufferConsistent, Buffers
      <4>2. \A q \in Procs : phase[q] \notin {"copying", "storing"}
        BY <3>3, <4>1 DEF Holders
      <4>3. InProgress = 0
        BY <4>2, <2>3, OneCopies DEF SimpleInv, InProgressKnown
      <4>4. InProgress' = 0
        BY <4>1, <2>1, <2>3, <3>1, NoBuffer DEF SimpleInv, InProgressKnown
      <4> QED
        BY <2>1, <4>1, <4>3, <4>4, <3>6 DEF Due
    <3>11. CASE LoadPos(p)
      <4>1. /\ phase[p] = "copying" /\ phase'[p] = "storing" /\ msg_pos' = msg_pos
            /\ local'[p].local_buf = local[p].local_buf
        BY <3>11 DEF LoadPos, Moves, SimpleInv, SimpleTypeOK
      <4>2. InProgress' = InProgress
        BY <4>1, <2>1, <2>3, <3>1, OneCopies DEF SimpleInv, InProgressKnown
      <4> QED
        BY <2>1, <4>1, <4>2, <3>6 DEF Due
    <3>12. CASE StorePos(p)
      <4>1. /\ phase[p] = "storing" /\ phase'[p] = "copying"
            /\ msg_pos' = local[p].old + 1
            /\ local'[p].local_buf = Append(local[p].local_buf, local[p].old)
        <5>1. SimpleTypeOK
          BY DEF SimpleInv
        <5> QED
          BY <5>1, <3>12 DEF StorePos, Following, Moves, SimpleTypeOK
      <4>2. local[p].old = msg_pos
        BY <4>1, <2>3 DEF SimpleInv, ReadConsistent
      <4>3. local[p].local_buf \in Seq(Nat)
        BY <4>1, <3>2 DEF SimpleInv, BufferConsistent
      <4>4. InProgress = Len(local[p].local_buf) /\ InProgress' = Len(local'[p].local_buf)
        BY <4>1, <2>1, <2>3, <3>1, OneCopies DEF SimpleInv, InProgressKnown
      <4>5. /\ Len(local[p].local_buf) \in Nat
            /\ Len(Append(local[p].local_buf, local[p].old)) = Len(local[p].local_buf) + 1
        BY <4>3, <3>2, AppendProperties
      <4>6. InProgress \in Nat /\ InProgress' = InProgress + 1 /\ msg_pos' = msg_pos + 1
        BY <4>1, <4>2, <4>4, <4>5
      <4>7. Due' = Due
        BY <2>1, <3>2, <4>6 DEF Due
      <4> QED
        BY <4>1, <4>7, <3>6
    <3> QED
      BY <1>2, <3>7, <3>8, <3>9, <3>10, <3>11, <3>12 DEF ReadDoes, simple_read
  <2> QED
    BY <2>2, <2>3
<1> QED
  BY <1>1, <1>2 DEF SimpleNext, Stopped, ReadDoes

\* Under any of the three locks /dev/simple is the stream of its bytes: each read takes
\* the next ones, as many as were asked for but never past the end of the message.
THEOREM SimpleRefines == SimpleSpec => ImplementsStream
<1>1. SimpleInit => Stream!Init
  <2> SUFFICES ASSUME SimpleInit PROVE Stream!Init
    OBVIOUS
  <2>1. \A p \in Procs : phase[p] = "user"
    BY DEF SimpleInit
  <2>2. InProgress = 0 /\ msg_pos = 0
    BY <2>1 DEF SimpleInit, InProgress, Copying
  <2> QED
    BY <2>1, <2>2 DEF Stream!Init, Due, Taken
<1> QED
  BY <1>1, SimpleSafe, StepRefines, PTL DEF SimpleSpec, ImplementsStream, Stream!Spec
=============================================================================
