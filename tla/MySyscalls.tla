---------------------------- MODULE MySyscalls ----------------------------
(***************************************************************************)
(* cw07/syscalls/mysyscalls: kernelps names all processes, topuser and     *)
(* timeuser find the user with the most processes, or with the most time.  *)
(* They go along the list of processes without a lock, so that processes   *)
(* come and go under them.                                                 *)
(***************************************************************************)
EXTENDS Integers, FiniteSets, FiniteSetsExt

CONSTANTS Procs, Uids,        \* numbers: processes in the order of the list; 0 is root
          Sizes,              \* of the arrays which kernelps gets; 0: it gets NULL
          MaxTime,            \* bound on the time of a process
          NULL

VARIABLES uid, utime,         \* of each process; its user is NULL when there is none
          call,               \* "none", the one that goes on, or how the last one ended
          proc,               \* where it stands in the list
          buffer_size, it, arr_size,  \* kernelps: of the array, names written, told
          tab, max_cnt, max_uid,      \* topuser, timeuser: of each user, NULL for none
          kind, changed               \* history: which call it was; the list changed under it

list     == <<uid, utime>>
counts   == <<tab, max_cnt, max_uid>>
names    == <<buffer_size, it, arr_size>>
callVars == <<list, call, proc, names, counts, kind, changed>>

Calls    == {"kernelps", "topuser", "timeuser"}
Running  == call \in Calls
Listed   == {p \in Procs : uid[p] # NULL}

CallsInit ==
    /\ uid \in [Procs -> Uids \cup {NULL}] /\ utime \in [Procs -> 0 .. MaxTime]
    /\ call = "none" /\ kind = "none" /\ proc = 0 /\ changed = FALSE
    /\ buffer_size = 0 /\ it = 0 /\ arr_size = 0
    /\ tab = [u \in Uids |-> NULL] /\ max_cnt = 0 /\ max_uid = 0

\* A process begins (at the end of the list), or ends and is gone.
Fork(p, u) == /\ Running /\ uid[p] = NULL /\ p > proc /\ \A q \in Listed : q < p
              /\ uid' = [uid EXCEPT ![p] = u] /\ utime' = [utime EXCEPT ![p] = 0]
              /\ changed' = TRUE
              /\ UNCHANGED <<call, proc, names, counts, kind>>
Exit(p)    == /\ Running /\ uid[p] # NULL
              /\ uid' = [uid EXCEPT ![p] = NULL] /\ changed' = TRUE
              /\ UNCHANGED <<utime, call, proc, names, counts, kind>>

-----------------------------------------------------------------------------
Enter(k, size) == /\ call = "none"     \* bound: one call
                  /\ call' = k /\ kind' = k
                  /\ buffer_size' = size /\ arr_size' = size
                  /\ UNCHANGED <<list, proc, it, counts, changed>>
End(how)       == /\ call' = how
                  /\ UNCHANGED <<list, proc, names, counts, kind, changed>>

\* for_each_process: from a process that is gone to whatever its memory says.
Rest     == {p \in Listed : p > proc}
At(p)    == Running /\ p \in Rest /\ \A q \in Rest : p <= q
FromGone == Running /\ proc # 0 /\ uid[proc] = NULL /\ End("oops")

\* kernelps; without an array it takes the first name's address from page 0.
Room == it # buffer_size
NoArray(p) == At(p) /\ call = "kernelps" /\ buffer_size = 0 /\ End("oops")
Full(p)    == At(p) /\ call = "kernelps" /\ buffer_size # 0 /\ ~Room /\ End("EFAULT")
Name(p)    == /\ At(p) /\ call = "kernelps" /\ buffer_size # 0 /\ Room
              /\ it' = it + 1 /\ proc' = p
              /\ UNCHANGED <<list, call, buffer_size, arr_size, counts, kind, changed>>

\* topuser and timeuser, whose table has an entry for each user; it needs memory, and
\* they do not look whether they got it.  Mutant: only a new entry can be the greatest.
What(p) == IF call = "topuser" THEN 1 ELSE utime[p]
BeatsWhenNew(u, cnt) == tab[u] = NULL /\ max_cnt < cnt
Beats(u, cnt)        == max_cnt < cnt
Count(p) == /\ At(p) /\ call \in {"topuser", "timeuser"}
            /\ LET u   == uid[p]
                   cnt == IF tab[u] = NULL THEN What(p) ELSE tab[u] + What(p)
               IN /\ tab' = [tab EXCEPT ![u] = cnt]
                  /\ max_cnt' = IF Beats(u, cnt) THEN cnt ELSE max_cnt
                  /\ max_uid' = IF Beats(u, cnt) THEN u ELSE max_uid
            /\ proc' = p
            /\ UNCHANGED <<list, call, names, kind, changed>>
NoMemory(p) == /\ At(p) /\ call \in {"topuser", "timeuser"} /\ tab[uid[p]] = NULL
               /\ End("oops")

\* At the end kernelps tells it + 1; the table is freed by a loop which takes the next
\* entry from the one that it has freed.
Told      == Running /\ Rest = {} /\ call = "kernelps"
             /\ arr_size' = it + 1 /\ call' = "done"
             /\ UNCHANGED <<list, proc, buffer_size, it, counts, kind, changed>>
Freed     == Running /\ Rest = {} /\ call # "kernelps" /\ End("done")
FreedNext == Running /\ Rest = {} /\ call # "kernelps" /\ (\E u \in Uids : tab[u] # NULL)
             /\ End("oops")

CallsNext == \/ \E k \in Calls, size \in Sizes : Enter(k, size)
             \/ \E p \in Procs : \/ \E u \in Uids : Fork(p, u)
                                 \/ Exit(p) \/ NoArray(p) \/ Full(p) \/ Name(p)
                                 \/ Count(p) \/ NoMemory(p)
             \/ FromGone \/ Told \/ Freed \/ FreedNext

-----------------------------------------------------------------------------
DataOf(u) == IF kind = "topuser" THEN Cardinality({p \in Listed : uid[p] = u})
             ELSE MapThenSumSet(LAMBDA p : utime[p], {p \in Listed : uid[p] = u})

\* No name is written past the array; with an array that just holds them all kernelps
\* tells one more than there is.  Whatever comes and goes, topuser and timeuser have
\* the greatest of what they counted, and what they counted is right when nothing did.
CallsRight ==
    /\ it <= buffer_size
    /\ \A u \in Uids : tab[u] # NULL => tab[u] <= max_cnt
    /\ max_cnt # 0 => tab[max_uid] = max_cnt
    /\ call = "done" /\ ~changed =>
          IF kind = "kernelps" THEN it = Cardinality(Listed) /\ arr_size = it + 1
          ELSE \A u \in Uids : DataOf(u) <= DataOf(max_uid)
=============================================================================
