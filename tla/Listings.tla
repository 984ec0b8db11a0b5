------------------------------ MODULE Listings ------------------------------
(***************************************************************************)
(* fs/proc: listings that a process reads in several calls, each as long   *)
(* as its buffer allows, while what they list comes and goes: the pids in  *)
(* /proc and the open files in fd/, which a call finds again by number;    *)
(* the threads in task/ and the children in children, which stand in the   *)
(* order of their arrival, the entries that modules have made, in the      *)
(* order of their names, consoles, drivers of terminals and regions of     *)
(* memory (nommu.c), which it finds by how many it has passed; devices,    *)
(* which it goes through by their places in two hash tables, and           *)
(* interrupts.                                                             *)
(***************************************************************************)
EXTENDS Integers, Sequences, FiniteSets

CONSTANTS Numbers,      \* of what is listed; the first thread has the least
          MaxChanges,   \* bound on arrivals and departures
          NULL

VARIABLES kind,         \* which listing it is
          members,      \* what there is, in order
          pos, tid,     \* ctx->pos, and file->f_version or the last child shown
          at,           \* what the call has in hand
          call,         \* "none", or how far the call is
          shown, steady, arrived, departed, changes    \* history

listed  == <<kind, members, arrived, departed, changes>>
listing == <<listed, pos, tid, at, call, shown, steady>>

Keyed == {"pids", "fds"}
Locked == {"consoles", "drivers", "regions"}   \* a call holds the lock of the list
Placed == {"devices", "interrupts"}
Kinds == Keyed \cup Placed \cup Locked \cup {"threads", "children", "entries"}
Elements(s) == {s[i] : i \in DOMAIN s}
Sorted(s)   == \A i, j \in DOMAIN s : i < j => s[i] < s[j]
Orders      == {s \in UNION {[1 .. n -> Numbers] : n \in 0 .. 3} : Sorted(s)}

ListingInit ==
    /\ kind \in Kinds
    /\ members \in {s \in Orders : kind = "threads" => s # <<>>}
    /\ pos = 0 /\ tid = NULL /\ at = NULL /\ call = "none" /\ shown = <<>>
    /\ steady = Elements(members) /\ arrived = FALSE /\ departed = {} /\ changes = 0

-----------------------------------------------------------------------------
Index(x)   == CHOOSE i \in DOMAIN members : members[i] = x
Is(x)      == x \in Elements(members)
Least(s)   == IF s = {} THEN NULL ELSE CHOOSE x \in s : \A y \in s : x <= y
At(i)      == IF i \in DOMAIN members THEN members[i] ELSE NULL

\* How many stand before what comes: by number or by name, or because it takes the
\* first place, or the second behind the console that is preferred, or the last.
Before(x) == CASE kind \in Keyed \cup Placed \cup {"entries", "regions"} ->
                    {Cardinality({y \in Elements(members) : y < x})}
               [] kind = "drivers"  -> {0}
               [] kind = "consoles" -> {0, 1} \cap 0 .. Len(members)
               [] OTHER             -> {Len(members)}
Free == ~(kind \in Locked /\ call \in {"first", "more"})
\* Bound: the pid of a child that has gone is not used again.
Arrive(x) == /\ changes < MaxChanges /\ ~Is(x) /\ (kind = "children" => x \notin departed)
             /\ Free
             /\ \E k \in Before(x) : members' = SubSeq(members, 1, k) \o <<x>>
                                                  \o SubSeq(members, k + 1, Len(members))
             /\ arrived' = TRUE /\ changes' = changes + 1
             /\ UNCHANGED <<kind, departed, pos, tid, at, call, shown, steady>>
\* The first thread stays until the others have gone.
Depart(x) == /\ changes < MaxChanges /\ Is(x) /\ Free
             /\ kind = "threads" => Index(x) # 1
             /\ members' = SelectSeq(members, LAMBDA y : y # x)
             /\ steady' = steady \ {x}
             /\ departed' = departed \cup {x} /\ changes' = changes + 1
             /\ UNCHANGED <<kind, arrived, pos, tid, at, call, shown>>

-----------------------------------------------------------------------------
\* devinfo_start and int_seq_start: at a place, which may hold nothing or several
\* devices; the last one is of block devices.  Behind the interrupts comes one place
\* for what the architecture adds.
Place(x)  == IF kind = "devices" THEN x \div 2 ELSE x - 1
LastPlace == Place(CHOOSE x \in Numbers : \A y \in Numbers : y <= x)
             + (IF kind = "devices" THEN 0 ELSE 1)
Placeable(n) == IF n <= LastPlace THEN n ELSE NULL
Lines(x)  == IF kind \in Placed THEN SelectSeq(members, LAMBDA y : Place(y) = x) ELSE <<x>>

\* Where a call begins: next_tgid and proc_readfd_common at a number, first_tid at
\* the thread that the last call could not return, or so many threads on,
\* children_seq_start, proc_readdir_de, c_start, nommu_region_list_start and t_start
\* so many on.
FromNumber(n) == Least({x \in Elements(members) : x >= n})
FirstTid      == IF tid # NULL /\ pos # 0 /\ Is(tid) THEN tid ELSE At(pos + 1)
First         == CASE kind \in Keyed -> FromNumber(pos)
                   [] kind = "threads" -> FirstTid
                   [] kind \in Placed -> Placeable(pos)
                   [] OTHER -> At(pos + 1)

\* What comes after the one that was shown, which may have gone: next_tid gives up
\* then, and get_children_pid counts.
NextTid    == IF Is(at) THEN At(Index(at) + 1) ELSE NULL
NextNumber == FromNumber(at + 1)
NextChild  == IF Is(at) THEN At(Index(at) + 1) ELSE At(pos + 2)

\* Of an entry that was erased meanwhile the tree has no successor: it may be any.
Next(x) == \/ kind \in Keyed /\ x = NextNumber
           \/ kind = "threads" /\ x = NextTid
           \/ kind = "children" /\ x = NextChild
           \/ kind \in Placed /\ x = Placeable(at + 1)
           \/ kind \in Locked \cup {"entries"} /\ Is(at) /\ x = At(Index(at) + 1)
           \/ kind = "entries" /\ ~Is(at) /\ x \in Elements(members) \cup {NULL}

Call == /\ call = "none"
        /\ at' = First
        /\ call' = IF at' = NULL THEN "end" ELSE "first"
        /\ tid' = NULL
        /\ pos' = IF kind \in Keyed /\ at' # NULL THEN at' ELSE pos
        /\ UNCHANGED <<listed, shown, steady>>
Show == /\ call \in {"first", "more"}
        /\ shown' = shown \o Lines(at)
        /\ Next(at')
        /\ call' = IF at' = NULL THEN "none" ELSE "more"
        /\ pos' = IF kind \notin Keyed THEN pos + 1 ELSE IF at' = NULL THEN at + 1 ELSE at'
        /\ UNCHANGED <<listed, tid, steady>>
\* The buffer is full: this one is left to the next call.
Full == /\ call = "more"
        /\ call' = "none" /\ at' = NULL
        /\ tid' = IF kind = "threads" THEN at ELSE NULL
        /\ UNCHANGED <<listed, pos, shown, steady>>

ListingNext == \/ \E x \in Numbers : call # "end" /\ (Arrive(x) \/ Depart(x))
               \/ Call \/ Show \/ Full

-----------------------------------------------------------------------------
\* A listing that has come to its end has shown once whatever was there all the
\* time: always, if it goes by numbers or places, and then in order.  If it counts, something
\* may be missing when something else has gone ("we miss N tasks", array.c:641),
\* and an entry, a console, a driver or a region be shown twice when another one came
\* before it.
Times(x) == Cardinality({i \in DOMAIN shown : shown[i] = x})
ListedOnce ==
    /\ \A x \in steady : Times(x) > 1 => \/ kind = "entries" /\ departed # {}
                                         \/ kind \in Locked \cup {"entries"} /\ arrived
    /\ call = "end" /\ ~(departed # {} /\ kind \notin Keyed \cup Placed) => \A x \in steady : Times(x) > 0
    /\ kind \in Keyed \cup Placed => Sorted(shown)
=============================================================================
