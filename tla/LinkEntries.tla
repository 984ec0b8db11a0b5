---------------------------- MODULE LinkEntries ----------------------------
(***************************************************************************)
(* fs/proc, fd.c and base.c: the links in /proc/PID/fd, one for each open  *)
(* file, and in /proc/PID/map_files, one for each range of memory with a   *)
(* file.  Their dentries stay in the dcache while the process opens,       *)
(* closes and maps.  One client looks a link up and uses it, another one   *)
(* lists the directory; neither holds a lock from one step to the next.    *)
(***************************************************************************)
EXTENDS Integers, FiniteSets

CONSTANTS Slots,              \* numbers of files, or ranges of memory
          Files, Writable,    \* open files, and those open for writing
          ANON, NULL,         \* memory without a file, and none
          MaxChanges          \* bound on what the process does

VARIABLES kind,               \* "fd" or "map"
          slots, alive,       \* what the process has where; it has not exited
          dcache,             \* the i_mode of the inode of each entry
          pc, name,           \* of the client: "user", "added", "storing" or "held"
          lister, todo,       \* of the other one: "user", "checking", "filling", "added",
                              \* "storing" or "dropped"; the entries it has still to make
          since, anew, noted, changes, \* history: the modes of what was there since the
                              \* client came, and of what the lister had read by then;
                              \* the slots that changed since their entry was made, and
                              \* since the lister noted their modes
          loaded              \* the modes that the two have read, and store next

process  == <<kind, slots, alive, changes>>
client   == <<pc, name, since>>
listing  == <<lister, todo, noted>>
linkVars == <<process, dcache, client, listing, anew, loaded>>

Mode(f)    == IF f \in Writable THEN "rw" ELSE "r"
Modes(f)   == IF f \in Files THEN {Mode(f)} ELSE {}
HasFile(s) == slots[s] \in Files
\* proc_fd_link and map_files_get_link: where the link leads.
Target(s)  == IF HasFile(s) THEN slots[s] ELSE NULL

LinkInit == /\ kind \in {"fd", "map"} /\ alive = TRUE
            /\ slots \in [Slots -> Files \cup {NULL} \cup {f \in {ANON} : kind = "map"}]
            /\ dcache = [s \in Slots |-> NULL]
            /\ pc = "user" /\ name \in Slots /\ since = {}
            /\ lister = "user" /\ todo = {} /\ anew = {} /\ noted = {} /\ changes = 0
            /\ loaded = [client |-> NULL, lister |-> NULL]

\* open, close, dup2; mmap, munmap.
Change(s, f) ==
    /\ alive /\ changes < MaxChanges /\ slots[s] # f
    /\ slots' = [slots EXCEPT ![s] = f] /\ changes' = changes + 1
    /\ since' = IF pc # "user" /\ s = name THEN since \cup Modes(f) ELSE since
    /\ anew' = anew \cup {s} /\ noted' = noted \cup {s}
    /\ UNCHANGED <<kind, alive, dcache, pc, name, lister, todo, loaded>>
Exit == /\ alive /\ alive' = FALSE /\ slots' = [s \in Slots |-> NULL]
        /\ anew' = Slots /\ noted' = Slots
        /\ UNCHANGED <<kind, changes, dcache, client, lister, todo, loaded>>
First(e)  == e \in todo /\ \A x \in todo : e[1] <= x[1]
\* The lister has the dentry that is in the dcache.
Filling(s) == lister \in {"added", "storing"} /\ \E e \in todo : First(e) /\ e[1] = s
\* A dentry that nobody has goes.
Evict(s) == /\ dcache[s] # NULL /\ (pc # "user" => name # s) /\ ~Filling(s)
            /\ dcache' = [dcache EXCEPT ![s] = NULL]
            /\ UNCHANGED <<process, client, listing, anew, loaded>>

-----------------------------------------------------------------------------
\* tid_fd_revalidate, which brings the mode up to date, and map_files_d_revalidate,
\* which does not, and takes a range without a file, too.  The former reads f_mode under
\* RCU and stores i_mode after that, when the number may belong to another file and
\* somebody else may have stored the mode of that one.
Valid(s)   == IF kind = "fd" THEN HasFile(s) ELSE slots[s] # NULL
Load(r, s) == loaded' = [loaded EXCEPT ![r] = Mode(slots[s])]
Store(r, s) == /\ dcache' = [dcache EXCEPT ![s] = loaded[r]]
               /\ loaded' = [loaded EXCEPT ![r] = NULL]

Come(s, to) == /\ pc = "user" /\ pc' = to /\ name' = s
               /\ since' = Modes(slots[s]) \cup
                           {m \in {loaded.lister} \ {NULL} : lister = "storing" /\ Filling(s)}
Cached(s) == /\ dcache[s] # NULL /\ Valid(s)
             /\ IF kind = "fd" THEN Come(s, "storing") /\ Load("client", s)
                ELSE Come(s, "held") /\ UNCHANGED loaded
             /\ UNCHANGED <<process, dcache, listing, anew>>
\* A dentry that is dropped is still the lister's if it had it, but no longer seen.
Drop(s)   == /\ dcache[s] # NULL /\ ~Valid(s) /\ pc = "user"
             /\ dcache' = [dcache EXCEPT ![s] = NULL]
             /\ lister' = IF Filling(s) THEN "dropped" ELSE lister
             /\ loaded' = IF Filling(s) THEN [loaded EXCEPT !.lister = NULL] ELSE loaded
             /\ UNCHANGED <<process, client, todo, noted, anew>>
\* proc_lookupfd_common and proc_fd_instantiate: an inode without permissions, whether
\* the file is open or not, and then the revalidation ...
LookupFd(s) == /\ kind = "fd" /\ alive /\ dcache[s] = NULL
               /\ Come(s, "added")
               /\ dcache' = [dcache EXCEPT ![s] = "none"]
               /\ UNCHANGED <<process, listing, anew, loaded>>
Added == /\ pc = "added"
         /\ IF Valid(name) THEN pc' = "storing" /\ Load("client", name)
            ELSE pc' = "user" /\ UNCHANGED loaded
         /\ UNCHANGED <<process, dcache, name, since, listing, anew>>
StoreMode == /\ pc = "storing" /\ pc' = "held"
             /\ Store("client", name)
             /\ UNCHANGED <<process, name, since, listing, anew>>
\* ... proc_map_files_lookup: under mmap_sem.
LookupMap(s) == /\ kind = "map" /\ HasFile(s) /\ dcache[s] = NULL
                /\ Come(s, "held")
                /\ dcache' = [dcache EXCEPT ![s] = Mode(slots[s])]
                /\ anew' = anew \ {s}
                /\ UNCHANGED <<process, listing, loaded>>
Leave == /\ pc = "held" /\ pc' = "user"
         /\ UNCHANGED <<process, dcache, name, since, listing, anew, loaded>>

-----------------------------------------------------------------------------
\* proc_map_files_readdir notes ranges and modes under mmap_sem, and makes the entries
\* without it; proc_readfd_common looks at one number after another.
Begin == /\ lister = "user" /\ alive
         /\ lister' = IF kind = "fd" THEN "checking" ELSE "filling"
         /\ todo' = IF kind = "fd" THEN Slots \X {"none"}
                    ELSE {<<s, Mode(slots[s])>> : s \in {t \in Slots : HasFile(t)}}
         /\ noted' = {}
         /\ UNCHANGED <<process, dcache, client, anew, loaded>>
Check(e)   == /\ lister = "checking" /\ First(e)
              /\ IF HasFile(e[1]) THEN lister' = "filling" /\ UNCHANGED todo
                 ELSE todo' = todo \ {e} /\ UNCHANGED lister
              /\ UNCHANGED <<process, dcache, client, noted, anew, loaded>>
\* proc_fill_cache: what is in the dcache is listed as it is.
Next(e)    == /\ lister' = IF kind = "fd" THEN "checking" ELSE "filling"
              /\ todo' = todo \ {e}
Fill(e)    == /\ lister = "filling" /\ First(e)
              /\ \/ dcache[e[1]] # NULL /\ Next(e) /\ UNCHANGED <<dcache, anew>>
                 \/ /\ dcache[e[1]] = NULL
                    /\ dcache' = [dcache EXCEPT ![e[1]] = e[2]]
                    /\ anew' = IF e[1] \in noted THEN anew \cup {e[1]} ELSE anew \ {e[1]}
                    /\ IF kind = "map" THEN Next(e) ELSE lister' = "added" /\ UNCHANGED todo
              /\ UNCHANGED <<process, client, noted, loaded>>
Filled(e)  == /\ lister = "added" /\ First(e)
              /\ IF Valid(e[1]) THEN lister' = "storing" /\ Load("lister", e[1]) /\ UNCHANGED todo
                 ELSE Next(e) /\ UNCHANGED loaded
              /\ UNCHANGED <<process, dcache, client, noted, anew>>
FilledMode(e) == /\ lister = "storing" /\ First(e) /\ Next(e)
                 /\ Store("lister", e[1])
                 /\ UNCHANGED <<process, client, noted, anew>>
Dropped(e) == /\ lister = "dropped" /\ First(e) /\ Next(e)
              /\ UNCHANGED <<process, dcache, client, noted, anew, loaded>>
Listed     == /\ lister \in {"checking", "filling"} /\ todo = {} /\ lister' = "user"
              /\ UNCHANGED <<process, dcache, client, todo, noted, anew, loaded>>

LinkNext == \/ \E s \in Slots : \/ \E f \in Files \cup {NULL} : Change(s, f)
                                \/ kind = "map" /\ Change(s, ANON)
                                \/ Evict(s) \/ Cached(s) \/ Drop(s)
                                \/ LookupFd(s) \/ LookupMap(s)
            \/ Exit \/ Added \/ StoreMode \/ Leave \/ Begin \/ Listed
            \/ \E e \in todo : \/ Check(e) \/ Fill(e)
                               \/ Filled(e) \/ FilledMode(e) \/ Dropped(e)

-----------------------------------------------------------------------------
\* Whatever is in the dcache, a link in fd that a client has has the permissions of a
\* file that was open under its number since the client came, or that somebody else had
\* found there before and stores late: it is never one without, and never older than
\* that.  One in map_files has those of the file that it leads to, unless its range was
\* mapped anew since they were noted: they are never brought up to date.
LinksRight ==
    pc = "held" =>
        IF kind = "fd" THEN dcache[name] \in since
        ELSE name \notin anew => Target(name) # NULL /\ dcache[name] = Mode(Target(name))
=============================================================================
