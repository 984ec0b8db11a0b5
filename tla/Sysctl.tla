------------------------------- MODULE Sysctl -------------------------------
(***************************************************************************)
(* fs/proc, proc_sysctl.c: tables of sysctls that come and go, and the     *)
(* processes that walk, list and use the files below /proc/sys.            *)
(*                                                                         *)
(* A table is known by a header; the headers in a directory stand in its   *)
(* tree by the names of their entries.  Namespaces have trees ("sets") of  *)
(* their own, and links to them in the core tree.  Every client registers  *)
(* one table, in a directory of one name.  A client's work is a sequence   *)
(* of steps, which it does under sysctl_lock except where the code gives   *)
(* the lock up: to allocate, and to wait until nobody uses a header.       *)
(*                                                                         *)
(* A process sees the core tables and those of its own namespace, to which *)
(* links in the core tree lead.  The dentry cache is shared: a dentry is   *)
(* <<directory, name, header>>, and its inode holds a count of the header. *)
(*                                                                         *)
(* The model stops when the code has used a null or an error for a         *)
(* pointer, goes on with a header that was erased, or has spoiled the tree *)
(* of a directory: oops.                                                   *)
(***************************************************************************)
EXTENDS Integers, FiniteSets, Sequences

CONSTANTS Clients, Sets,    \* Sets: "core" and the namespaces
          SetOf, DirOf, FilesOf,    \* of each client's table; without files it is
                            \* sysctl_mount_point, and its directory stays empty
          NIL

VARIABLES hd,               \* the headers, each of them memory of its own
          lock,             \* who has sysctl_lock
          at,               \* the directory that a registration has a reference to
          work,             \* what each client has left to do
          in,               \* the clients whose table is registered
          oops,             \* what has gone wrong, or NIL
          revived           \* history: a registration took, or linked to, what was
                            \* dying, or had no reference left

tables == <<hd, lock, at, work, in, oops, revived>>

Kinds     == {"dir", "file", "dirlink", "filelink"}
SetDir(s) == <<s, "set">>
Headers   == {SetDir(s) : s \in Sets} \cup Clients \X Kinds

Nobody    == "nobody"

\* Each client has a set, a directory and finitely many files; NIL is no client and no
\* header, nor the name of anything else.
SysctlBounds ==
    /\ "core" \in Sets
    /\ NIL \notin Clients \cup Headers \cup {"null", "spoiled", "errptr", "gone", Nobody}
    /\ SetOf \in [Clients -> Sets] /\ DirOf \in [Clients -> Nat]
    /\ FilesOf \in [Clients -> SUBSET Nat] /\ \A c \in Clients : IsFiniteSet(FilesOf[c])
ASSUME SysctlAssumption == SysctlBounds

IsDir(h)  == h[2] \in {"set", "dir"}
IsLink(h) == h[2] \in {"dirlink", "filelink"}
Set(h)    == IF h[2] = "set" THEN h[1] ELSE IF IsLink(h) THEN "core" ELSE SetOf[h[1]]
LinkOf(h) == IF h[2] = "dir" THEN <<h[1], "dirlink">> ELSE <<h[1], "filelink">>
Names(h)  == IF h[2] = "set" THEN {}
             ELSE IF h[2] \in {"dir", "dirlink"} THEN {DirOf[h[1]]} ELSE FilesOf[h[1]]

\* live: until it is erased; its memory is freed with the last count.  dying:
\* unregistering, which is who waits for its users, or Nobody.  sealed: a directory
\* that is to stay empty.
Free     == [live |-> FALSE, parent |-> NIL, nreg |-> 0, used |-> 0, count |-> 0,
             dying |-> NIL, tree |-> {}, sealed |-> FALSE]
Fresh(n) == [Free EXCEPT !.live = TRUE, !.nreg = n, !.count = 1]

TablesInit == /\ hd = [h \in Headers |-> IF h[2] = "set" THEN Fresh(1) ELSE Free]
              /\ lock = NIL
              /\ at = [c \in Clients |-> NIL] /\ work = [c \in Clients |-> <<>>]
              /\ in = {} /\ oops = NIL
              /\ revived = FALSE

\* find_entry: the header of the entry of this name in a directory.
Find(d, n) == IF \E e \in hd[d].tree : e[1] = n
              THEN (CHOOSE e \in hd[d].tree : e[1] = n)[2] ELSE NIL
\* xlate_dir: the directory of the same path in another set, unless there is none.
XlateDir(s, d) == IF hd[d].parent = NIL THEN SetDir(s)
                  ELSE LET h == Find(SetDir(s), DirOf[d[1]])
                       IN  IF h # NIL /\ IsDir(h) THEN h ELSE NIL

-----------------------------------------------------------------------------
About(c, op) == work[c] # <<>> /\ Head(work[c])[1] = op /\ lock \in {NIL, c}
Arg(c)       == Head(work[c])[2]
Op(op)       == <<op, NIL>>
PutHeader(h) == <<"drop", h>>

\* Go on with these steps before, or instead of, the others; with or without the lock.
First(c, ops) == work' = [work EXCEPT ![c] = ops \o Tail(@)]
Fail(c, ops)  == work' = [work EXCEPT ![c] = ops \o <<Op("unlock"), Op("fail")>>]
Locked(c)     == lock' = c
Unlocked      == lock' = NIL
Revive(hs)    == revived' = (revived \/ \E h \in hs : hd[h].dying # NIL \/ hd[h].nreg <= 0)

\* __register_sysctl_table.
RegisterTable(c) ==
    LET h == <<c, "file">>  root == SetDir(SetOf[c]) IN
    /\ c \notin in /\ work[c] = <<>> /\ lock = NIL
    /\ \A k \in Kinds : hd[<<c, k>>].count = 0      \* bound: what it had is freed
    /\ hd' = [hd EXCEPT ![h] = Fresh(1), ![root].nreg = @ + 1]
    /\ at' = [at EXCEPT ![c] = root]
    /\ work' = [work EXCEPT ![c] = <<Op("walk"), <<"insert", h>>, Op("in")>>]
    /\ UNCHANGED <<lock, in, oops, revived>>

\* get_subdir finds the directory, and moves the reference to it.  Mutant: it takes
\* none.
FoundUnheld(c, d, ops) ==
    /\ UNCHANGED hd
    /\ at' = [at EXCEPT ![c] = d]
    /\ First(c, <<PutHeader(at[c])>> \o ops \o <<Op("unlock")>>)
    /\ Revive({d})
    /\ Locked(c)
Found(c, d, ops) ==
    /\ hd' = [hd EXCEPT ![d].nreg = @ + 1]
    /\ at' = [at EXCEPT ![c] = d]
    /\ First(c, <<PutHeader(at[c])>> \o ops \o <<Op("unlock")>>)
    /\ Revive({d})
    /\ Locked(c)
Walk(c) ==
    LET d == Find(at[c], DirOf[c]) IN
    /\ About(c, "walk")
    /\ \/ /\ d = NIL
          /\ First(c, <<Op("make")>>)
          /\ Unlocked /\ UNCHANGED <<hd, at, revived>>
       \/ d # NIL /\ IsDir(d) /\ Found(c, d, <<>>)
       \/ /\ d # NIL /\ ~IsDir(d)
          /\ Fail(c, <<PutHeader(at[c])>>)
          /\ Locked(c) /\ UNCHANGED <<hd, at, revived>>
    /\ UNCHANGED <<in, oops>>

\* It finds none, and allocates one, ...
Allocate(c) == /\ About(c, "make") /\ lock = NIL
               /\ \/ /\ hd' = [hd EXCEPT ![<<c, "dir">>] = Fresh(1)]
                     /\ First(c, <<Op("look")>>)
                  \/ Fail(c, <<PutHeader(at[c])>>) /\ UNCHANGED hd
               /\ UNCHANGED <<lock, at, in, oops, revived>>
\* ... which may have been added meanwhile.
Look(c) ==
    LET d == Find(at[c], DirOf[c])  new == <<c, "dir">> IN
    /\ About(c, "look")
    /\ \/ /\ d = NIL
          /\ First(c, <<<<"insert", new>>, Op("take")>>)
          /\ Locked(c) /\ UNCHANGED <<hd, at, revived>>
       \/ d # NIL /\ IsDir(d) /\ Found(c, d, <<PutHeader(new)>>)
       \/ /\ d # NIL /\ ~IsDir(d)
          /\ Fail(c, <<PutHeader(at[c]), PutHeader(new)>>)
          /\ Locked(c) /\ UNCHANGED <<hd, at, revived>>
    /\ UNCHANGED <<in, oops>>
Take(c) == LET new == <<c, "dir">> IN
           /\ About(c, "take") /\ Found(c, new, <<PutHeader(new)>>)
           /\ UNCHANGED <<in, oops>>

-----------------------------------------------------------------------------
\* What its caller does when the insertion of a header has failed, and had, or had
\* not, got as far as a reference to the directory.
InsertFails(c, h, d, ops) ==
    Fail(c, ops \o <<PutHeader(d)>> \o IF h[2] = "dir" THEN <<PutHeader(h)>> ELSE <<>>)

\* get_links: all the entries have a link, or a directory, in the core tree already;
\* then it takes a reference to each.  Mutant: it takes none.
HasLinks(cp, h) == \A n \in Names(h) : LET l == Find(cp, n) IN
                        l # NIL /\ IF IsDir(l) THEN IsDir(h) ELSE IsLink(l)
Linked(cp, h)   == {Find(cp, n) : n \in Names(h)}
GetNoLinks(new, cp, h) == new
GetLinks(new, cp, h) ==
    [l \in Headers |-> LET k == Cardinality({n \in Names(h) : Find(cp, n) = l})
                       IN  [new[l] EXCEPT !.nreg = @ + k]]

\* insert_header: a directory that is to stay empty takes nothing, and only an
\* empty one can become it.  Entries in a namespace need links.
InsertHeader(c) ==
    LET h  == Arg(c)  d == at[c]  core == SetDir("core")
        cp == IF Set(h) = "core" THEN NIL ELSE XlateDir("core", d)
        mount == Names(h) = {}
        new == [hd EXCEPT ![h].parent = d, ![d].nreg = @ + 1, ![d].sealed = @ \/ mount]
    IN  /\ About(c, "insert")
        /\ \/ /\ hd[d].sealed \/ (mount /\ hd[d].tree # {})
              /\ InsertFails(c, h, d, <<>>)
              /\ Locked(c) /\ UNCHANGED <<hd, revived>>
           \/ /\ ~hd[d].sealed /\ ~(mount /\ hd[d].tree # {})
              /\ IF cp = NIL \/ HasLinks(cp, h)
                 THEN /\ hd' = IF cp = NIL THEN new ELSE GetLinks(new, cp, h)
                      /\ Revive(IF cp = NIL THEN {} ELSE Linked(cp, h))
                      /\ First(c, <<<<"entries", h>>>>) /\ Locked(c)
                 ELSE /\ hd' = [new EXCEPT ![cp].nreg = @ + 1]
                      /\ Revive({cp})
                      /\ First(c, <<<<"links", h, cp>>>>) /\ Unlocked
        /\ UNCHANGED <<at, in, oops>>

\* The links are made without the lock, and inserted as a header of their own, if
\* nobody else has, and nothing else has one of the names.
LinksFail(c, h, cp) ==
    /\ InsertFails(c, h, at[c], <<PutHeader(cp), PutHeader(at[c])>>)
    /\ hd' = [hd EXCEPT ![h].parent = NIL]
Links(c) ==
    LET h == Arg(c)  cp == Head(work[c])[3]  l == LinkOf(h)
        linked == HasLinks(cp, h)
        taken  == \E n \in Names(h) : Find(cp, n) # NIL
    IN  /\ About(c, "links")
        /\ \/ LinksFail(c, h, cp) /\ UNCHANGED <<oops, revived>>
           \/ /\ linked
              /\ hd' = GetLinks(hd, cp, h)
              /\ First(c, <<PutHeader(cp), <<"entries", h>>>>)
              /\ Revive(Linked(cp, h))
              /\ UNCHANGED oops
           \/ /\ ~linked /\ ~hd[cp].sealed /\ ~taken
              /\ hd' = [hd EXCEPT ![l] = [Fresh(Cardinality(Names(h))) EXCEPT !.parent = cp],
                                  ![cp].nreg = @ + 1, ![cp].tree = @ \cup (Names(h) \X {l})]
              /\ First(c, <<PutHeader(cp), <<"entries", h>>>>)
              /\ UNCHANGED <<oops, revived>>
           \/ ~linked /\ hd[cp].sealed /\ LinksFail(c, h, cp) /\ UNCHANGED <<oops, revived>>
           \/ /\ ~linked /\ ~hd[cp].sealed /\ taken
              /\ oops' = "spoiled"
              /\ UNCHANGED <<hd, work, revived>>
        /\ Locked(c)
        /\ UNCHANGED <<at, in>>

\* insert_entry for each entry.  If one is there already, all are erased, those
\* not inserted too, and rb_erase of such a one makes the tree empty.
Entries(c) ==
    LET h == Arg(c)  d == hd[h].parent IN
    /\ About(c, "entries")
    /\ \/ /\ \A n \in Names(h) : Find(d, n) = NIL
          /\ hd' = [hd EXCEPT ![d].tree = @ \cup (Names(h) \X {h})]
          /\ First(c, <<>>) /\ UNCHANGED oops
       \/ /\ \E n \in Names(h) : Find(d, n) # NIL
          /\ oops' = "spoiled" /\ UNCHANGED <<hd, work>>
    /\ Locked(c) /\ UNCHANGED <<at, in, revived>>

-----------------------------------------------------------------------------
\* drop_sysctl_table.  Without a parent (a new directory that is not needed, or
\* was not inserted) there is no tree to erase its entry from.
DropTable(c) ==
    LET h == Arg(c)  last == hd[h].nreg = 1 IN
    /\ About(c, "drop")
    /\ hd' = [hd EXCEPT ![h].nreg = @ - 1]
    /\ First(c, IF last THEN <<<<"putlinks", h>>, <<"unregister", h>>, PutHeader(hd[h].parent)>>
                ELSE <<>>)
    /\ oops' = IF last /\ hd[h].parent = NIL THEN "null" ELSE NIL
    /\ Locked(c) /\ UNCHANGED <<at, in, revived>>

\* put_links drops the link, or the directory, of each entry.
PutEach(h, cp, names) ==
    IF cp = NIL \/ names = {} THEN <<>> ELSE <<<<"putlink", h, cp, names>>>>
PutLinks(c) ==
    LET h  == Arg(c)
        cp == IF Set(h) = "core" THEN NIL ELSE XlateDir("core", hd[h].parent)
    IN  /\ About(c, "putlinks")
        /\ First(c, PutEach(h, cp, Names(h)))
        /\ UNCHANGED <<hd, lock, at, in, oops, revived>>
PutLink(c) ==
    LET op == Head(work[c]) IN
    /\ About(c, "putlink")
    /\ \E n \in op[4] :
          /\ \A m \in op[4] : n <= m
          /\ LET l == Find(op[3], n)
             IN  First(c, (IF l # NIL /\ (IF IsDir(l) THEN IsDir(op[2]) ELSE IsLink(l))
                           THEN <<PutHeader(l)>> ELSE <<>>) \o PutEach(op[2], op[3], op[4] \ {n}))
    /\ UNCHANGED <<hd, lock, at, in, oops, revived>>

\* start_unregistering: nobody can begin to use the header from now on, and those
\* who do are waited for, without the lock; then erase_header, and one count less.
Uncount(heads, h) == [heads EXCEPT ![h] = IF heads[h].count = 1 THEN Free
                                          ELSE [heads[h] EXCEPT !.count = @ - 1]]
Erased(h) == LET p == hd[h].parent
             IN  Uncount([hd EXCEPT ![p].tree = @ \ (Names(h) \X {h}),
                                    ![h].live = FALSE, ![h].dying = Nobody], h)
Erase(c)  == /\ About(c, "erase")
             /\ hd' = Erased(Arg(c)) /\ First(c, <<>>) /\ Locked(c)
             /\ UNCHANGED <<at, in, oops, revived>>
\* Mutant: they are not.
BeginErasing(c, h) == hd' = Erased(h) /\ First(c, <<>>) /\ Locked(c)
Begin(c, h) == \/ hd[h].used = 0 /\ hd' = Erased(h) /\ First(c, <<>>) /\ Locked(c)
               \/ /\ hd[h].used # 0
                  /\ hd' = [hd EXCEPT ![h].dying = c]
                  /\ First(c, <<<<"wait", h>>>>) /\ Unlocked
Unregistering(c) == About(c, "unregister") /\ Begin(c, Arg(c)) /\ UNCHANGED <<at, in, oops, revived>>

Unlock(c) == /\ About(c, "unlock") /\ Unlocked /\ First(c, <<>>)
             /\ UNCHANGED <<hd, at, in, oops, revived>>
ReturnError(c) == /\ About(c, "fail")
                  /\ hd' = [hd EXCEPT ![<<c, "file">>] = Free]
                  /\ at' = [at EXCEPT ![c] = NIL]
                  /\ First(c, <<>>)
                  /\ UNCHANGED <<lock, in, oops, revived>>
Succeed(c) == /\ About(c, "in")
              /\ in' = in \cup {c} /\ at' = [at EXCEPT ![c] = NIL]
              /\ First(c, <<PutHeader(at[c]), Op("unlock")>>)
              /\ Locked(c) /\ UNCHANGED <<hd, oops, revived>>

UnregisterTable(c) == /\ c \in in /\ work[c] = <<>> /\ lock = NIL
                      /\ in' = in \ {c}
                      /\ work' = [work EXCEPT ![c] = <<PutHeader(<<c, "file">>), Op("unlock")>>]
                      /\ UNCHANGED <<hd, lock, at, oops, revived>>

\* Before a step that uses a header that was erased the model stops.
Used(c) ==
    LET op == Head(work[c])  h == op[2] IN
    {h} \cup (IF Len(op) >= 3 THEN {op[3]} ELSE {})
        \cup (IF op[1] \in {"walk", "look", "insert"} THEN {at[c]} ELSE {})
        \cup (IF op[1] \in {"links", "entries", "putlinks", "unregister", "erase"} /\ hd[h].live
              THEN {hd[h].parent} ELSE {})
Dangling(c) == \E h \in Used(c) \ {NIL} : ~hd[h].live
Crash(c) == /\ lock \in {NIL, c} /\ oops' = "gone"
            /\ UNCHANGED <<hd, lock, at, work, in, revived>>

WorkStep(c) == IF work[c] # <<>> /\ Head(work[c])[1] # "wait" /\ Dangling(c) THEN Crash(c)
               ELSE \/ Walk(c) \/ Allocate(c) \/ Look(c) \/ Take(c)
                    \/ InsertHeader(c) \/ Links(c) \/ Entries(c)
                    \/ DropTable(c) \/ PutLinks(c) \/ PutLink(c) \/ Unregistering(c) \/ Erase(c)
                    \/ Unlock(c) \/ ReturnError(c) \/ Succeed(c)
Client(c) == RegisterTable(c) \/ UnregisterTable(c) \/ WorkStep(c)

-----------------------------------------------------------------------------
\* The processes.
CONSTANT Processes

VARIABLES ns,               \* the namespace of each process
          cur,              \* the inode (its header) that it has got to
          place,
          holds,            \* the headers that it uses, one after the other
          name,             \* the entry that it looks up, or has got to
          dcache

users == <<ns, cur, place, holds, name, dcache>>
sysctlVars  == <<tables, users>>

core == SetDir("core")

SysctlInit == /\ TablesInit
              /\ ns \in [Processes -> Sets \ {"core"}]
              /\ cur = [u \in Processes |-> core] /\ place = [u \in Processes |-> "idle"]
              /\ holds = [u \in Processes |-> <<>>] /\ name = [u \in Processes |-> 0]
              /\ dcache = {}

-----------------------------------------------------------------------------
Occurs(h, s) == Cardinality({i \in DOMAIN s : s[i] = h})
EntriesOf(d) == {e[1] : e \in hd[d].tree}
MoveTo(u, l)   == place' = [place EXCEPT ![u] = l]

\* use_table and unuse_table, for all the headers that a process comes to use and
\* ceases to use in one step.  The last one to leave wakes who waits.
\* Mutant: it does not.
UseSilently(u, heads, new) ==
    /\ lock = NIL
    /\ holds' = [holds EXCEPT ![u] = new]
    /\ hd' = [h \in Headers |-> [heads[h] EXCEPT
                                   !.used = @ + Occurs(h, new) - Occurs(h, holds[u])]]
    /\ UNCHANGED work
UseHeaders(u, heads, new) ==
           LET woken(c) == /\ work[c] # <<>> /\ Head(work[c])[1] = "wait"
                           /\ hd[Arg(c)].dying = c
                           /\ hd[Arg(c)].used > 0 /\ hd'[Arg(c)].used = 0
    IN  /\ lock = NIL
        /\ holds' = [holds EXCEPT ![u] = new]
        /\ hd' = [h \in Headers |-> [heads[h] EXCEPT
                                       !.used = @ + Occurs(h, new) - Occurs(h, holds[u])]]
        /\ work' = [c \in Clients |-> IF woken(c) THEN <<<<"erase", Arg(c)>>>> \o Tail(work[c])
                                      ELSE work[c]]
Usable(h) == hd[h].dying = NIL

\* A dentry that leads on: proc_sys_compare and proc_sys_revalidate.
IsSeen(u, h) == Usable(h) /\ Set(h) \in {"core", ns[u]}
Visit(u) == /\ place[u] = "idle" /\ lock = NIL
            /\ \E d \in dcache : d[1] = cur[u] /\ IsSeen(u, d[3])
                                 /\ cur' = [cur EXCEPT ![u] = d[3]]
            /\ UNCHANGED <<tables, ns, place, holds, name, dcache>>
\* Back to /proc/sys, in which another process begins.
Home(u)  == /\ place[u] = "idle" /\ cur[u] # core /\ lock = NIL
            /\ cur' = [cur EXCEPT ![u] = core]
            /\ \E s \in Sets \ {"core"} : ns' = [ns EXCEPT ![u] = s]
            /\ UNCHANGED <<tables, place, holds, name, dcache>>

\* The inode of a dentry that nobody has is evicted.
Prune == /\ lock = NIL
         /\ \E d \in dcache :
               /\ \A u \in Processes : cur[u] # d[3]
               /\ \A e \in dcache : e[1] # d[3]
               /\ dcache' = dcache \ {d}
               /\ hd' = Uncount(hd, d[3])
         /\ UNCHANGED <<lock, at, work, in, oops, revived, ns, cur, place, holds, name>>

-----------------------------------------------------------------------------
\* grab_header: an inode whose header is going away is of no use any more.  A file
\* is opened, read, written or polled; a directory is listed or looked up in.
NotUser == <<lock, at, in, revived>>
Cached(u, n) == \E d \in dcache : d[1] = cur[u] /\ d[2] = n /\ IsSeen(u, d[3])
Grab(u) == /\ place[u] = "idle" /\ Usable(cur[u])
           /\ UseHeaders(u, hd, <<cur[u]>>)
           /\ \/ ~IsDir(cur[u]) /\ MoveTo(u, "handler") /\ UNCHANGED name
              \/ IsDir(cur[u]) /\ MoveTo(u, "list") /\ name' = [name EXCEPT ![u] = 0]
              \/ /\ IsDir(cur[u]) /\ MoveTo(u, "lookup")
                 /\ \E n \in EntriesOf(cur[u]) : ~Cached(u, n) /\ name' = [name EXCEPT ![u] = n]
           /\ UNCHANGED <<NotUser, oops, ns, cur, dcache>>
FinishUse(u)  == UseHeaders(u, hd, <<>>) /\ MoveTo(u, "idle")
Handled(u) == /\ place[u] = "handler" /\ FinishUse(u)
              /\ UNCHANGED <<NotUser, oops, ns, cur, name, dcache>>

\* lookup_entry.
LookupEntry(u) ==
    LET h == Find(cur[u], name[u]) IN
    /\ place[u] = "lookup"
    /\ \/ /\ h # NIL /\ Usable(h)
          /\ UseHeaders(u, hd, <<cur[u], h>>)
          /\ MoveTo(u, IF IsLink(h) THEN "follow" ELSE "make")
       \/ ~(h # NIL /\ Usable(h)) /\ FinishUse(u)
    /\ UNCHANGED <<NotUser, oops, ns, cur, name, dcache>>

\* first_entry and next_entry: the next one, by name, that can be used.
List(u) ==
    LET later == {e \in hd[cur[u]].tree : e[1] > name[u] /\ Usable(e[2])} IN
    /\ place[u] = "list"
    /\ \/ \E e \in later : /\ \A x \in later : x[1] >= e[1]
                           /\ UseHeaders(u, hd, <<cur[u], e[2]>>)
                           /\ name' = [name EXCEPT ![u] = e[1]]
                           /\ MoveTo(u, IF IsLink(e[2]) THEN "link" ELSE "makelisted")
       \/ later = {} /\ FinishUse(u) /\ UNCHANGED name
    /\ UNCHANGED <<NotUser, oops, ns, cur, dcache>>
\* proc_sys_link_fill_cache uses the link once more.  If that is refused it goes on
\* with an error for a pointer.
GrabLink(u) ==
    LET l == holds[u][2] IN
    /\ place[u] = "link"
    /\ \/ Usable(l) /\ UseHeaders(u, hd, Append(holds[u], l)) /\ MoveTo(u, "followlisted")
          /\ UNCHANGED oops
       \/ ~Usable(l) /\ lock = NIL /\ oops' = "errptr" /\ UNCHANGED <<hd, work, holds, place>>
    /\ UNCHANGED <<NotUser, ns, cur, name, dcache>>

\* sysctl_follow_link: on to the entry of this name in the process's namespace.
\* Mutant: in any.
AnyTarget(u, l) == LET d == XlateDir(CHOOSE s \in Sets : s # "core", hd[l].parent)
                   IN  IF d = NIL THEN NIL ELSE Find(d, name[u])
Target(u, l) == LET d == XlateDir(ns[u], hd[l].parent)
                IN  IF d = NIL THEN NIL ELSE Find(d, name[u])
Follow(u) ==
    LET k == Len(holds[u])  h == Target(u, holds[u][k]) IN
    /\ \/ /\ place[u] \in {"follow", "followlisted"} /\ h # NIL /\ Usable(h)
          /\ UseHeaders(u, hd, [holds[u] EXCEPT ![k] = h])
          /\ MoveTo(u, IF place[u] = "follow" THEN "make" ELSE "makelisted")
       \/ place[u] = "follow" /\ ~(h # NIL /\ Usable(h)) /\ FinishUse(u)
       \/ /\ place[u] = "followlisted" /\ ~(h # NIL /\ Usable(h))
          /\ UseHeaders(u, hd, SubSeq(holds[u], 1, 2)) /\ MoveTo(u, "list")
    /\ UNCHANGED <<NotUser, oops, ns, cur, name, dcache>>

\* proc_sys_make_inode, which takes a count, and d_add, unless there is a dentry by
\* now; all that was used is left.  Without memory a lookup fails, and a listing
\* ends.
MakeInode(u, d) ==
    LET rest == IF place[u] = "make" THEN <<>> ELSE SubSeq(holds[u], 1, 2) IN
    IF d \in dcache THEN UseHeaders(u, hd, rest) /\ UNCHANGED dcache
    ELSE /\ UseHeaders(u, [hd EXCEPT ![d[3]].count = @ + 1], rest)
         /\ dcache' = dcache \cup {d}
Make(u) ==
    LET d == <<cur[u], name[u], holds[u][Len(holds[u])]>> IN
    /\ place[u] \in {"make", "makelisted"}
    /\ \/ /\ MakeInode(u, d)
          /\ \/ place[u] = "make" /\ MoveTo(u, "idle") /\ cur' = [cur EXCEPT ![u] = d[3]]
             \/ place[u] = "makelisted" /\ MoveTo(u, "list") /\ UNCHANGED cur
       \/ FinishUse(u) /\ UNCHANGED <<cur, dcache>>
    /\ UNCHANGED <<NotUser, oops, ns, name>>

-----------------------------------------------------------------------------
InKernel(u) == \/ Handled(u) \/ LookupEntry(u) \/ List(u) \/ GrabLink(u) \/ Follow(u) \/ Make(u)
Process(u)     == Visit(u) \/ Home(u) \/ Grab(u) \/ InKernel(u)

SysctlNext == /\ oops = NIL
              /\ \/ \E c \in Clients : Client(c) /\ UNCHANGED users
                 \/ \E u \in Processes : Process(u)
                 \/ Prune
SysctlSpec == SysctlInit /\ [][SysctlNext]_sysctlVars

-----------------------------------------------------------------------------
\* Who waits for the users of a header will be woken: there is one, and nobody else
\* waits in its place.
NoLostWakeup ==
    \A c \in Clients : work[c] # <<>> /\ Head(work[c])[1] = "wait" /\ ~revived =>
        hd[Arg(c)].dying = c /\ hd[Arg(c)].used > 0

Attached(h) == hd[h].live /\ hd[h].parent # NIL /\
               \A n \in Names(h) : Find(hd[h].parent, n) = h
InTree(h)   == \E d \in Headers : \E e \in hd[d].tree : e[2] = h

\* The uses of a header are those of the processes, and its count those of the
\* dentries and one until it is erased: what a dentry or a tree has is not freed
\* (unless a registration took what was on its way out, see ReferenceKeeps).
UsesCounted == ~revived =>
    /\ NoLostWakeup
    /\ \A h \in Headers :
          LET cached == Cardinality({d \in dcache : d[3] = h}) IN
          /\ hd[h].used = Cardinality({x \in Processes \X (1 .. 3) :
                                         x[2] <= Len(holds[x[1]]) /\ holds[x[1]][x[2]] = h})
          /\ hd[h].count = cached + IF hd[h].live THEN 1 ELSE 0
          /\ InTree(h) => Attached(h)
          /\ \A u \in Processes : cur[u] = h => hd[h].count > 0

\* "At this point we know that the sysctl was not unregistered and won't be until we
\* finish" (proc_sysctl.c:548): what a process uses stays registered, a directory
\* that it looks up or lists in as well as a file.
StaysRegistered == ~revived =>
    \A u \in Processes : \A i \in DOMAIN holds[u] :
        holds[u][i][2] # "set" => Attached(holds[u][i])

\* Whatever is in the cache, a process gets only to what its namespace has.
OwnNamespace == \A u \in Processes : Set(cur[u]) \in {"core", ns[u]}

\* When no registration is under way, and none has taken a dying directory, every
\* registered table is found under its name, in its own tree and through a link in
\* the core tree, and nothing is left of what was unregistered; each header has
\* the references of what is in it and of what is linked to it.
AllNames    == UNION {Names(h) : h \in Headers}
LinkRefs(l) == {x \in Headers \X AllNames :
                   /\ Attached(x[1]) /\ Set(x[1]) # "core" /\ x[2] \in Names(x[1])
                   /\ LET cp == XlateDir("core", hd[x[1]].parent)
                      IN  cp # NIL /\ Find(cp, x[2]) = l}
ChildrenOf(d) == {h \in Headers : Attached(h) /\ hd[h].parent = d}
Refs(h) == Cardinality(LinkRefs(h)) + Cardinality(ChildrenOf(h))
AtRest == /\ oops = NIL /\ ~revived /\ lock = NIL
          /\ \A c \in Clients : work[c] = <<>>
Settled ==
    AtRest =>
        /\ \A c \in in : LET d == Find(SetDir(SetOf[c]), DirOf[c]) IN
              /\ d # NIL /\ IsDir(d) /\ \A n \in FilesOf[c] : Find(d, n) = <<c, "file">>
              /\ SetOf[c] # "core" => Find(core, DirOf[c]) # NIL
        /\ \A c \in Clients \ in : ~hd[<<c, "file">>].live
        /\ \A h \in Headers : hd[h].live =>
              hd[h].nreg = Refs(h) + IF h[2] \in {"set", "file"} THEN 1 ELSE 0

\* What goes wrong has a cause: an erased header, that a directory was found for a
\* registration while it was dying; a null pointer, a new directory that
\* is not needed, since there is one now, or for which no link could be made; a
\* spoiled tree, what such a registration has left, tables that are there together and
\* have a name in common, or two registrations in a namespace that both make its first
\* directory of a name, since get_subdir asks whether one was "added while we dropped
\* the lock" (942) before insert_links drops it again (1153); and an error for a
\* pointer, a link that was listed.
CausesKnown ==
    /\ oops = "gone" => revived
    /\ oops = "null" => revived \/ \E c \in Clients :
          /\ work[c] # <<>> /\ Head(work[c]) = <<"putlinks", <<c, "dir">>>>
          /\ SetOf[c] # "core" \/ Find(core, DirOf[c]) \notin {NIL, <<c, "dir">>}
    /\ oops = "spoiled" =>
          \/ revived
          \/ \E c, d \in {k \in Clients : work[k] # <<>> \/ k \in in} :
                /\ c # d /\ DirOf[c] = DirOf[d] /\ FilesOf[c] \cap FilesOf[d] # {}
                /\ SetOf[c] \in {SetOf[d], "core"}
          \/ \E c, d \in Clients :
                /\ c # d /\ SetOf[c] = SetOf[d] /\ SetOf[c] # "core"
                /\ work[c] # <<>> /\ Head(work[c]) = <<"entries", <<c, "dir">>>>
                /\ Find(hd[<<c, "dir">>].parent, DirOf[c]) = <<d, "dir">>
    /\ oops = "errptr" => \E u \in Processes : IsLink(holds[u][2])

\* "Takes a directory with an elevated reference count so we know that if we drop
\* the lock the directory will not go away" (get_subdir, proc_sysctl.c:915-916).
ReferenceKeeps == \A c \in Clients : at[c] # NIL => hd[at[c]].live

-----------------------------------------------------------------------------
\* For the runs: clients and the table of each; which of them are there is chosen at
\* the beginning.
CONSTANT Casts
VARIABLE cast

MCSets    == {"core", "net1", "net2"}
MCSetOf   == [c1 |-> "core", c2 |-> "core", c3 |-> "core", d3 |-> "core", m |-> "core",
              n1 |-> "net1", n2 |-> "net2", n3 |-> "net1"]
MCDirOf   == [c \in Clients |-> 5]
MCFilesOf == [c1 |-> {1}, c2 |-> {2}, c3 |-> {3}, d3 |-> {3}, m |-> {},
              n1 |-> {3}, n2 |-> {3}, n3 |-> {4}]

Spaces == IF \A c \in cast : SetOf[c] = "core" THEN {"net1"} ELSE {SetOf[c] : c \in cast}
MCInit == SysctlInit /\ cast \in Casts /\ \A u \in Processes : ns[u] \in Spaces
MCNext == /\ oops = NIL /\ UNCHANGED cast
          /\ \/ \E c \in cast : Client(c) /\ UNCHANGED users
             \/ \E u \in Processes : Process(u)
             \/ Prune
          /\ \A u \in Processes : ns'[u] \in Spaces
MCSpec == MCInit /\ [][MCNext]_<<sysctlVars, cast>>
=============================================================================
