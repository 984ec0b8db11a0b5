------------------------------ MODULE ProcTree ------------------------------
(***************************************************************************)
(* fs/proc, generic.c, proc_net.c, root.c, inode.c and self.c: how the     *)
(* tree under /proc is built and taken down.  Its entries have numbers,    *)
(* and directories count their subdirectories; a network namespace has a   *)
(* tree of its own, which /proc/PID/net leads to while PID is in it; and a *)
(* mount of /proc is made for each namespace of processes.                 *)
(***************************************************************************)
EXTENDS Integers, FiniteSets

CONSTANTS Clients, Nets, NULL,
          MaxOps              \* bound on what the clients do, moves and mounts

VARIABLES kind,               \* what this behaviour is about: "entries", "nets", "mounts"
          tree, nlink, inums, \* what is at each path; what directories count; the ida
          op,                 \* of each client: what it is about
          odd,                \* history: the directories whose count two clients changed
                              \* at once, a parent that went away while it was used, and
                              \* how many mount points each directory has lost
          net, task_net,      \* each network namespace; that of the process
          dentry, since,      \* the entry that /proc/PID/net/dev has in the dcache;
                              \* history: the namespaces of the process since a client came
          mount, ops          \* of a pid namespace; bound

entryVars == <<tree, nlink, inums, odd>>
netVars   == <<net, task_net, dentry, since>>
treeVars  == <<kind, entryVars, op, netVars, mount, ops>>

Paths     == {"d", "d/x", "y"}
Parent(p) == IF p = "d/x" THEN "d" ELSE "root"
Dirs      == {"root", "d"}
Idle      == [pc |-> "idle", path |-> "y", type |-> "file", ino |-> NULL, old |-> 0]
At(c, s)  == op[c].pc = s
Do(k)     == kind = k /\ ops < MaxOps /\ ops' = ops + 1
Go(c, s)  == op' = [op EXCEPT ![c].pc = s]
Done(c)   == op' = [op EXCEPT ![c] = Idle]

TreeInit == /\ kind \in {"entries", "nets", "mounts"} /\ ops = 0
            /\ tree = [p \in Paths |-> NULL] /\ nlink = [d \in Dirs |-> 2] /\ inums = {}
            /\ odd = [raced |-> {}, stray |-> FALSE, lost |-> [d \in Dirs |-> 0]]
            /\ op = [c \in Clients |-> Idle]
            /\ net = [n \in Nets |-> [stage |-> "down", count |-> 0]] /\ task_net = NULL
            /\ dentry = NULL /\ since = [c \in Clients |-> {}]
            /\ mount = [stage |-> "none", ns |-> 0, self |-> 0, proc_self |-> FALSE,
                        root |-> 0, failed |-> 0, hide_pid |-> 0]

-----------------------------------------------------------------------------
\* Entries.  __proc_create finds the parent, under proc_subdir_lock; a permanently empty
\* directory, that is a mount point, takes no entries.
Found(p)   == Parent(p) = "root" \/ (tree["d"] # NULL /\ tree["d"].type # "point")
Counts(t)  == t \in {"dir", "point"}
Create(c, p, t) ==
    /\ Do("entries") /\ At(c, "idle") /\ Found(p)
    /\ t = "file" \/ p # "d/x"
    /\ op' = [op EXCEPT ![c] = [Idle EXCEPT !.pc = IF t = "dir" THEN "count" ELSE "number",
                                            !.path = p, !.type = t]]
    /\ UNCHANGED <<kind, entryVars, netVars, mount>>
\* parent->nlink++ and parent->nlink--, without a lock.  The parent may be gone by now:
\* nothing has kept it.
Gone(p) == Parent(p) # "root" /\ tree[Parent(p)] = NULL
Busy(d) == \E c \in Clients : op[c].pc \in {"counted", "uncounted"} /\ Parent(op[c].path) = d
ReadCount(c, from, to) ==
    LET d == Parent(op[c].path) IN
    /\ At(c, from)
    /\ op' = [op EXCEPT ![c].pc = to, ![c].old = nlink[d]]
    /\ odd' = [odd EXCEPT !.raced = IF Busy(d) THEN @ \cup {d} ELSE @,
                          !.stray = @ \/ Gone(op[c].path)]
    /\ UNCHANGED <<kind, tree, nlink, inums, netVars, mount, ops>>
Counted(c) ==
    /\ At(c, "counted")
    /\ nlink' = [nlink EXCEPT ![Parent(op[c].path)] = op[c].old + 1]
    /\ Go(c, "number")
    /\ UNCHANGED <<kind, tree, inums, odd, netVars, mount, ops>>
Uncounted(c) ==
    LET d == Parent(op[c].path) IN
    /\ At(c, "uncounted")
    /\ nlink' = [nlink EXCEPT ![d] = op[c].old - 1]
    /\ odd' = IF op[c].type = "point" THEN [odd EXCEPT !.lost[d] = @ + 1] ELSE odd
    /\ IF op[c].ino = NULL THEN Done(c) ELSE Go(c, "put")
    /\ UNCHANGED <<kind, tree, inums, netVars, mount, ops>>

\* proc_alloc_inum: the first number that is free, if there is memory for it.
Undo(c) == IF Counts(op[c].type) THEN op' = [op EXCEPT ![c].pc = "uncount", ![c].ino = NULL]
           ELSE Done(c)
First   == CHOOSE i \in 1 .. Cardinality(inums) + 1 :
               i \notin inums /\ \A j \in 1 .. i - 1 : j \in inums
proc_alloc_inum(c) ==
    /\ At(c, "number")
    /\ \/ Undo(c) /\ UNCHANGED inums
       \/ /\ inums' = inums \cup {First}
          /\ op' = [op EXCEPT ![c].pc = "insert", ![c].ino = First]
    /\ UNCHANGED <<kind, tree, nlink, odd, netVars, mount, ops>>
\* proc_register: refused if there is an entry of this name.
proc_register(c) ==
    LET o == op[c] IN
    /\ At(c, "insert")
    /\ odd' = [odd EXCEPT !.stray = @ \/ Gone(o.path)]
    /\ IF tree[o.path] # NULL
       THEN inums' = inums \ {o.ino} /\ Undo(c) /\ UNCHANGED <<tree, nlink>>
       ELSE /\ tree' = [tree EXCEPT ![o.path] = [type |-> o.type, ino |-> o.ino]]
            /\ nlink' = IF o.path = "d" THEN [nlink EXCEPT !["d"] = 2] ELSE nlink
            /\ Done(c) /\ UNCHANGED inums
    /\ UNCHANGED <<kind, netVars, mount, ops>>
\* remove_proc_entry and free_proc_entry.
remove_proc_entry(c, p) ==
    /\ Do("entries") /\ At(c, "idle") /\ tree[p] # NULL
    /\ p = "d" => tree["d/x"] = NULL
    /\ tree' = [tree EXCEPT ![p] = NULL]
    /\ op' = [op EXCEPT ![c] = [Idle EXCEPT
                 !.pc = IF Counts(tree[p].type) THEN "uncount" ELSE "put",
                 !.path = p, !.type = tree[p].type, !.ino = tree[p].ino]]
    /\ UNCHANGED <<kind, nlink, inums, odd, netVars, mount>>
free_proc_entry(c) ==
    /\ At(c, "put") /\ inums' = inums \ {op[c].ino} /\ Done(c)
    /\ UNCHANGED <<kind, tree, nlink, odd, netVars, mount, ops>>

Entry(c) == \/ \E p \in Paths : \/ \E t \in {"file", "dir", "point"} : Create(c, p, t)
                                \/ remove_proc_entry(c, p)
            \/ ReadCount(c, "count", "counted") \/ Counted(c)
            \/ ReadCount(c, "uncount", "uncounted") \/ Uncounted(c)
            \/ proc_alloc_inum(c) \/ proc_register(c) \/ free_proc_entry(c)

-----------------------------------------------------------------------------
\* Network namespaces.  proc_net_ns_init makes the directory; those who register in it
\* come after it, and are gone again when proc_net_ns_exit frees it.  "op.ino" is the
\* namespace a client has to do with.
NetOf(c)    == op[c].ino
Get(n)      == net' = [net EXCEPT ![n].count = @ + 1]
Put(n)      == net' = [net EXCEPT ![n].count = @ - 1]
Inside(n)   == \E c \in Clients : op[c].pc \in {"using", "opening"} /\ NetOf(c) = n
proc_net_ns_init(n) == /\ Do("nets") /\ net[n].stage = "down" /\ task_net = NULL
                       /\ net' = [net EXCEPT ![n] = [stage |-> "up", count |-> 1]]
                       /\ task_net' = n
                       /\ since' = [c \in Clients |-> since[c] \cup {n}]
                       /\ UNCHANGED <<kind, entryVars, op, dentry, mount>>
\* setns: into another one, or a new one.
Moves(n) == /\ Do("nets") /\ task_net \notin {NULL, n}
            /\ net[n].stage = "down" \/ (net[n].stage = "up" /\ net[n].count > 0)
            /\ net' = [net EXCEPT ![n] = [stage |-> "up", count |-> @.count + 1],
                                  ![task_net].count = @ - 1]
            /\ task_net' = n
            /\ since' = [c \in Clients |-> since[c] \cup {n}]
            /\ UNCHANGED <<kind, entryVars, op, dentry, mount>>
Exits    == /\ Do("nets") /\ task_net # NULL
            /\ Put(task_net) /\ task_net' = NULL
            /\ UNCHANGED <<kind, entryVars, op, dentry, since, mount>>
\* Once the last reference is gone the entries are removed, each when nobody is in it,
\* and then the directory is freed.
Cleanup(n) == /\ net[n].stage = "up" /\ net[n].count = 0
              /\ net' = [net EXCEPT ![n].stage = "exiting"]
              /\ UNCHANGED <<kind, entryVars, op, task_net, dentry, since, mount, ops>>
proc_net_ns_exit(n) == /\ net[n].stage = "exiting" /\ ~Inside(n)
                       /\ net' = [net EXCEPT ![n].stage = "freed"]
                       /\ UNCHANGED <<kind, entryVars, op, task_net, dentry, since, mount, ops>>

\* proc_tgid_net_lookup: what is in the dcache is taken as it is; else
\* get_proc_task_net.  One client at a time looks a name up.
Cached(c) == /\ kind = "nets" /\ At(c, "idle") /\ dentry # NULL
             /\ op' = [op EXCEPT ![c] = [@ EXCEPT !.pc = "found", !.ino = dentry, !.old = 1]]
             /\ since' = [since EXCEPT ![c] = {task_net}]
             /\ UNCHANGED <<kind, entryVars, net, task_net, dentry, mount, ops>>
get_proc_task_net(c) ==
    /\ kind = "nets" /\ At(c, "idle") /\ dentry = NULL /\ task_net # NULL
    /\ \A d \in Clients : ~At(d, "looking")
    /\ Get(task_net)
    /\ op' = [op EXCEPT ![c].pc = "looking", ![c].ino = task_net]
    /\ since' = [since EXCEPT ![c] = {task_net}]
    /\ UNCHANGED <<kind, entryVars, task_net, dentry, mount, ops>>
proc_tgid_net_lookup(c) ==
    /\ At(c, "looking") /\ Put(NetOf(c))
    /\ \/ Go(c, "found") /\ dentry' = NetOf(c)
       \/ Done(c) /\ UNCHANGED dentry
    /\ UNCHANGED <<kind, entryVars, task_net, since, mount, ops>>
\* The last one to leave takes the dentry along.
Forget(c) == /\ kind = "nets" /\ At(c, "found") /\ Done(c)
             /\ dentry' = IF \E d \in Clients \ {c} : op[d].pc \in {"found", "using", "opening", "open"}
                          THEN dentry ELSE NULL
             /\ UNCHANGED <<kind, entryVars, net, task_net, since, mount, ops>>
\* proc_reg_open, and in it seq_open_net or single_open_net; their release.
use_pde(c) == /\ kind = "nets" /\ At(c, "found") /\ net[NetOf(c)].stage = "up" /\ Go(c, "using")
              /\ UNCHANGED <<kind, entryVars, netVars, mount, ops>>
get_proc_net(c) ==
    /\ At(c, "using")
    /\ IF net[NetOf(c)].count = 0 THEN Go(c, "found") /\ UNCHANGED net
       ELSE Go(c, "opening") /\ Get(NetOf(c))
    /\ UNCHANGED <<kind, entryVars, task_net, dentry, since, mount, ops>>
seq_open_net(c) ==
    /\ At(c, "opening")
    /\ \/ Go(c, "found") /\ Put(NetOf(c))
       \/ Go(c, "open") /\ UNCHANGED net
    /\ UNCHANGED <<kind, entryVars, task_net, dentry, since, mount, ops>>
seq_release_net(c) ==
    /\ At(c, "open") /\ Go(c, "found") /\ Put(NetOf(c))
    /\ UNCHANGED <<kind, entryVars, task_net, dentry, since, mount, ops>>

Net(n)  == proc_net_ns_init(n) \/ Moves(n) \/ Cleanup(n) \/ proc_net_ns_exit(n)
Visit(c) == \/ Cached(c) \/ get_proc_task_net(c) \/ proc_tgid_net_lookup(c) \/ Forget(c)
            \/ use_pde(c) \/ get_proc_net(c) \/ seq_open_net(c) \/ seq_release_net(c)

-----------------------------------------------------------------------------
\* Mounts.  proc_fill_super takes a reference to the namespace, and goes on until
\* something fails, whereupon proc_kill_sb undoes what was done.
Stage(from, to) == mount.stage = from /\ mount' = [mount EXCEPT !.stage = to]
proc_mount == /\ Do("mounts") /\ mount.stage = "none"
              /\ mount' = [mount EXCEPT !.stage = "options", !.ns = @ + 1]
              /\ UNCHANGED <<kind, entryVars, op, netVars>>
\* Options are in force one by one, those before a bad one too.
proc_parse_options ==
    /\ mount.stage = "options"
    /\ \E h \in 0 .. 2, next \in {"root", "fail"} :
          mount' = [mount EXCEPT !.hide_pid = h, !.stage = next]
    /\ UNCHANGED <<kind, entryVars, op, netVars, ops>>
proc_remount == /\ Do("mounts") /\ mount.stage = "mounted"
                /\ \E h \in 0 .. 2 : mount' = [mount EXCEPT !.hide_pid = h]
                /\ UNCHANGED <<kind, entryVars, op, netVars>>
\* The root's inode and dentry: a reference to proc_root that the inode gives back.
proc_fill_super == /\ \/ mount.stage = "root" /\ mount' = [mount EXCEPT !.stage = "self", !.root = 1]
                      \/ Stage("root", "fail")
                   /\ UNCHANGED <<kind, entryVars, op, netVars, ops>>
\* proc_setup_self, and proc_setup_thread_self likewise: the namespace knows the dentry.
proc_setup_self == /\ \/ mount.stage = "self"
                         /\ mount' = [mount EXCEPT !.stage = "thread", !.self = 1,
                                                   !.proc_self = TRUE]
                      \/ Stage("self", "fail")
                   /\ UNCHANGED <<kind, entryVars, op, netVars, ops>>
proc_setup_thread_self == /\ Stage("thread", "mounted") \/ Stage("thread", "fail")
                          /\ UNCHANGED <<kind, entryVars, op, netVars, ops>>
proc_kill_sb ==
    /\ mount.stage = "fail" \/ (mount.stage = "mounted" /\ Do("mounts"))
    /\ mount' = [mount EXCEPT !.self = IF mount.proc_self THEN @ - 1 ELSE @,
                              !.root = 0, !.ns = @ - 1,
                              !.failed = IF mount.stage = "fail" THEN @ + 1 ELSE @,
                              !.stage = IF mount.stage = "fail" THEN "none" ELSE "gone"]
    /\ mount.stage = "fail" => UNCHANGED ops
    /\ UNCHANGED <<kind, entryVars, op, netVars>>

Mounts == \/ proc_mount \/ proc_parse_options \/ proc_remount \/ proc_fill_super
          \/ proc_setup_self \/ proc_setup_thread_self \/ proc_kill_sb

TreeNext == /\ ~odd.stray
            /\ \/ \E c \in Clients : Entry(c) \/ Visit(c)
               \/ \E n \in Nets : Net(n)
               \/ Exits \/ Mounts

-----------------------------------------------------------------------------
\* Entries have different numbers, and those of entries that are gone, or were never
\* registered, can be had again.  A directory counts its subdirectories, unless two
\* clients change the count at once: it does not count mount points, but uncounts them.
EntriesCounted ==
    (\A c \in Clients : At(c, "idle")) /\ ~odd.stray =>
        /\ inums = {tree[p].ino : p \in {q \in Paths : tree[q] # NULL}}
        /\ \A p, q \in Paths : p # q /\ NULL \notin {tree[p], tree[q]} => tree[p].ino # tree[q].ino
        /\ \A d \in Dirs \ odd.raced :
              d = "root" \/ tree[d] # NULL =>
                  nlink[d] + odd.lost[d] =
                      2 + Cardinality({p \in Paths : Parent(p) = d /\ tree[p] # NULL
                                                     /\ tree[p].type = "dir"})

\* A namespace counts the process and the clients that look at it or have a file of it
\* open.  Its directory is there while somebody looks at it or opens an entry in it, and
\* the namespace itself while a file is open.  The entry that a client finds is that of
\* a namespace which the process has been in since the client came, unless it was in the
\* dcache already.
NetsKept == kind = "nets" =>
    /\ \A n \in Nets : net[n].count = (IF task_net = n THEN 1 ELSE 0)
           + Cardinality({c \in Clients : /\ op[c].pc \in {"looking", "opening", "open"}
                                          /\ NetOf(c) = n})
    /\ \A c \in Clients :
          /\ op[c].pc \in {"using", "opening"} => net[NetOf(c)].stage \in {"up", "exiting"}
          /\ op[c].pc \in {"looking", "open"} => net[NetOf(c)].stage = "up"
          /\ At(c, "found") /\ op[c].old = 0 => NetOf(c) \in since[c]

\* A mount that failed leaves no reference to its namespace and to proc_root, and puts
\* its entry "self" once; but the namespace still knows the entry, and when two mounts
\* of it fail it is put again.
MountsUndone ==
    /\ mount.ns = (IF mount.stage \in {"none", "gone"} THEN 0 ELSE 1)
    /\ mount.stage \in {"none", "gone"} => mount.root = 0
    /\ mount.failed < 2 /\ mount.stage \in {"none", "gone"} => mount.self = 0

TreeRight == EntriesCounted /\ NetsKept /\ MountsUndone
=============================================================================
