---------------------------- MODULE PidEntries ----------------------------
(***************************************************************************)
(* fs/proc, base.c: the directories of processes and threads, /proc/N and  *)
(* /proc/N/task/M, whose entries stay in the dcache while processes come   *)
(* and go and their numbers are used again.  An inode knows the struct pid *)
(* of its task, and each lookup asks whether that still has a task.  A     *)
(* struct pid is known by the task that it was made for; a thread that     *)
(* calls exec takes the one of its leader (that part is the kernel's).     *)
(***************************************************************************)
EXTENDS Integers, Sequences

CONSTANTS Clients, Tasks, Nrs,    \* who looks up; tasks; their numbers
          NULL

VARIABLES number,             \* of each struct pid, NULL if it is not in use
          pid, group, leads,  \* of each task: its struct pid, the first task of its
                              \* thread group, and whether it is the leader
          flushed,            \* tasks that are being released
          dcache,             \* of names: the struct pid in the inode, or NULL
          pc, name, task, inode,    \* of each client
          holder,             \* history: whose number it was, when the client came with it;
          execs, late         \* struct pids which a thread has taken with exec; those
                              \* whose entries nobody is to flush any more

kernel  == <<number, pid, group, leads, flushed, execs>>
client  == <<name, task, inode, holder>>
pidVars == <<kernel, dcache, pc, client, late>>

\* /proc/n and /proc/n/task/m.
Names == {<<n>> : n \in Nrs} \cup (Nrs \X Nrs)
NumberOf(x) == x[Len(x)]

PidInit ==
    /\ number = [s \in Tasks |-> NULL] /\ pid = [t \in Tasks |-> NULL]
    /\ group = [t \in Tasks |-> NULL] /\ leads = [t \in Tasks |-> FALSE]
    /\ flushed = {} /\ execs = {} /\ late = {}
    /\ dcache = [x \in Names |-> NULL]
    /\ pc = [c \in Clients |-> "user"]
    /\ name = [c \in Clients |-> <<>>]
    /\ task = [c \in Clients |-> NULL] /\ inode = [c \in Clients |-> NULL]
    /\ holder = [c \in Clients |-> NULL]

\* pid_task: of two tasks with one struct pid the one that has called exec.
TasksOf(s) == {t \in Tasks : s # NULL /\ pid[t] = s}
TaskOf(s)  == IF TasksOf(s) = {} THEN NULL
              ELSE CHOOSE t \in TasksOf(s) : leads[t] \/ \A u \in TasksOf(s) : ~leads[u]
\* find_task_by_pid_ns.
WithNumber(n) == {s \in Tasks : number[s] = n}
Holder(n)     == IF WithNumber(n) = {} THEN NULL ELSE CHOOSE s \in WithNumber(n) : TRUE
Find(n)       == TaskOf(Holder(n))

-----------------------------------------------------------------------------
\* A new process, or a new thread; a number is free when no struct pid has it.
Fork(t, n, g) ==
    /\ group[t] = NULL /\ WithNumber(n) = {}
    /\ g # t => \E l \in Tasks \ flushed : leads[l] /\ group[l] = g
    /\ number' = [number EXCEPT ![t] = n] /\ pid' = [pid EXCEPT ![t] = t]
    /\ group' = [group EXCEPT ![t] = g] /\ leads' = [leads EXCEPT ![t] = (g = t)]
    /\ UNCHANGED <<flushed, execs, dcache, pc, client, late>>
\* A thread, when only its leader is left besides it.  Nobody flushes its old entries.
Exec(t) ==
    /\ TasksOf(t) = {t} /\ ~leads[t] /\ t \notin flushed
    /\ \E l \in Tasks \ flushed :
          /\ leads[l] /\ group[l] = group[t] /\ pid[l] # NULL
          /\ \A u \in Tasks : group[u] = group[t] /\ pid[u] # NULL => u \in {t, l}
          /\ pid' = [pid EXCEPT ![t] = pid[l]] /\ execs' = execs \cup {pid[l]}
          /\ leads' = [leads EXCEPT ![t] = TRUE, ![l] = FALSE]
    /\ number' = [number EXCEPT ![t] = NULL]
    /\ late' = late \cup {t}
    /\ UNCHANGED <<group, flushed, dcache, pc, client>>

\* What is in a directory goes with it.
Without(names) == [x \in Names |-> IF x \in names \/ <<x[1]>> \in names THEN NULL ELSE dcache[x]]

\* proc_flush_task: /proc/pid, and /proc/tgid/task/pid, if it is not the leader's.
Tgid(t)    == number[pid[CHOOSE l \in Tasks : leads[l] /\ group[l] = group[t]]]
Entries(t) == {<<number[pid[t]]>>, <<Tgid(t), number[pid[t]]>>}
Flush(t) == /\ pid[t] # NULL /\ t \notin flushed
            /\ leads[t] => \A u \in Tasks \ {t} : group[u] = group[t] => pid[u] = NULL
            /\ flushed' = flushed \cup {t}
            /\ dcache' = Without(Entries(t))
            /\ UNCHANGED <<number, pid, group, leads, execs, pc, client, late>>
Release(t) == /\ t \in flushed /\ pid[t] # NULL
              /\ pid' = [pid EXCEPT ![t] = NULL]
              /\ number' = IF TasksOf(pid[t]) = {t} THEN [number EXCEPT ![pid[t]] = NULL]
                           ELSE number
              /\ UNCHANGED <<group, leads, flushed, execs, dcache, pc, client, late>>

-----------------------------------------------------------------------------
Goto(c, from, to, x, t, s) ==
    /\ pc[c] = from
    /\ pc' = [pc EXCEPT ![c] = to] /\ name' = [name EXCEPT ![c] = x]
    /\ task' = [task EXCEPT ![c] = t] /\ inode' = [inode EXCEPT ![c] = s]
    /\ holder' = [holder EXCEPT ![c] = IF to = "user" THEN NULL
                                       ELSE IF from = "user" THEN Holder(NumberOf(x)) ELSE @]
Leave(c, from) == Goto(c, from, "user", <<>>, NULL, NULL)

\* pid_revalidate asks for a task.  Mutant: what is in the dcache is good.
IsNamed(s) == s # NULL
IsValid(s) == TaskOf(s) # NULL

\* A name that is in the dcache: it is taken, or dropped.
Cached(c, x) == /\ dcache[x] # NULL /\ IsValid(dcache[x])
                /\ Goto(c, "user", "open", x, NULL, dcache[x])
                /\ UNCHANGED <<kernel, dcache, late>>
Drop(c, x)   == /\ dcache[x] # NULL /\ ~IsValid(dcache[x]) /\ pc[c] = "user"
                /\ dcache' = Without({x})
                /\ UNCHANGED <<kernel, pc, client, late>>
\* proc_pid_lookup and proc_task_lookup: the thread must be one of the directory's
\* process.  Another lookup of the name waits for this one.
Lookup(c, x) ==
    LET t == Find(NumberOf(x)) IN
    /\ dcache[x] = NULL /\ t # NULL
    /\ \A d \in Clients : pc[d] \in {"found", "added"} => name[d] # x
    /\ Len(x) = 2 => LET l == TaskOf(dcache[<<x[1]>>]) IN l # NULL /\ group[l] = group[t]
    /\ Goto(c, "user", "found", x, t, NULL)
    /\ UNCHANGED <<kernel, dcache, late>>
\* proc_pid_instantiate, proc_task_instantiate: get_task_pid asks the task again, which
\* may have none any more; a directory that was dropped takes no entry.
NoInode(c) == /\ pc[c] = "found" /\ pid[task[c]] = NULL
              /\ Leave(c, "found")
              /\ UNCHANGED <<kernel, dcache, late>>
Add(c) == /\ pc[c] = "found" /\ pid[task[c]] # NULL
          /\ LET s == pid[task[c]] IN
             /\ Goto(c, "found", "added", name[c], NULL, s)
             /\ dcache' = IF Len(name[c]) = 2 /\ dcache[<<name[c][1]>>] = NULL THEN dcache
                          ELSE [dcache EXCEPT ![name[c]] = s]
             /\ late' = IF TasksOf(s) \subseteq flushed \/ number[s] # NumberOf(name[c])
                        THEN late \cup {s} ELSE late
          /\ UNCHANGED kernel
\* Close the race of the process dying before we return the dentry.
Added(c) == /\ pc[c] = "added"
            /\ IF IsValid(inode[c]) THEN Goto(c, "added", "open", name[c], NULL, inode[c])
               ELSE Leave(c, "added")
            /\ UNCHANGED <<kernel, dcache, late>>
Close(c) == Leave(c, "open") /\ UNCHANGED <<kernel, dcache, late>>

PidNext == \/ \E t \in Tasks : \/ \E n \in Nrs, g \in Tasks : Fork(t, n, g)
                               \/ Exec(t) \/ Flush(t) \/ Release(t)
           \/ \E c \in Clients : \/ \E x \in Names : Cached(c, x) \/ Drop(c, x) \/ Lookup(c, x)
                                 \/ NoInode(c) \/ Add(c) \/ Added(c) \/ Close(c)

-----------------------------------------------------------------------------
\* Who comes with a number gets the directory of the task which has the number then, or
\* none, however often it was used before and whatever the dcache holds of that: unless
\* a thread calls exec meanwhile, when the directory is its leader's from then on.
NamesRight == \A c \in Clients : pc[c] = "open" => inode[c] \in {holder[c]} \cup execs

\* Entries of the dead are gone when the dead are, but for those that were made behind
\* the flush or under a wrong number, those of a thread that has called exec, and those
\* that somebody looked up in the directory of another thread.
DeadFlushed ==
    \A x \in Names : LET s == dcache[x] IN
        s # NULL /\ TaskOf(s) = NULL =>
            \/ s \in late
            \/ Len(x) = 2 /\ dcache[<<x[1]>>] # group[s]
=============================================================================
