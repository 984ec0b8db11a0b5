----------------------------- MODULE TaskFiles -----------------------------
(***************************************************************************)
(* fs/proc: the files of base.c, fd.c, array.c, namespaces.c and           *)
(* task_mmu.c that look at a task, or set something of it, while its       *)
(* threads exit and exec.  Such a handler takes references and locks,      *)
(* finds perhaps that the task is gone or may not be looked at, and gives  *)
(* back what it took.  A handler is the sequence of its steps here, and    *)
(* between any two of them the task may go on.                             *)
(***************************************************************************)
EXTENDS Integers, SequencesExt

CONSTANTS Clients, Threads,   \* 1 .. n, of the process whose files are read
          NONE,
          MaxExec, MaxIO      \* bounds on exec, and on what is counted

VARIABLES image, creds,       \* what the process runs, and whose credentials it has
          readable,           \* the images whose credentials a client may look at
          guard, siglock,     \* who holds cred_guard_mutex, a client or a thread
                              \* that execs; who holds sighand->siglock
          stat, leader,       \* each thread: "live", "zombie" or "gone"; that of the pid
          counts,             \* what each thread has read and written, and at 0 those
                              \* that are gone
          fields,             \* the fields of threads that clients have set
          filter,             \* the bits of mm->flags that make the coredump filter
          todo, held, saw,    \* of each client: the steps to come, what it holds, what
                              \* it has seen
          written             \* history: the last coredump_filter written, or NONE when
                              \* writes overlapped, or an exec got in between

system    == <<image, creds, guard, stat, leader, counts>>
taskVars  == <<system, readable, siglock, fields, filter, todo, held, saw, written>>

-----------------------------------------------------------------------------
\* A step: what is done, with what, and where the handler goes on if that fails: where
\* it gives back (or comes to) the thing named there, or "next", or at the "end".
Take(r, else)    == <<"take", r, else>>
Give(r)          == <<"give", r, "end">>
Drop(r)          == <<"drop", r, "end">>      \* if it is held
Add(r)           == <<"add", r, "end">>       \* d_add: it is the dcache's
Need(x, else)    == <<"need", x, else>>       \* what was found, or not
Check(else)      == <<"check", NONE, else>>   \* ptrace_may_access
If(x, else)      == <<"if", x, else>>
Copy(else)       == <<"copy", NONE, else>>    \* from or to the user, and conversions
Get(x)           == <<"get", x, "end">>
Set(x)           == <<"set", x, "end">>
Bit(i)           == <<"bit", i, "end">>       \* set_bit or clear_bit
Show(x)          == <<"show", x, "end">>      \* what belongs to the image that was checked
Holding(r, else, body) == <<Take(r, else)>> \o body \o <<Give(r)>>
Task(body)       == Holding("task", "end", body)
Rcu(body)        == Holding("rcu", "next", body)
Locked(body)     == Holding("task_lock", "next", body)

\* lock_trace and unlock_trace.
Traced(else, body) == Holding("guard", else, <<Check("guard")>> \o body)

\* Shown with the task that proc_single_show finds.
proc_pid_stack       == Task(Holding("entries", "task", Traced("entries", <<Show("stack")>>)))
proc_pid_syscall     == Task(Traced("task", <<Show("syscall")>>))
proc_pid_personality == Task(Traced("task", <<Show("personality")>>))
proc_pid_wchan       == Task(<<Get("wchan"), If("wchan", "task"), Check("task"), Get("symbol")>>)
proc_pid_limits      == Task(Holding("siglock", "task", <<Get("rlim")>>))
proc_pid_schedstat   == Task(<<Get("sched_info")>>)
proc_oom_score       == Task(<<Get("oom_badness")>>)
proc_pid_statm       == Task(Holding("mm", "task", <<Get("statm")>>))

\* Values of a task, shown and set.
lstats_show_proc     == Task(<<Get("latency_record")>>)
lstats_write         == Task(<<Set("latency_record")>>)
sched_show           == Task(<<Get("se")>>)
sched_write          == Task(<<Set("se")>>)
sched_autogroup_show == Task(<<Get("autogroup")>>)
sched_autogroup_write   == <<Copy("end")>> \o Task(<<If("set_nice", "task"), Set("autogroup")>>)
proc_fault_inject_read  == Task(<<Get("make_it_fail")>>) \o <<Copy("end")>>
proc_fault_inject_write == <<If("capable", "end"), Copy("end"), If("0 or 1", "end")>>
                           \o Task(<<Set("make_it_fail")>>)
proc_loginuid_read   == Task(<<Get("loginuid")>>) \o <<Copy("end")>>
proc_sessionid_read  == Task(<<Get("sessionid")>>) \o <<Copy("end")>>
proc_loginuid_write  == Rcu(<<Get("pid")>>)
                        \o <<If("current", "end"), If("ppos = 0", "end"), Copy("end"),
                             If("uid_valid", "end"), If("audit", "end"), Set("loginuid")>>
proc_pid_attr_read   == Task(<<Get("attr")>>) \o <<Copy("end")>>
proc_pid_attr_write  == Task(<<If("ppos = 0", "task")>> \o Holding("page", "task",
                             Holding("guard", "page", <<If("security", "guard"), Set("attr")>>)))
comm_write           == <<Copy("end")>> \o Task(<<If("same_thread_group", "task"), Set("comm")>>)
comm_show            == Task(Locked(<<Get("comm")>>))
\* Whoever is not the task itself has to be allowed both.
Allowed              == <<If("capable", "task"), If("security", "task")>>
timerslack_ns_write  == <<Copy("end")>>
    \o Task(Allowed \o Locked(<<Set("timer_slack_ns")>>))
timerslack_ns_show   == Task(Allowed \o Locked(<<Get("timer_slack_ns")>>))
proc_coredump_filter_read  == Task(Holding("mm", "task", <<Get("flags")>>) \o <<Copy("task")>>)
proc_coredump_filter_write == <<Copy("end")>> \o Task(Holding("mm", "task", <<Bit(1), Bit(2)>>))
proc_task_getattr    == Task(<<Get("nr_threads")>>)
proc_tid_comm_permission == Task(<<Get("tgid")>>) \o <<If("permission", "end")>>

\* /proc/PID/timers: each read starts and stops; what a start could not get stop finds.
timers_start == <<Take("task", "siglock"), Take("siglock", "siglock"), Get("posix_timers")>>
timers_stop  == <<Drop("siglock"), Drop("task")>>
proc_timers  == Holding("seq", "end", timers_start \o timers_stop \o <<Copy("seq")>>
                                      \o timers_start \o timers_stop)

\* Totals over the threads.
do_io_accounting(whole) ==
    <<Get("own")>> \o Traced("task",
        (IF whole THEN Holding("siglock", "io", <<Get("others")>>) ELSE <<>>) \o <<Show("io")>>)
proc_tid_io_accounting  == Task(do_io_accounting(FALSE))
proc_tgid_io_accounting == Task(do_io_accounting(TRUE))
do_task_stat(whole) ==
    Task(<<Get("state"), Check("next"), Take("mm", "next"), Get("comm")>>
         \o Holding("siglock", "permitted",
                    <<Get("signal")>> \o (IF whole THEN <<Get("sum")>> ELSE <<>>))
         \o <<Need("permitted", "stats"), Get("wchan")>>
         \o <<Get("stats")>> \o (IF whole THEN <<>> ELSE <<Get("own")>>)
         \o <<Drop("mm")>>)

\* /proc/PID/status
get_task_umask == Locked(<<Get("umask")>>)
task_state == Rcu(<<Get("real_parent"), Take("cred", "next")>> \o get_task_umask
                  \o Locked(<<Get("max_fds")>>))
              \o <<Get("state"), Give("cred"), Get("nrs")>>
task_sig   == <<Take("siglock", "siglock"), Get("pending"), Drop("siglock")>>
task_cap   == Rcu(<<Get("cap")>>)
proc_pid_status == Task(<<Take("mm", "next"), Get("comm")>> \o task_state \o <<Drop("mm")>>
                        \o task_sig \o task_cap \o <<Get("cpus_allowed")>>)

\* Links: whether the client may follow them is found out with one reference to the
\* task, where they lead with another one.
proc_fd_access_allowed == <<Take("task", "allowed"), Check("task"), Give("task")>>
get_task_root     == Locked(<<Take("path", "task_lock")>>)
proc_root_link    == <<Take("task", "path")>> \o get_task_root \o <<Give("task")>>
proc_cwd_link     == <<Take("task", "path")>> \o Locked(<<Take("path", "task_lock")>>)
                     \o <<Give("task")>>
proc_exe_link     == <<Take("task", "path"), Take("exe", "task"), Give("task"),
                       Need("exe", "path"), Take("path", "next"), Give("exe")>>
do_proc_readlink  == Holding("page", "path", <<Copy("page")>>)
proc_pid_readlink(proc_get_link) ==
    proc_fd_access_allowed \o <<Need("allowed", "end")>>
    \o proc_get_link \o <<Need("path", "end")>> \o do_proc_readlink \o <<Give("path")>>
\* nd_jump_link has the path from then on.
proc_pid_get_link(proc_get_link) ==
    proc_fd_access_allowed \o <<Need("allowed", "end")>>
    \o proc_get_link \o <<Need("path", "end"), Give("path")>>
proc_ns_get_link  == Task(<<Check("task"), Take("ns", "task"), Give("ns")>>)
proc_ns_readlink  == Task(<<Check("task"), Take("ns", "task"), Give("ns"), Copy("task")>>)

\* On a mount with hide_pid, for a client that is not in its group.
has_pid_permissions(else) == <<Check(else)>>
proc_pid_permission == <<Take("task", "end")>> \o has_pid_permissions("task")
                       \o <<Give("task"), Need("allowed", "end"), If("permission", "end")>>
pid_getattr         == Rcu(<<Need("pid", "rcu")>> \o has_pid_permissions("rcu") \o <<Get("cred")>>)
proc_fd_permission  == <<If("refused", "end")>> \o Rcu(<<Need("pid", "rcu"), Get("tgid")>>)

\* Entries in the directories of a task: an inode, which is the dcache's when it is
\* added, and then the question whether the task, or its file, is still there.
proc_pid_make_inode == <<Take("inode", "inode"), Need("number", "inode"), Get("cred")>>
pid_revalidate      == <<Take("again", "inode"), Get("cred"), Give("again")>>
tid_fd_revalidate   == <<Take("again", "inode"), Take("files", "again")>>
                       \o Rcu(<<Get("fd")>>)
                       \o <<Give("files"), If("open", "again"), Get("cred"), Give("again")>>
Instantiate(revalidate) ==
    proc_pid_make_inode \o <<Add("inode")>> \o revalidate \o <<Drop("inode")>>
proc_pident_instantiate == Instantiate(pid_revalidate)
proc_ns_instantiate     == Instantiate(pid_revalidate)
proc_fdinfo_instantiate == Instantiate(tid_fd_revalidate)
proc_pident_lookup   == Task(<<If("known", "task")>> \o proc_pident_instantiate)
proc_ns_dir_lookup   == Task(<<If("known", "task")>> \o proc_ns_instantiate)
proc_lookupfd_common == Task(<<If("a number", "task")>> \o proc_fdinfo_instantiate)
proc_pident_readdir  == Task(<<If("room", "task")>> \o proc_pident_instantiate
                             \o <<If("room", "task")>> \o proc_pident_instantiate)
proc_ns_dir_readdir  == Task(<<If("room", "task")>> \o proc_ns_instantiate
                             \o <<If("room", "task")>> \o proc_ns_instantiate)

\* One of the files of a task, shown.
seq_show == <<Take("task", "end"), Take("files", "next"), Give("task"), Need("files", "end")>>
            \o Holding("file_lock", "next", <<Take("file", "next")>>)
            \o <<Give("files"), Need("file", "end"), Get("file"), Give("file")>>

\* Files on the user namespace of a task, opened and released.
get_user_ns        == <<Take("task", "user_ns")>> \o Rcu(<<Take("user_ns", "next")>>)
                      \o <<Give("task")>>
proc_id_map        == get_user_ns \o <<Need("user_ns", "end"), Take("seq", "user_ns"),
                                        Give("user_ns"), Drop("seq")>>
proc_setgroups     == get_user_ns \o <<Need("user_ns", "end"), If("ns_capable", "user_ns"),
                                        Take("seq", "user_ns"), Drop("seq"), Give("user_ns")>>

\* The memory of a task, which a file keeps while it is open; a file of the areas in a
\* buffer of its own.
mm_access          == Holding("guard", "task", <<Take("mm", "guard"), Check("guard")>>)
proc_mem_open      == <<Take("task", "mm_count")>> \o mm_access
                      \o <<Give("task"), Need("mm", "mm_count"), Need("permitted", "mm"),
                           Take("mm_count", "next"), Give("mm")>>
pagemap_open       == proc_mem_open \o <<Drop("mm_count")>>
proc_maps_open     == Holding("seq", "end", proc_mem_open \o <<Drop("mm_count")>>)

Handlers == {proc_pid_stack, proc_pid_syscall, proc_pid_personality, proc_pid_wchan,
    proc_pid_limits, proc_pid_schedstat, proc_oom_score, proc_pid_statm, lstats_show_proc,
    lstats_write, sched_show, sched_write, sched_autogroup_show, sched_autogroup_write,
    proc_fault_inject_read, proc_fault_inject_write, proc_loginuid_read,
    proc_sessionid_read, proc_loginuid_write, proc_pid_attr_read, proc_pid_attr_write,
    comm_write, comm_show, timerslack_ns_write, timerslack_ns_show,
    proc_coredump_filter_read, proc_coredump_filter_write, proc_task_getattr,
    proc_tid_comm_permission, proc_timers, proc_tid_io_accounting,
    proc_tgid_io_accounting, do_task_stat(FALSE), do_task_stat(TRUE), proc_pid_status,
    proc_pid_permission, pid_getattr, proc_fd_permission, proc_ns_get_link,
    proc_ns_readlink, proc_pident_lookup, proc_ns_dir_lookup, proc_lookupfd_common,
    proc_pident_readdir, proc_ns_dir_readdir, seq_show, proc_id_map, proc_setgroups,
    pagemap_open, proc_maps_open}
    \cup {proc_pid_readlink(to) : to \in {proc_cwd_link, proc_root_link, proc_exe_link}}
    \cup {proc_pid_get_link(to) : to \in {proc_cwd_link, proc_root_link, proc_exe_link}}

-----------------------------------------------------------------------------
\* The process.
Live(t) == stat[t] = "live"
Sum(S) == LET f[T \in SUBSET S] == IF T = {} THEN 0
                                   ELSE LET t == CHOOSE t \in T : TRUE IN counts[t] + f[T \ {t}]
          IN  f[S]
Total  == Sum(Threads \cup {0})
Sets(steps) == \E i \in DOMAIN steps : steps[i][1] = "set"
\* In saw: the thread, the image whose credentials were checked, the memory, its own
\* count and the total, from which total on and whether over all, what was shown, and
\* whether the handler is to set something, has, and has failed.
Seen(h) == [task |-> NONE, checked |-> NONE, mm |-> NONE, own |-> 0, total |-> NONE,
            from |-> Total, full |-> FALSE, shown |-> NONE,
            sets |-> Sets(h), set |-> FALSE, failed |-> FALSE]
\* Of the counts, no more than the handlers that show them tell apart.
Counting(c) == \E i \in DOMAIN todo[c] : todo[c][i] \in {Get("own"), Get("others"), Get("sum")}
InWrite(c)  == todo[c] # <<>> /\ Head(todo[c]) = Bit(2)

TaskInit == /\ image = 0 /\ creds = 0 /\ readable \in SUBSET (0 .. MaxExec)
            /\ guard = NONE /\ siglock = NONE
            /\ stat \in {s \in [Threads -> {"live", "gone"}] : s[1] = "live"}
            /\ leader = 1
            /\ counts = [t \in Threads \cup {0} |-> IF t # 0 /\ Live(t) THEN 1 ELSE 0]
            /\ fields = {} /\ filter = {} /\ written = {}
            /\ \E h \in Handlers : /\ todo = [c \in Clients |-> IF c = 1 THEN h ELSE <<>>]
                                    /\ saw = [c \in Clients |-> Seen(todo[c])]
            /\ held = [c \in Clients |-> {}]

clients == <<todo, held, saw>>
\* release_task, or more than one: what they counted is the process's from now on, and
\* they have no sighand.
Release(S) == /\ siglock = NONE
              /\ counts' = [t \in DOMAIN counts |-> IF t = 0 THEN Sum(S \cup {0})
                                                    ELSE IF t \in S THEN 0 ELSE counts[t]]
Works(t) == /\ Live(t) /\ \E c \in Clients : Counting(c) /\ Total < MaxIO
            /\ counts' = [counts EXCEPT ![t] = @ + 1]
            /\ UNCHANGED <<image, creds, guard, stat, leader, readable, siglock, fields, filter,
                           clients, written>>
Exits(t) == /\ Live(t) /\ guard # <<"thread", t>>
            /\ IF t = leader THEN stat' = [stat EXCEPT ![t] = "zombie"] /\ UNCHANGED counts
               ELSE Release({t}) /\ stat' = [stat EXCEPT ![t] = "gone"]
            /\ UNCHANGED <<image, creds, guard, leader, readable, siglock, fields, filter, clients,
                           written>>
Reaped == /\ stat[leader] = "zombie" /\ \A t \in Threads : ~Live(t)
          /\ Release({leader}) /\ stat' = [stat EXCEPT ![leader] = "gone"]
          /\ UNCHANGED <<image, creds, guard, leader, readable, siglock, fields, filter, clients,
                         written>>
\* exec: the guard is held from when the new credentials are prepared until they are
\* those of the process; in between the other threads go, the one that execs becomes
\* the leader, and the new memory is taken.
ExecBegin(t) == /\ Live(t) /\ guard = NONE /\ image < MaxExec
                /\ guard' = <<"thread", t>>
                /\ UNCHANGED <<image, creds, stat, leader, counts, readable, siglock, fields,
                               filter, clients, written>>
ExecMm(t) == /\ guard = <<"thread", t>> /\ image = creds
             /\ Release({u \in Threads \ {t} : stat[u] # "gone"})
             /\ stat' = [u \in Threads |-> IF u = t THEN "live" ELSE "gone"]
             /\ leader' = t /\ image' = image + 1
             /\ written' = IF \E c \in Clients : InWrite(c) THEN NONE ELSE written
             /\ UNCHANGED <<creds, guard, readable, siglock, fields, filter, clients>>
ExecEnd(t) == /\ guard = <<"thread", t>>
              /\ creds' = image /\ guard' = NONE
              /\ UNCHANGED <<image, stat, leader, counts, readable, siglock, fields, filter,
                             clients, written>>

-----------------------------------------------------------------------------
\* The first client calls anything, the others write coredump_filter meanwhile.
Start(c) == /\ c # 1 /\ todo[c] = <<>> /\ saw[c] = saw[1]
            /\ todo[1] = Tail(proc_coredump_filter_write)
            /\ todo' = [todo EXCEPT ![c] = todo[1]]
            /\ UNCHANGED <<system, readable, siglock, fields, filter, held, saw, written>>

\* The steps that come to x, next or later on.
After(steps, x) ==
    LET i == SelectInSeq(steps, LAMBDA s : s[1] \notin {"take", "add", "bit"} /\ s[2] = x)
    IN  IF x = "next" THEN steps ELSE IF i = 0 THEN <<>> ELSE SubSeq(steps, i, Len(steps))
Goes(c, s)       == todo' = [todo EXCEPT ![c] = Tail(@)] /\ saw' = [saw EXCEPT ![c] = s]
Fails(c, else)   == /\ todo' = [todo EXCEPT ![c] = After(Tail(@), else)]
                    /\ saw' = [saw EXCEPT ![c].failed = (else # "next")]
HasPid    == stat[leader] # "gone"
Mm(c)     == saw[c].task # NONE /\ Live(saw[c].task)
MayAccess == creds \in readable

\* What cannot be had, what perhaps cannot, what is not there, what is waited for.
Missing(c, x) == \/ x \in {"task", "again"} /\ ~HasPid
                 \/ x \in {"mm", "exe", "files", "ns"} /\ ~Mm(c)
                 \/ x = "path" /\ "task_lock" \in held[c] /\ ~Mm(c)
                 \/ x = "siglock" /\ stat[saw[c].task] = "gone"
MayMiss(c, x) == Missing(c, x) \/ x \in {"guard", "entries", "page", "inode", "seq", "file", "ns"}
Lacks(c, x) == CASE x = "pid"    -> ~HasPid
                 [] x = "number" -> stat[saw[c].task] = "gone"
                 [] x \in {"allowed", "permitted"} -> saw[c].checked = NONE
                 [] OTHER        -> x \notin held[c]
Blocks(x) == \/ x = "guard" /\ guard # NONE
             \/ x = "siglock" /\ siglock # NONE

Found(c, x) ==
    CASE x \in {"task", "pid"} -> [saw[c] EXCEPT !.task = leader]
      [] x = "mm" -> [saw[c] EXCEPT !.mm = image]
      [] OTHER -> saw[c]
Taking(c, x, else) ==
    \/ /\ MayMiss(c, x) /\ Fails(c, else)
       /\ UNCHANGED <<system, readable, siglock, fields, filter, held, written>>
    \/ /\ ~Missing(c, x) /\ ~Blocks(x)
       /\ Goes(c, Found(c, x))
       /\ held' = [held EXCEPT ![c] = @ \cup {x}]
       /\ guard' = IF x = "guard" THEN <<"client", c>> ELSE guard
       /\ siglock' = IF x = "siglock" THEN c ELSE siglock
       /\ UNCHANGED <<image, creds, stat, leader, counts, readable, fields, filter, written>>
Needing(c, x, else) ==
    /\ IF Lacks(c, x) THEN Fails(c, else) ELSE Goes(c, IF x = "pid" THEN Found(c, x) ELSE saw[c])
    /\ UNCHANGED <<system, readable, siglock, fields, filter, held, written>>
Giving(c, x) ==
    /\ Goes(c, saw[c])
    /\ held' = [held EXCEPT ![c] = @ \ {x}]
    /\ guard' = IF x = "guard" /\ x \in held[c] THEN NONE ELSE guard
    /\ siglock' = IF x = "siglock" /\ x \in held[c] THEN NONE ELSE siglock
    /\ UNCHANGED <<image, creds, stat, leader, counts, readable, fields, filter, written>>
Checking(c, else) ==
    /\ IF MayAccess THEN Goes(c, [saw[c] EXCEPT !.checked = image]) ELSE Fails(c, else)
    /\ UNCHANGED <<system, readable, siglock, fields, filter, held, written>>
Trying(c, else) ==
    /\ Goes(c, saw[c]) \/ Fails(c, else)
    /\ UNCHANGED <<system, readable, siglock, fields, filter, held, written>>

\* The counts: its own is copied before anything is held, the others' with siglock.
Noted(c, x) ==
    LET s == saw[c] IN
    CASE x = "own"    -> [s EXCEPT !.own = counts[s.task], !.total = counts[s.task]]
      [] x = "others" -> [s EXCEPT !.full = TRUE,
                                   !.total = s.own + Sum((Threads \cup {0}) \ {s.task})]
      [] x = "sum"    -> [s EXCEPT !.full = TRUE, !.total = Total]
      [] OTHER        -> s
Getting(c, x) ==
    /\ Goes(c, Noted(c, x))
    /\ UNCHANGED <<system, readable, siglock, fields, filter, held, written>>
Showing(c) ==
    /\ Goes(c, [saw[c] EXCEPT !.shown = <<saw[c].checked, image, creds>>])
    /\ UNCHANGED <<system, readable, siglock, fields, filter, held, written>>
\* A field of the thread; loginuid is the client's own.
Setting(c, x) ==
    /\ Goes(c, [saw[c] EXCEPT !.set = TRUE])
    /\ fields' = fields \cup {<<saw[c].task, x>>}
    /\ UNCHANGED <<system, readable, siglock, filter, held, written>>
\* One bit after the other.
SettingBit(c, i) ==
    /\ Goes(c, saw[c])
    /\ IF saw[c].mm # image THEN UNCHANGED <<filter, written>>
       ELSE /\ filter' = IF i = c THEN filter \cup {i} ELSE filter \ {i}
            /\ written' = IF i # 1 THEN written
                          ELSE IF \E o \in Clients : InWrite(o) THEN NONE ELSE {c}
    /\ UNCHANGED <<system, readable, siglock, fields, held>>

Step(c) ==
    /\ todo[c] # <<>>
    /\ LET op == Head(todo[c])[1]  x == Head(todo[c])[2]  else == Head(todo[c])[3]
       IN  CASE op = "take"  -> Taking(c, x, else)
             [] op = "need"  -> Needing(c, x, else)
             [] op \in {"give", "drop", "add"} -> Giving(c, x)
             [] op = "check" -> Checking(c, else)
             [] op \in {"if", "copy"} -> Trying(c, else)
             [] op = "get"   -> Getting(c, x)
             [] op = "show"  -> Showing(c)
             [] op = "set"   -> Setting(c, x)
             [] op = "bit"   -> SettingBit(c, x)

Process  == \/ \E t \in Threads : \/ Works(t) \/ Exits(t) \/ ExecBegin(t)
                                   \/ ExecMm(t) \/ ExecEnd(t)
            \/ Reaped
TaskNext == \/ Process /\ \E c \in Clients : todo[c] # <<>>
            \/ \E c \in Clients : Start(c) \/ Step(c)

-----------------------------------------------------------------------------
Spinning == {"siglock", "task_lock", "file_lock", "rcu"}
\* What may wait for somebody else, for memory, or for a page to be read.
Sleeps(s, has) == \/ s[1] = "copy"
                  \/ s[1] = "take" /\ s[2] \in {"guard", "entries", "page", "inode", "seq", "ns"}
                  \/ s[1] \in {"give", "drop"}
                     /\ s[2] \in has \cap {"mm", "files", "path", "exe", "inode", "seq", "ns"}
\* What the threads share is looked at under siglock, what belongs to an open file with it.
Shared == {"rlim", "posix_timers", "signal", "pending", "others", "sum"}
StepRight(s, has) ==
    /\ s[1] = "give" => s[2] \in has
    /\ s[1] \in {"get", "set", "show"} =>
          /\ s[2] \notin {"file", "loginuid"} => has \cap {"task", "again", "rcu"} # {}
          /\ s[2] = "file" => "file" \in has
          /\ s[2] \in Shared => "siglock" \in has
    /\ Sleeps(s, has) => has \cap Spinning = {}

\* Whatever the process does meanwhile: a handler gives back all it took, wherever it
\* fails, and nothing else; it looks at a task only while it cannot be freed, at what
\* the threads share only while they cannot exit, and does not sleep with a spinlock;
\* one that is to set something of the task has done so unless it failed, and if it
\* failed has not; what is shown of a traced task, and the memory that a file keeps,
\* belong to the image and the credentials that were checked; a total over the threads
\* counts nothing twice and leaves nobody out who exited since the handler began,
\* unless the leader itself is gone; and coredump_filter is what was written to it last.
TaskFilesRight ==
    /\ \A c \in Clients :
          /\ IF todo[c] # <<>> THEN StepRight(Head(todo[c]), held[c]) ELSE held[c] = {}
          /\ saw[c].set => saw[c].sets /\ ~saw[c].failed
          /\ todo[c] = <<>> /\ saw[c].sets => saw[c].set \/ saw[c].failed
          /\ "mm_count" \in held[c] => saw[c].mm = saw[c].checked
          /\ saw[c].shown # NONE => saw[c].shown[2] = saw[c].shown[3]
                                    /\ saw[c].shown[1] \in {NONE, saw[c].shown[2]}
          /\ saw[c].total # NONE => saw[c].total <= Total
          /\ saw[c].full => saw[c].from <= saw[c].total
    /\ fields # {} <=> \E c \in Clients : saw[c].set
    /\ written # NONE /\ (\A c \in Clients : ~InWrite(c)) => filter = written
=============================================================================
