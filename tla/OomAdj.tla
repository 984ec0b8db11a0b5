------------------------------- MODULE OomAdj -------------------------------
(***************************************************************************)
(* fs/proc, base.c: /proc/PID/oom_score_adj and the older oom_adj.  What   *)
(* is written is for all the processes that share the memory of PID, which *)
(* are told one after the other, while processes fork and exec.  A fork    *)
(* copies the value first, and then the child comes to share the memory    *)
(* and is seen (that part is the kernel's).  A child of vfork has a value  *)
(* of its own until it calls exec or exits.                                *)
(***************************************************************************)
EXTENDS Integers, FiniteSets

CONSTANTS Procs, NULL,        \* 1 .. n
          Scores, Adjs,       \* what may be written to oom_score_adj, to oom_adj
          MaxWrites           \* bound

VARIABLES mm,                 \* of each process: whose memory it has, NULL if it is none
          vforked,            \* those with a vfork_done
          adj, adj_min,       \* oom_score_adj and oom_score_adj_min of each
          parent,             \* of those that are being forked
          write, left,        \* the write that goes on, or NULL; whom it has still to tell
          apart, last, writes \* history: processes that were forked during a write, or by
                              \* such a one, or by a child of vfork; the last write; bound

oomVars == <<mm, vforked, adj, adj_min, parent, write, left, apart, last, writes>>

OOM_DISABLE       == -17
OOM_ADJUST_MAX    == 15
OOM_SCORE_ADJ_MAX == 1000

OomInit == /\ mm = [p \in Procs |-> IF p = 1 THEN 1 ELSE NULL]
           /\ vforked = {} /\ apart = {} /\ last = NULL /\ writes = 0
           /\ adj = [p \in Procs |-> 0] /\ adj_min = [p \in Procs |-> 0]
           /\ parent = [p \in Procs |-> NULL]
           /\ write = NULL /\ left = {}

Shares(p, q) == mm[p] # NULL /\ mm[p] = mm[q]
Alive(p)     == mm[p] # NULL
Forking(p)   == \E q \in Procs : parent[q] = p
\* Nobody has the memory that p began with, and no write has it pinned.
Fresh(p)     == (\A q \in Procs : mm[q] # p) /\ (write # NULL => write.mm # p)

-----------------------------------------------------------------------------
ForkSignal(p, q) ==
    /\ Alive(p) /\ ~Alive(q) /\ parent[q] = NULL /\ Fresh(q)
    /\ write # NULL => q # write.task
    /\ parent' = [parent EXCEPT ![q] = p]
    /\ adj' = [adj EXCEPT ![q] = adj[p]] /\ adj_min' = [adj_min EXCEPT ![q] = adj_min[p]]
    /\ apart' = IF write # NULL \/ p \in apart \cup vforked THEN apart \cup {q} ELSE apart \ {q}
    /\ UNCHANGED <<mm, vforked, write, left, last, writes>>
\* With memory of its own, sharing its parent's, or as a child of vfork.  A write that
\* goes on may meet it.
ForkLink(q) ==
    /\ parent[q] # NULL
    /\ parent' = [parent EXCEPT ![q] = NULL]
    /\ \/ mm' = [mm EXCEPT ![q] = q] /\ UNCHANGED vforked
       \/ /\ mm' = [mm EXCEPT ![q] = mm[parent[q]]]
          /\ vforked' \in {vforked, vforked \cup {q}}
    /\ left' \in {left} \cup (IF write = NULL \/ left = {} THEN {}
                             ELSE {left \cup {q}})
    /\ apart' = IF write # NULL THEN apart \cup {q} ELSE apart
    /\ UNCHANGED <<adj, adj_min, write, last, writes>>
Exec(p) == /\ Alive(p) /\ Fresh(p) /\ ~Forking(p)
           /\ mm' = [mm EXCEPT ![p] = p] /\ vforked' = vforked \ {p}
           /\ UNCHANGED <<adj, adj_min, parent, write, left, apart, last, writes>>
Exit(p) == /\ Alive(p) /\ ~Forking(p)
           /\ mm' = [mm EXCEPT ![p] = NULL] /\ vforked' = vforked \ {p}
           /\ UNCHANGED <<adj, adj_min, parent, write, left, apart, last, writes>>

-----------------------------------------------------------------------------
\* C's division, and the two scales.
Quotient(a, b) == IF a < 0 THEN -((-a) \div b) ELSE a \div b
Scaled(v) == IF v = OOM_ADJUST_MAX THEN OOM_SCORE_ADJ_MAX
             ELSE Quotient(v * OOM_SCORE_ADJ_MAX, -OOM_DISABLE)
oom_adj_read(p) == IF adj[p] = OOM_SCORE_ADJ_MAX THEN OOM_ADJUST_MAX
                   ELSE Quotient(adj[p] * (-OOM_DISABLE), OOM_SCORE_ADJ_MAX)

\* __set_oom_adj, under oom_adj_mutex.  Without CAP_SYS_RESOURCE oom_adj may not be
\* lowered, and oom_score_adj not below its minimum.  Who else is to be told is decided
\* by whether anybody shares the memory now ...
Begin(p, value, legacy, capable) ==
    /\ write = NULL /\ Alive(p) /\ writes < MaxWrites
    /\ capable \/ value >= (IF legacy THEN adj[p] ELSE adj_min[p])
    /\ LET shared == p \notin vforked /\ \E q \in Procs \ {p} : Shares(p, q)
       IN  write' = [task |-> p, value |-> value, lowers |-> capable /\ ~legacy, set |-> FALSE,
                     mm |-> IF shared THEN mm[p] ELSE NULL]
    /\ apart' = apart \cup {q \in Procs : parent[q] # NULL}
    /\ writes' = writes + 1
    /\ UNCHANGED <<mm, vforked, adj, adj_min, parent, left>>
\* ... and the minimum is moved by a privileged write to the new file only.
Sets(p) == /\ adj' = [adj EXCEPT ![p] = write.value]
           /\ adj_min' = IF write.lowers THEN [adj_min EXCEPT ![p] = write.value] ELSE adj_min
SetOwn == /\ write # NULL /\ ~write.set
          /\ Sets(write.task)
          /\ write' = [write EXCEPT !.set = TRUE]
          /\ left' = IF write.mm = NULL THEN {} ELSE {q \in Procs \ {write.task} : Alive(q)}
          /\ apart' = IF write.task \in vforked THEN apart ELSE apart \ {write.task}
          /\ UNCHANGED <<mm, vforked, parent, last, writes>>
\* Another process is told if it has that memory when its turn comes.
Tell(p) ==
    /\ write # NULL /\ p \in left
    /\ left' = left \ {p}
    /\ IF mm[p] = write.mm /\ p \notin vforked
       THEN Sets(p) /\ apart' = apart \ {p}
       ELSE UNCHANGED <<adj, adj_min, apart>>
    /\ UNCHANGED <<mm, vforked, parent, write, last, writes>>
End == /\ write # NULL /\ write.set /\ left = {} /\ write' = NULL
       /\ UNCHANGED <<mm, vforked, adj, adj_min, parent, left, apart, last, writes>>

Write(p, c) == \/ \E v \in Adjs : Begin(p, Scaled(v), TRUE, c) /\ last' = <<p, v>>
               \/ \E v \in Scores : Begin(p, v, FALSE, c) /\ last' = <<p, NULL>>

OomNext == \/ \E p, q \in Procs : ForkSignal(p, q)
           \/ \E p \in Procs : \/ ForkLink(p) \/ Exec(p) \/ Exit(p) \/ Tell(p)
                               \/ \E c \in BOOLEAN : Write(p, c)
           \/ SetOwn \/ End

-----------------------------------------------------------------------------
\* When no write goes on, processes that share memory have the same value, but for
\* children of vfork, and those that were forked while somebody wrote, and not told of
\* it: a fork does not take oom_adj_mutex.  What is written to oom_adj is read from it,
\* or what is next to it on the side of 0.
AdjShared ==
    /\ write = NULL => \A p, q \in Procs :
          Shares(p, q) /\ {p, q} \cap (vforked \cup apart) = {} => adj[p] = adj[q]
    /\ write # NULL /\ last[2] # NULL =>
          (write.set => LET r == oom_adj_read(last[1])  v == last[2] IN
              r = v \/ (v > 0 /\ r = v - 1) \/ (v < 0 /\ r = v + 1))
=============================================================================
