------------------------------ MODULE Advanced ------------------------------
(***************************************************************************)
(* cw04/advanced: /dev/prname keeps the name of the process whose number   *)
(* was written last, /dev/mountderef the path of the mount that the path   *)
(* written last lies on, in a buffer that each write replaces.  There are  *)
(* no locks, so each use of a shared variable is a step.  A text is known  *)
(* by its length, a buffer by the call that allocated it.  /dev/jiffies,   *)
(* which shares nothing, is only registered here.                          *)
(*                                                                         *)
(* cw03/modules/advanced is an earlier edition, without mountderef: its    *)
(* files have no owner, and it does not look if a device was registered.   *)
(***************************************************************************)
EXTENDS Integers, FiniteSets

CONSTANTS Procs,
          Lengths,      \* lengths of names and of paths
          NULL,
          MaxCalls      \* bound: calls per process

VARIABLES edition,          \* "cw03" or "cw04"
          module,           \* "out", "loading", "undoing" or "live"
          registered,       \* the devices
          process_name, process_name_len,
          pathname, pathname_buf, pathname_len,
          live,             \* the buffers that are allocated
          pc, local,        \* where each process is, its variables
          calls,            \* bound: calls made
          raced, damaged    \* history: two writes to mountderef overlapped;
                            \* a buffer was freed twice

name == <<process_name, process_name_len>>
path == <<pathname, pathname_buf, pathname_len, live, raced, damaged>>
inserted == <<edition, module, registered>>
vars == <<inserted, name, path, pc, local, calls>>

Devices == <<"prname", "jiffies", "mountderef">>      \* in order of registration
Bufs    == Procs \X (1 .. MaxCalls)

\* buf, new: the buffer of a write and the length of the path in it, or what a read
\* has copied; pos: where a read begins; overtaken (history): a write has begun or was
\* going on while this read went on.
NoCall == [buf |-> NULL, new |-> 0, pos |-> 0, overtaken |-> FALSE]
Unset  == IF edition = "cw03" THEN 0 ELSE -1

Init == /\ edition \in {"cw03", "cw04"}
        /\ module = "out" /\ registered = {}
        /\ process_name = 0 /\ process_name_len = Unset
        /\ pathname = NULL /\ pathname_buf = NULL /\ pathname_len = 0
        /\ live = {} /\ raced = FALSE /\ damaged = FALSE
        /\ pc = [p \in Procs |-> "user"]
        /\ local = [p \in Procs |-> NoCall]
        /\ calls = [p \in Procs |-> 0]

-----------------------------------------------------------------------------
\* advanced_init registers the devices one by one; if one fails it deregisters
\* those before it, the last one first.
next == Devices[Cardinality(registered) + 1]
Register == /\ edition = "cw04"
            /\ \/ module = "out" \/ (module = "loading" /\ Cardinality(registered) < 3)
            /\ registered' = registered \cup {next}
            /\ module' = IF Cardinality(registered') = 3 THEN "live" ELSE "loading"
            /\ UNCHANGED <<edition, name, path, pc, local, calls>>
RegisterFails == /\ edition = "cw04" /\ module = "loading"
                 /\ module' = "undoing"
                 /\ UNCHANGED <<edition, registered, name, path, pc, local, calls>>
\* zad2_init registers the first two, whether it succeeds or not, and is in.
zad2_init == /\ edition = "cw03" /\ module \in {"out", "loading"}
             /\ LET device == IF module = "out" THEN "prname" ELSE "jiffies"
                IN  registered' \in {registered, registered \cup {device}}
             /\ module' = IF module = "out" THEN "loading" ELSE "live"
             /\ UNCHANGED <<edition, name, path, pc, local, calls>>
\* What init and exit leave for the next insertion.
Fresh == /\ process_name' = 0 /\ process_name_len' = Unset
         /\ pathname' = NULL /\ pathname_buf' = NULL /\ pathname_len' = 0

Undone == Cardinality(registered) = 1
\* Nothing waits for those who have begun to use prname: their code is gone.
Undo == /\ module = "undoing"
        /\ registered' = registered \ {Devices[Cardinality(registered)]}
        /\ module' = IF Undone THEN "out" ELSE "undoing"
        /\ IF Undone THEN Fresh
           ELSE UNCHANGED <<name, pathname, pathname_buf, pathname_len>>
        /\ pc' = [p \in Procs |-> IF Undone /\ pc[p] # "user" THEN "dead" ELSE pc[p]]
        /\ UNCHANGED <<edition, live, raced, damaged, local, calls>>
\* Nor does zad2_exit.
zad2_exit == /\ edition = "cw03" /\ module = "live"
             /\ module' = "out" /\ registered' = {} /\ Fresh
             /\ pc' = [p \in Procs |-> IF pc[p] = "user" THEN "user" ELSE "dead"]
             /\ UNCHANGED <<edition, live, raced, damaged, local, calls>>

\* kfree, which does nothing with NULL.
Free(buf) == /\ live' = live \ {buf}
             /\ damaged' = (damaged \/ (buf # NULL /\ buf \notin live))

\* THIS_MODULE owns the files, so rmmod waits until nobody is in the driver.
advanced_exit ==
    /\ edition = "cw04" /\ module = "live" /\ \A p \in Procs : pc[p] \in {"user", "dead"}
    /\ module' = "out" /\ registered' = {}
    /\ IF pathname = NULL THEN UNCHANGED <<live, damaged>> ELSE Free(pathname_buf)
    /\ Fresh
    /\ UNCHANGED <<edition, raced, pc, local, calls>>

-----------------------------------------------------------------------------
Goto(p, from, to) == pc[p] = from /\ pc' = [pc EXCEPT ![p] = to]
Return(p, from)   == Goto(p, from, "user") /\ local' = [local EXCEPT ![p] = NoCall]
\* A device can be used as soon as it is registered.
Call(p, dev, to)  == /\ dev \in registered /\ calls[p] < MaxCalls
                     /\ Goto(p, "user", to)
                     /\ calls' = [calls EXCEPT ![p] = @ + 1]

\* A process was found: get_task_comm copies its name, strlen measures what is
\* then in the buffer.  (The errors before that change nothing.)
CopyName(p, n) == /\ Call(p, "prname", "measuring")
                  /\ process_name' = n
                  /\ UNCHANGED <<inserted, process_name_len, path, local>>
NameReaders    == {p \in Procs : pc[p] \in {"reading", "returning"}}
MeasureName(p) == /\ Goto(p, "measuring", "user")
                  /\ process_name_len' = process_name
                  /\ local' = [q \in Procs |-> IF q \in NameReaders
                                 THEN [local[q] EXCEPT !.overtaken = TRUE] ELSE local[q]]
                  /\ UNCHANGED <<inserted, process_name, path, calls>>

\* A read at pos, which any read may be that is told where; it looks at the length to
\* see if there is something left ...
ReadName(p, pos) == /\ Call(p, "prname", "reading")
                    /\ pos < process_name_len
                    /\ local' = [local EXCEPT ![p].pos = pos]
                    /\ UNCHANGED <<inserted, name, path>>
\* ... and again to see how much; cw03 copies all of it, and looks once more to say how
\* much that was.
CopyName04(p) == /\ edition = "cw04" /\ Return(p, "reading")
                 /\ UNCHANGED <<inserted, name, path, calls>>
CopyName03(p) == /\ edition = "cw03" /\ Goto(p, "reading", "returning")
                 /\ local' = [local EXCEPT ![p].new = process_name_len]
                 /\ UNCHANGED <<inserted, name, path, calls>>
ReturnName(p) == /\ Return(p, "returning")
                 /\ UNCHANGED <<inserted, name, path, calls>>

-----------------------------------------------------------------------------
Swapping == {p \in Procs : pc[p] \in {"freeing", "owning", "naming", "counting"}}
Readers  == {p \in Procs : pc[p] = "copying"}

\* A write gets its buffer (or no memory, which changes nothing) ...
Allocate(p) == LET buf == <<p, calls'[p]>> IN
    /\ Call(p, "mountderef", "looking_up")
    /\ local' = [local EXCEPT ![p].buf = buf]
    /\ live' = live \cup {buf}
    /\ UNCHANGED <<inserted, name, pathname, pathname_buf, pathname_len,
                   raced, damaged>>

\* ... copies the path, looks it up and puts the path of the mount in its place,
\* each of which may fail.
LookupFails(p) == /\ Return(p, "looking_up")
                  /\ Free(local[p].buf)
                  /\ UNCHANGED <<inserted, name, pathname, pathname_buf,
                                 pathname_len, raced, calls>>
Lookup(p, n) == /\ Goto(p, "looking_up", "freeing")
                /\ local' = [q \in Procs |->
                       IF q = p THEN [local[p] EXCEPT !.new = n]
                       ELSE IF q \in Readers THEN [local[q] EXCEPT !.overtaken = TRUE]
                       ELSE local[q]]
                /\ raced' = (raced \/ Swapping # {})
                /\ UNCHANGED <<inserted, name, pathname, pathname_buf,
                               pathname_len, live, damaged, calls>>

\* The old buffer is freed, and the three variables are set one by one.
FreeOld(p) == /\ Goto(p, "freeing", "owning")
              /\ Free(pathname_buf)
              /\ UNCHANGED <<inserted, name, pathname, pathname_buf,
                             pathname_len, raced, local, calls>>
SetBuf(p) == /\ Goto(p, "owning", "naming")
             /\ pathname_buf' = local[p].buf
             /\ UNCHANGED <<inserted, name, pathname, pathname_len, live,
                            raced, damaged, local, calls>>
SetName(p) == /\ Goto(p, "naming", "counting")
              /\ pathname' = local[p].buf
              /\ UNCHANGED <<inserted, name, pathname_buf, pathname_len, live,
                             raced, damaged, local, calls>>
SetLen(p) == /\ Return(p, "counting")
             /\ pathname_len' = local[p].new
             /\ UNCHANGED <<inserted, name, pathname, pathname_buf, live,
                            raced, damaged, calls>>

\* A read that finds a path, and then copies it.
ReadPath(p) == /\ Call(p, "mountderef", "copying")
               /\ pathname # NULL /\ pathname_len > 0
               /\ local' = [local EXCEPT ![p].overtaken = Swapping # {}]
               /\ UNCHANGED <<inserted, name, path>>
CopyPath(p) == /\ Return(p, "copying")
               /\ UNCHANGED <<inserted, name, path, calls>>

prname_read(p) == \/ \E pos \in Lengths \cup {0} : ReadName(p, pos)
                  \/ CopyName04(p) \/ CopyName03(p) \/ ReturnName(p)
prname_write(p) == MeasureName(p) \/ \E n \in Lengths : CopyName(p, n)
mountderef_write(p) == \/ Allocate(p) \/ LookupFails(p)
                       \/ \E n \in Lengths : Lookup(p, n)
                       \/ FreeOld(p) \/ SetBuf(p) \/ SetName(p) \/ SetLen(p)
mountderef_read(p) == ReadPath(p) \/ CopyPath(p)

Next == \/ Register \/ RegisterFails \/ Undo \/ advanced_exit
        \/ zad2_init \/ zad2_exit
        \/ \E p \in Procs : \/ prname_read(p) \/ prname_write(p)
                            \/ mountderef_write(p) \/ mountderef_read(p)

Spec == Init /\ [][Next]_vars

-----------------------------------------------------------------------------
\* However writes to prname overlap, when the last one is over the length is
\* that of the name: each measures after it has copied.  What a read of it has seen of
\* the length is still so when it uses it, unless a write has measured meanwhile; no
\* insertion or removal of the module does that.
NameMeasured ==
    /\ (\A p \in Procs : pc[p] # "measuring") =>
           process_name_len \in {process_name, Unset}
    /\ \A p \in NameReaders : ~local[p].overtaken =>
           /\ local[p].pos < process_name_len
           /\ pc[p] = "returning" => local[p].new = process_name_len

\* Unless two writes to mountderef have overlapped, every buffer has one owner:
\* a write that is going on, or pathname_buf.  None is lost on an error path or
\* when the module is removed, and none is freed twice.  Of the devices, a module
\* that is out has none, and one that is in all three, wherever loading failed.
BuffersOwned ==
    LET writing   == {p \in Procs : pc[p] \in {"looking_up", "freeing", "owning"}}
        published == IF \E p \in Procs : pc[p] = "owning" THEN {} ELSE {pathname_buf} \ {NULL}
    IN  /\ module = "out"  => registered = {}
        /\ module = "live" /\ edition = "cw04" => Cardinality(registered) = 3
        /\ ~raced => /\ ~damaged
                     /\ live = {local[p].buf : p \in writing} \cup published
                     /\ Swapping = {} => pathname = pathname_buf

\* A read copies from a buffer that is still allocated, unless a write swapped
\* the buffer during the read, or two writes have overlapped before.
ReadsLiveBuffer ==
    \A p \in Readers : ~local[p].overtaken /\ ~raced => pathname \in live
=============================================================================
