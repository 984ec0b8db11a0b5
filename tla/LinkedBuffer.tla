---------------------------- MODULE LinkedBuffer ----------------------------
(***************************************************************************)
(* cw06/sync/semaphore/linked_buffer: /dev/linked, a list of chunks of at  *)
(* most INTERNAL_SIZE bytes, as processes use it that each have it open.   *)
(* my_sem guards the list; total_length is also read, and the counters are *)
(* read and written, without it.  What a call does to its own variables    *)
(* between two accesses to shared ones is part of the access before.       *)
(*                                                                         *)
(* cw06/sync/mutex/linked_buffer: the same device with a mutex, which      *)
(* cannot be interrupted and is held over the counters too, but is not     *)
(* unlocked on two error paths.  my_sem stands for my_mutex (1: free).     *)
(* Either of the two drivers is inserted, not both: they register the same *)
(* major number.                                                           *)
(***************************************************************************)
EXTENDS Integers, FiniteSets, SequencesExt

CONSTANTS Procs,
          INTERNAL_SIZE,
          Requests,     \* what a process may write: sequences of chunks
          Counts,       \* the sizes of the buffers it may read into
          CLEAR,        \* the contents "xxx&"
          MaxCalls,     \* bound: calls per process
          A, B, C       \* other contents

\* A write is cut into chunks that are full, but for the last; "xxx&" is full.
ASSUME Chunking ==
    /\ INTERNAL_SIZE \in Nat /\ MaxCalls \in Nat /\ Counts \subseteq Nat
    /\ Requests \subseteq Seq([length : 1 .. INTERNAL_SIZE, contents : {A, B, C, CLEAR}])
    /\ \A m \in Requests : \A k \in DOMAIN m :
          k < Len(m) \/ m[k].contents = CLEAR => m[k].length = INTERNAL_SIZE

VARIABLES my_sem,
          buffer, total_length,
          read_count, write_count,
          fpos,     \* filp->f_pos of each process
          pc,       \* where each process is; "user" outside the driver
          local,    \* the arguments and variables of its call
          out,      \* what its last read returned
          calls,    \* bound: calls made
          reads, writes,    \* history: calls that got to their increment
          inserted,         \* "semaphore" or "mutex": the driver in use
          leaked            \* history: a call has returned without unlocking

list   == <<buffer, total_length>>
counts == <<read_count, write_count, reads, writes>>
vars   == <<my_sem, list, counts, fpos, pc, local, out, calls>>
allVars == <<vars, inserted, leaked>>

\* How long the first k chunks are, and all of them.
Sums(chunks) ==
    LET sum[k \in 0 .. Len(chunks)] ==
            IF k = 0 THEN 0 ELSE sum[k - 1] + chunks[k].length
    IN  sum
Bytes(chunks) == Sums(chunks)[Len(chunks)]

\* count: the size of the buffer to read into; msg: the chunks to write; i: how
\* many of them have been appended; old: the counter that is being incremented.
NoCall == [count |-> 0, msg |-> <<>>, i |-> 0, old |-> 0]

Init == /\ my_sem = 1
        /\ buffer = <<>> /\ total_length = 0
        /\ read_count = 0 /\ write_count = 0 /\ reads = 0 /\ writes = 0
        /\ fpos = [p \in Procs |-> 0]
        /\ pc = [p \in Procs |-> "user"]
        /\ local = [p \in Procs |-> NoCall]
        /\ out = [p \in Procs |-> <<>>]
        /\ calls = [p \in Procs |-> 0]

Goto(p, from, to) == pc[p] = from /\ pc' = [pc EXCEPT ![p] = to]
Return(p, from)   == Goto(p, from, "user") /\ local' = [local EXCEPT ![p] = NoCall]
Call(p)           == /\ pc[p] = "user" /\ calls[p] < MaxCalls
                     /\ calls' = [calls EXCEPT ![p] = @ + 1]
SetPos(p, n)      == fpos' = [fpos EXCEPT ![p] = n]

\* Mutant: a caller keeps the semaphore.
upForgotten == my_sem' = my_sem

down == my_sem > 0 /\ my_sem' = my_sem - 1
up   == my_sem' = my_sem + 1

\* The unlocked look at total_length that opens a read.
CallRead(p, n) == /\ Call(p)
                  /\ IF fpos[p] > total_length
                     THEN /\ out' = [out EXCEPT ![p] = <<>>]
                          /\ UNCHANGED <<pc, local>>
                     ELSE /\ Goto(p, "user", "down_read")
                          /\ local' = [local EXCEPT ![p].count = n]
                          /\ UNCHANGED out
                  /\ UNCHANGED <<my_sem, list, counts, fpos>>

CallWrite(p, m) == /\ Call(p)
                   /\ Goto(p, "user", "down_write")
                   /\ local' = [local EXCEPT ![p].msg = m]
                   /\ UNCHANGED <<my_sem, list, counts, fpos, out>>

Down(p) == /\ \/ Goto(p, "down_read", "reading")
              \/ Goto(p, "down_write", "writing")
           /\ down
           /\ UNCHANGED <<list, counts, fpos, local, out, calls>>

\* down_interruptible: a signal ends the wait and the call with -EINTR.
Interrupted(p) == /\ Return(p, "down_read") \/ Return(p, "down_write")
                  /\ UNCHANGED <<my_sem, list, counts, fpos, out, calls>>

\* The loop over the list: what a reader at f_pos copies out into n bytes.
\* Mutant: the element that begins at f_pos is skipped.
SkippedOffByOne(pos, f_pos) == pos <= f_pos
Skipped(pos, f_pos) == pos < f_pos

AtStart == [pos |-> 0, copied |-> 0, real_length |-> 0, out |-> <<>>, over |-> FALSE]

\* The element d, after those that have led to s.
Visit(s, d, f_pos, n) ==
    IF s.over THEN s
    ELSE IF Skipped(s.pos, f_pos) THEN [s EXCEPT !.pos = @ + d.length]
    ELSE LET to_copy == Min({d.length, n - s.copied})
         IN  [pos         |-> s.pos + to_copy,
              copied      |-> s.copied + to_copy,
              real_length |-> s.real_length + d.length,
              out         |-> Append(s.out, [d EXCEPT !.length = to_copy]),
              over        |-> s.copied + to_copy >= n]

\* What it has come to after each element, and in the end.
Walk(f_pos, n) ==
    LET walk[k \in 0 .. Len(buffer)] ==
            IF k = 0 THEN AtStart ELSE Visit(walk[k - 1], buffer[k], f_pos, n)
    IN  walk
Traverse(f_pos, n) == Walk(f_pos, n)[Len(buffer)]

FinishRead(p) ==
    /\ Goto(p, "reading", "load_reads")
    /\ LET t == Traverse(fpos[p], local[p].count)
       IN  /\ out' = [out EXCEPT ![p] = t.out]
           /\ SetPos(p, fpos[p] + t.real_length)
    /\ up
    /\ UNCHANGED <<list, counts, local, calls>>

\* copy_to_user may fault at any chunk it copies something from.
FaultRead(p) == /\ Return(p, "reading")
                /\ Traverse(fpos[p], local[p].count).copied > 0
                /\ up
                /\ UNCHANGED <<list, counts, fpos, out, calls>>

\* What the writer has appended, and whether there is a chunk left.
Appended(p)  == Bytes(SubSeq(local[p].msg, 1, local[p].i))
Unwritten(p) == local[p].i < Len(local[p].msg)
Current(p)   == local[p].msg[local[p].i + 1]

AppendChunk(p) == /\ Goto(p, "writing", "writing")
                  /\ Unwritten(p) /\ Current(p).contents # CLEAR
                  /\ buffer' = Append(buffer, Current(p))
                  /\ total_length' = total_length + Current(p).length
                  /\ local' = [local EXCEPT ![p].i = @ + 1]
                  /\ UNCHANGED <<my_sem, counts, fpos, out, calls>>

\* Mutant: the length of the list is forgotten.
clean_listKeepsLength == buffer' = <<>> /\ UNCHANGED total_length
clean_list == buffer' = <<>> /\ total_length' = 0

\* "xxx&" empties the list and ends the call, which is not counted.
Clear(p) == /\ Return(p, "writing")
            /\ Unwritten(p) /\ Current(p).contents = CLEAR
            /\ clean_list
            /\ up
            /\ SetPos(p, fpos[p] + Appended(p))
            /\ UNCHANGED <<counts, out, calls>>

\* kzalloc or copy_from_user fails at some chunk: the chunks before it stay in
\* the list, but the file position does not move (the kernel drops it).
FailWrite(p) == /\ Return(p, "writing")
                /\ Unwritten(p)
                /\ up
                /\ UNCHANGED <<list, counts, fpos, out, calls>>

FinishWrite(p) == /\ Goto(p, "writing", "load_writes")
                  /\ ~Unwritten(p)
                  /\ up
                  /\ SetPos(p, fpos[p] + Appended(p))
                  /\ UNCHANGED <<list, counts, local, out, calls>>

\* read_count++ and write_count++, after the semaphore has been given back.
LoadReads(p) == /\ Goto(p, "load_reads", "store_reads")
                /\ local' = [local EXCEPT ![p].old = read_count]
                /\ reads' = reads + 1
                /\ UNCHANGED <<my_sem, list, read_count, write_count, writes,
                               fpos, out, calls>>

LoadWrites(p) == /\ Goto(p, "load_writes", "store_writes")
                 /\ local' = [local EXCEPT ![p].old = write_count]
                 /\ writes' = writes + 1
                 /\ UNCHANGED <<my_sem, list, read_count, write_count, reads,
                                fpos, out, calls>>

Incremented(p) == local[p].old + 1

StoreReads(p) == /\ Return(p, "store_reads")
                 /\ read_count' = Incremented(p)
                 /\ UNCHANGED <<my_sem, list, write_count, reads, writes,
                                fpos, out, calls>>

StoreWrites(p) == /\ Return(p, "store_writes")
                  /\ write_count' = Incremented(p)
                  /\ UNCHANGED <<my_sem, list, read_count, reads, writes,
                                 fpos, out, calls>>

\* What a process does inside the driver, once it has called it.
Driver(p) == \/ Down(p) \/ FinishRead(p) \/ FaultRead(p)
             \/ AppendChunk(p) \/ Clear(p) \/ FailWrite(p) \/ FinishWrite(p)
             \/ LoadReads(p) \/ StoreReads(p) \/ LoadWrites(p) \/ StoreWrites(p)
User(p)   == \/ \E n \in Counts : CallRead(p, n)
             \/ \E m \in Requests : CallWrite(p, m)
             \/ Interrupted(p)

\* Every process has used up its calls.
Stopped == /\ \A p \in Procs : pc[p] = "user" /\ calls[p] = MaxCalls
           /\ UNCHANGED vars

-----------------------------------------------------------------------------
\* An error path that unlocks, and one that does not.
Unlocking == up /\ UNCHANGED leaked
Leaking   == leaked' = TRUE /\ UNCHANGED my_sem

MutexFinishRead(p) ==
    /\ Return(p, "reading")
    /\ LET t == Traverse(fpos[p], local[p].count)
       IN  /\ out' = [out EXCEPT ![p] = t.out]
           /\ SetPos(p, fpos[p] + t.real_length)
    /\ read_count' = read_count + 1
    /\ reads' = reads + 1
    /\ Unlocking
    /\ UNCHANGED <<list, write_count, writes, calls>>

\* A fault of copy_to_user returns with the mutex locked.
MutexFaultRead(p) == /\ Return(p, "reading")
                     /\ Traverse(fpos[p], local[p].count).copied > 0
                     /\ Leaking
                     /\ UNCHANGED <<list, counts, fpos, out, calls>>

\* A fault of copy_from_user unlocks; a failed kzalloc does not.
MutexFailWrite(p) == /\ Return(p, "writing")
                     /\ Unwritten(p)
                     /\ Unlocking \/ Leaking
                     /\ UNCHANGED <<list, counts, fpos, out, calls>>

MutexFinishWrite(p) ==
    /\ Return(p, "writing")
    /\ ~Unwritten(p)
    /\ SetPos(p, fpos[p] + Appended(p))
    /\ write_count' = write_count + 1
    /\ writes' = writes + 1
    /\ Unlocking
    /\ UNCHANGED <<list, read_count, reads, out, calls>>

MutexDriver(p) == \/ MutexFinishRead(p) \/ MutexFaultRead(p)
                  \/ MutexFailWrite(p) \/ MutexFinishWrite(p)
                  \/ (Down(p) \/ AppendChunk(p) \/ Clear(p)) /\ UNCHANGED leaked
MutexUser(p) == /\ \/ \E n \in Counts : CallRead(p, n)
                   \/ \E m \in Requests : CallWrite(p, m)
                /\ UNCHANGED leaked

\* No calls are left, but those that wait for ever for a leaked mutex.
Ended(p) == pc[p] = "user" /\ calls[p] = MaxCalls
Stuck(p) == pc[p] \in {"down_read", "down_write"} /\ my_sem = 0 /\ leaked
MutexStopped == (\A p \in Procs : Ended(p) \/ Stuck(p)) /\ UNCHANGED vars

-----------------------------------------------------------------------------
\* The device, whichever of the two drivers is inserted.
AnyInit == Init /\ inserted \in {"semaphore", "mutex"} /\ leaked = FALSE

AnyDriver(p) == /\ IF inserted = "mutex" THEN MutexDriver(p)
                   ELSE Driver(p) /\ UNCHANGED leaked
                /\ UNCHANGED inserted
AnyUser(p) == /\ IF inserted = "mutex" THEN MutexUser(p)
                 ELSE User(p) /\ UNCHANGED leaked
              /\ UNCHANGED inserted
AnyStopped == /\ IF inserted = "mutex" THEN MutexStopped ELSE Stopped
              /\ UNCHANGED <<inserted, leaked>>

AnyNext == (\E p \in Procs : AnyDriver(p) \/ AnyUser(p)) \/ AnyStopped

AnySpec == AnyInit /\ [][AnyNext]_allVars

\* A process in the driver runs, and the semaphore and the mutex do not let a
\* waiter starve: they queue their waiters.  Nobody has to make a call.
AnyFairSpec ==
    /\ AnySpec
    /\ \A p \in Procs : /\ WF_allVars(AnyDriver(p))
                        /\ SF_allVars(Down(p) /\ UNCHANGED <<inserted, leaked>>)

-----------------------------------------------------------------------------
Holders == {p \in Procs : pc[p] \in {"reading", "writing"}}
Writers == {p \in Procs : pc[p] = "writing"}
Chunks  == UNION {Range(m) : m \in Requests}

\* Every process is at a known place in the driver.
TypeOK == /\ my_sem \in {0, 1}
          /\ buffer \in Seq(Chunks)
          /\ {total_length, read_count, write_count, reads, writes} \subseteq Nat
          /\ fpos \in [Procs -> Nat]
          /\ pc \in [Procs -> {"user", "down_read", "reading", "load_reads",
                               "store_reads", "down_write", "writing",
                               "load_writes", "store_writes"}]
          /\ local \in [Procs -> [count : Counts \cup {0}, i : Nat, old : Nat,
                                  msg : Requests \cup {<<>>}]]
          /\ calls \in [Procs -> 0 .. MaxCalls]
          /\ \A p \in Procs : local[p].i <= Len(local[p].msg)
          /\ inserted \in {"semaphore", "mutex"} /\ leaked \in BOOLEAN

\* The lock keeps the list to one process, and when it is taken for nobody the
\* mutex variant has failed half-way.
LockConsistent == /\ \A p, q \in Holders : p = q
                  /\ Holders # {} => my_sem = 0
                  /\ my_sem = 0 => Holders # {} \/ leaked

\* What a writer has appended so far are the last chunks of the list.
CallsConsistent ==
    \A p \in Procs :
        /\ pc[p] = "user" => local[p] = NoCall
        /\ pc[p] \in {"down_read", "reading"} => local[p].count \in Counts
        /\ pc[p] \in {"down_write", "writing"} => local[p].msg \in Requests
        /\ pc[p] = "down_write" => local[p].i = 0
        /\ pc[p] = "writing" =>
              /\ local[p].i <= Len(buffer)
              /\ \A k \in 1 .. local[p].i :
                    /\ buffer[Len(buffer) - local[p].i + k] = local[p].msg[k]
                    /\ local[p].msg[k].contents # CLEAR

\* total_length, which reads trust before they lock, is the length of the list.
LengthConsistent == total_length = Bytes(buffer)

\* The unlocked increments may lose counts but never invent one.
CountersBounded ==
    /\ read_count <= reads /\ write_count <= writes
    /\ \A p \in Procs : /\ pc[p] = "store_reads" => local[p].old < reads
                        /\ pc[p] = "store_writes" => local[p].old < writes

\* Every read and write takes effect at one instant, in spite of the unlocked
\* check, the errors half-way and the writes that take several steps.
Device == INSTANCE LinkedDevice
    WITH log <- SubSeq(buffer, 1, Len(buffer)
                         - (IF Writers = {} THEN 0 ELSE local[CHOOSE p \in Writers : TRUE].i)),
         pos <- fpos
ImplementsDevice == Device!Spec

\* The semaphore variant increments the counters unlocked: it may lose counts
\* but never invents one.  The mutex variant counts every call that succeeded.
CountersRight == IF inserted = "mutex"
                 THEN read_count = reads /\ write_count = writes
                 ELSE CountersBounded

\* The lock, the calls under way, the length of the list and the counters.
IInv == TypeOK /\ LockConsistent /\ CallsConsistent /\ LengthConsistent /\ CountersRight

\* A call that is not interrupted returns, unless the mutex was leaked before
\* the call got it.
EveryCallReturns ==
    \A p \in Procs : pc[p] # "user" ~> (pc[p] = "user" \/ leaked)

-----------------------------------------------------------------------------
\* linked_buffer.c:132 says of the element that a read begins with: "We are in
\* the correct entry", that is, it begins at f_pos.
InCorrectEntry ==
    \A p \in Procs : pc[p] = "reading" =>
        LET first == {k \in 1 .. Len(buffer) :
                          Bytes(SubSeq(buffer, 1, k - 1)) >= fpos[p]}
        IN  first # {} => Bytes(SubSeq(buffer, 1, Min(first) - 1)) = fpos[p]

-----------------------------------------------------------------------------
chunk(n, c) == [length |-> n, contents |-> c]

\* A write of six bytes, one of one byte, and one that clears on the way.
MCRequests == { <<chunk(4, A), chunk(2, B)>>,
                <<chunk(1, C)>>,
                <<chunk(4, A), chunk(4, CLEAR), chunk(2, B)>> }
=============================================================================
