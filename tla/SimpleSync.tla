----------------------------- MODULE SimpleSync -----------------------------
(***************************************************************************)
(* cw06/sync/*/simple_sync: /dev/simple hands out a message that has no    *)
(* end, msg_pos being the first byte not handed out.  The four copies of   *)
(* simple_module.c differ in what they lock around the use of msg_pos.  A  *)
(* byte is known by its place in the stream: k is msg_str[k % msg_len].    *)
(***************************************************************************)
EXTENDS Integers, Sequences, FiniteSets

CONSTANTS Procs,
          msg_len,
          Counts,       \* how many bytes a process may ask for
          NOMEM,         \* what kmalloc returns when it fails
          MaxReads      \* bound: reads per process

ASSUME Lengths == /\ msg_len \in Nat \ {0} /\ Counts \subseteq Nat
                  /\ IsFiniteSet(Procs) /\ MaxReads \in Nat
                  /\ NOMEM \notin Seq(Nat)

VARIABLES locking,          \* which of the four is inserted (all have major 198)
          some_lock,             \* my_mutex, my_sem or some_lock: 1 when free
          msg_pos,
          phase,               \* where each process is; "user" outside the driver
          local,            \* the variables of its read
          reads,            \* bound: reads begun
          handed, failed    \* history: how often byte k was handed out; that
                            \* an allocation has failed

history == <<reads, handed, failed>>
simpleVars    == <<locking, some_lock, msg_pos, phase, local, history>>

LastByte == Cardinality(Procs) * MaxReads * msg_len     \* bound

\* old: the value of msg_pos that is being incremented
NoCall == [count |-> 0, length_to_copy |-> 0, local_buf |-> <<>>, old |-> 0]

SimpleInit == /\ locking \in {"none", "mutex", "semaphore", "spinlock"}
        /\ some_lock = 1
        /\ msg_pos = 0
        /\ phase = [p \in Procs |-> "user"]
        /\ local = [p \in Procs |-> NoCall]
        /\ reads = [p \in Procs |-> 0]
        /\ handed = [k \in 0 .. LastByte |-> 0]
        /\ failed = FALSE

Moves(p, from, to) == phase[p] = from /\ phase' = [phase EXCEPT ![p] = to]
Returns(p, from)   == Moves(p, from, "user") /\ local' = [local EXCEPT ![p] = NoCall]
Buffers           == {<<>>, NOMEM}

\* Only the spinlock variant allocates before it locks.
Read(p, n) == /\ Moves(p, "user", "locking")
              /\ reads[p] < MaxReads
              /\ reads' = [reads EXCEPT ![p] = @ + 1]
              /\ \E buf \in IF locking = "spinlock" THEN Buffers ELSE {<<>>} :
                    local' = [local EXCEPT ![p].count = n, ![p].local_buf = buf]
              /\ UNCHANGED <<locking, some_lock, msg_pos, handed, failed>>

\* Mutant: the lock is not waited for.
AcquireAnyway(p) == /\ Moves(p, "locking", "measuring")
                    /\ some_lock' = IF locking = "none" THEN 1 ELSE 0
                    /\ UNCHANGED <<locking, msg_pos, local, history>>
Acquire(p) == /\ Moves(p, "locking", "measuring")
              /\ some_lock = 1
              /\ some_lock' = IF locking = "none" THEN 1 ELSE 0
              /\ UNCHANGED <<locking, msg_pos, local, history>>

\* down_interruptible: a signal ends the wait and the call with -EINTR.
Interrupted(p) == /\ locking = "semaphore"
                  /\ Returns(p, "locking")
                  /\ UNCHANGED <<locking, some_lock, msg_pos, history>>

\* Mutant: as much as was asked for, even past the end of the message.
LengthAsked(p) == local[p].count
Length(p) == LET left == msg_len - (msg_pos % msg_len)
             IN  IF left > local[p].count THEN local[p].count ELSE left

Measure(p) ==
    /\ Moves(p, "measuring", "copying")
    /\ local[p].local_buf # NOMEM
    /\ local' = [local EXCEPT ![p].length_to_copy = Length(p)]
    /\ UNCHANGED <<locking, some_lock, msg_pos, history>>

\* "goto cleanup" after a failed allocation jumps over the unlock.
NoMemory(p) == /\ Returns(p, "measuring")
               /\ locking = "spinlock" => local[p].local_buf = NOMEM
               /\ failed' = TRUE
               /\ UNCHANGED <<locking, some_lock, msg_pos, reads, handed>>

Unfinished(p) == Len(local[p].local_buf) < local[p].length_to_copy

\* local_buf[i] = msg_str[(msg_pos++) % msg_len]: the read of msg_pos, and
LoadPos(p) == /\ Moves(p, "copying", "storing")
              /\ Unfinished(p)
              /\ local' = [local EXCEPT ![p].old = msg_pos]
              /\ UNCHANGED <<locking, some_lock, msg_pos, history>>

\* ... the write of msg_pos, with the byte.
Following(p) == local[p].old + 1

StorePos(p) == /\ Moves(p, "storing", "copying")
               /\ msg_pos' = Following(p)
               /\ local' = [local EXCEPT ![p].local_buf = Append(@, local[p].old)]
               /\ handed' = [handed EXCEPT ![local[p].old] = @ + 1]
               /\ UNCHANGED <<locking, some_lock, reads, failed>>

\* Mutant: the lock is kept.
ReleaseForgotten(p) == /\ Moves(p, "copying", "sending")
                       /\ ~Unfinished(p)
                       /\ UNCHANGED <<locking, some_lock, msg_pos, local, history>>
Release(p) == /\ Moves(p, "copying", "sending")
              /\ ~Unfinished(p)
              /\ some_lock' = 1
              /\ UNCHANGED <<locking, msg_pos, local, history>>

\* copy_to_user, kfree and return; err < 0 is never true, so a fault is not
\* noticed and the bytes count as delivered.
Send(p) == Returns(p, "sending") /\ UNCHANGED <<locking, some_lock, msg_pos, history>>

simple_read(p) == \/ Acquire(p) \/ Measure(p) \/ NoMemory(p)
                  \/ LoadPos(p) \/ StorePos(p) \/ Release(p) \/ Send(p)

\* Nobody reads any more, but those who wait for ever for a lost lock.
Ended(p) == phase[p] = "user" /\ reads[p] = MaxReads
Stuck(p) == phase[p] = "locking" /\ some_lock = 0 /\ failed
Stopped  == (\A p \in Procs : Ended(p) \/ Stuck(p)) /\ UNCHANGED simpleVars

SimpleNext == \/ \E p \in Procs : \/ simple_read(p) \/ Interrupted(p)
                            \/ \E n \in Counts : Read(p, n)
        \/ Stopped

SimpleSpec == SimpleInit /\ [][SimpleNext]_simpleVars

\* A process in the driver runs, and the mutex and the semaphore queue their
\* waiters, so a waiter does not starve.  Nobody has to read or send a signal.
FairSpec == /\ SimpleSpec
            /\ \A p \in Procs : WF_simpleVars(simple_read(p)) /\ SF_simpleVars(Acquire(p))

-----------------------------------------------------------------------------
Holders == {p \in Procs : phase[p] \in {"measuring", "copying", "storing"}}

\* Known places, and no position beyond what the reads can have asked for.
SimpleTypeOK == /\ locking \in {"none", "mutex", "semaphore", "spinlock"}
          /\ some_lock \in {0, 1}
          /\ msg_pos \in 0 .. LastByte
          /\ phase \in [Procs -> {"user", "locking", "measuring", "copying",
                               "storing", "sending"}]
          /\ local \in [Procs -> [count : Nat, length_to_copy : Nat, old : 0 .. LastByte,
                                  local_buf : Seq(Nat) \cup {NOMEM}]]
          /\ reads \in [Procs -> 0 .. MaxReads] /\ failed \in BOOLEAN
          /\ handed \in [0 .. LastByte -> Nat]

\* The buffer of a read that has begun to copy is there, and is filled up to the
\* length found, which is not more than a message.
BufferConsistent ==
    \A p \in Procs :
        /\ phase[p] # "user" => reads[p] > 0 /\ local[p].count \in Counts
        /\ phase[p] \in {"user", "locking", "measuring"} => local[p].local_buf \in Buffers
        /\ phase[p] \in {"copying", "storing", "sending"} =>
              /\ local[p].local_buf # NOMEM
              /\ Len(local[p].local_buf) <= local[p].length_to_copy
              /\ local[p].length_to_copy <= msg_len
        /\ phase[p] = "storing" => Unfinished(p)
        /\ phase[p] = "sending" => ~Unfinished(p)

\* Every increment of msg_pos that there was belongs to a byte of a read; msg_pos and
\* what a read has loaded of it are not more than there were increments.
Stored == {b \in Procs \X (1 .. MaxReads) \X (1 .. msg_len) :
              \/ b[2] < reads[b[1]]
              \/ /\ b[2] = reads[b[1]]
                 /\ phase[b[1]] \in {"copying", "storing", "sending"}
                       => b[3] <= Len(local[b[1]].local_buf)
                 /\ phase[b[1]] \notin {"locking", "measuring"}}
PositionBounded == /\ msg_pos <= Cardinality(Stored)
                   /\ \A p \in Procs : local[p].old <= Cardinality(Stored)

\* Every byte before msg_pos has been handed out, and before what a read has loaded
\* of it: even the unlocked msg_pos++, which may hand out a byte twice and send
\* msg_pos back, never skips one.
NoByteSkipped ==
    \A k \in 0 .. LastByte :
        k < msg_pos \/ (\E p \in Procs : k < local[p].old) => handed[k] > 0

\* The lock, where there is one, keeps the others out from the look at msg_pos
\* to the last byte, and nothing but a failed allocation leaves it locked.
LockConsistent == locking # "none" => /\ \A p, q \in Holders : p = q
                                      /\ Holders # {} => some_lock = 0
                                      /\ some_lock = 0 => Holders # {} \/ failed

\* So a read that has copied some bytes under the lock has the last ones before
\* msg_pos, and its length is right for the first of them.
Begun(p) == msg_pos - Len(local[p].local_buf)
ReadConsistent ==
    locking # "none" => \A p \in Procs :
        /\ phase[p] \in {"copying", "storing"} =>
              /\ Begun(p) >= 0
              /\ \A i \in DOMAIN local[p].local_buf :
                    local[p].local_buf[i] = Begun(p) + i - 1
              /\ local[p].length_to_copy =
                    LET left == msg_len - (Begun(p) % msg_len)
                    IN  IF local[p].count < left THEN local[p].count ELSE left
        /\ phase[p] = "storing" => local[p].old = msg_pos

\* The types, the buffers, msg_pos and the lock together.
SimpleInv == /\ SimpleTypeOK /\ BufferConsistent /\ PositionBounded /\ NoByteSkipped
        /\ LockConsistent /\ ReadConsistent

\* With any of the three locks a read takes its bytes at one instant.  Without
\* one nothing is promised, and the mapping shows nothing.
Copying == {p \in Procs : phase[p] \in {"copying", "storing"}}
InProgress == IF Copying = {} THEN 0
              ELSE Len(local[CHOOSE p \in Copying : TRUE].local_buf)
Due    == IF locking = "none" THEN 0 ELSE msg_pos - InProgress
Taken  == [p \in Procs |-> IF locking # "none" /\ phase[p] = "sending"
                           THEN local[p].local_buf ELSE <<>>]
Stream == INSTANCE MessageStream WITH next <- Due, taken <- Taken
ImplementsStream == Stream!Spec

\* Every read returns, unless one has failed for want of memory: then the lock
\* is lost and the next reader waits for ever.  (The spinlock is left out: its
\* holder sleeps, and the kernel promises nothing to those who spin for it.)
EveryReadReturns ==
    \A p \in Procs : phase[p] # "user" /\ locking # "spinlock"
                         ~> (phase[p] = "user" \/ failed)
=============================================================================
