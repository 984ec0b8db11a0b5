---------------------------- MODULE LooseBuffer ----------------------------
(***************************************************************************)
(* Three more drivers for /dev/linked: cw06/sync/spinlock/linked_buffer,   *)
(* which takes a rwlock for each access to the list, but neither for a     *)
(* whole write nor for total_length, and unlocks it once too often on an   *)
(* error path; its earlier version 111linked_buffer.c, which takes the     *)
(* rwlock for a whole write; and cw06/sync/linked_buffer, without any      *)
(* lock.  All chunks have length 1 here, and what a read copies is not     *)
(* looked at, only whether the chunks it walks over are still there (for   *)
(* the rest see LinkedBuffer).                                             *)
(***************************************************************************)
EXTENDS Integers, SequencesExt

CONSTANTS Procs,
          Requests,         \* what a write may be: sequences of DATA and CLEAR
          DATA, CLEAR, NONE,
          MaxCalls          \* bound: calls per process

VARIABLES locking,          \* the driver: "rwlock", "whole" (the earlier one) or "none"
          writer, readers,  \* who has locked my_rwlock
          buffer, live,     \* the list; the chunks that are not freed
          total_length,
          pc, local,        \* where each process is, its variables
          calls,            \* bound: calls made
          linked,           \* history: the chunks put into the list that no
                            \* clearing has taken out
          twoWrites, stray, damaged,    \* history: two writes have overlapped; a
                            \* process has unlocked another's lock; a chunk was
                            \* used after it was freed
          left              \* history: a write has returned with the lock

lock    == <<writer, readers>>
list    == <<buffer, live, linked>>
history == <<twoWrites, stray, damaged, left>>
vars    == <<locking, lock, list, total_length, pc, local, calls, history>>

\* msg: what is left to write; at: the chunk that a read, an insertion or a clearing
\* is at (NONE: the head of the list); ends: the chunks before and behind the one to be
\* deleted, as loaded; old: total_length as loaded.
NoCall == [msg |-> <<>>, at |-> NONE, ends |-> <<NONE, NONE>>, old |-> 0]

Init == /\ locking \in {"rwlock", "whole", "none"}
        /\ writer = NONE /\ readers = {}
        /\ buffer = <<>> /\ live = {} /\ linked = {} /\ total_length = 0
        /\ pc = [p \in Procs |-> "user"]
        /\ local = [p \in Procs |-> NoCall]
        /\ calls = [p \in Procs |-> 0]
        /\ twoWrites = FALSE /\ stray = FALSE /\ damaged = FALSE /\ left = FALSE

Writers == {p \in Procs : pc[p] \notin {"user", "read", "walking", "killed"}}

Goto(p, from, to) == pc[p] = from /\ pc' = [pc EXCEPT ![p] = to]
Return(p, from)   == Goto(p, from, "user") /\ local' = [local EXCEPT ![p] = NoCall]
Call(p, to)       == /\ calls[p] < MaxCalls
                     /\ Goto(p, "user", to)
                     /\ calls' = [calls EXCEPT ![p] = @ + 1]

write_lock(p)   == IF locking = "none" THEN UNCHANGED lock
                   ELSE /\ writer = NONE /\ readers = {}
                        /\ writer' = p /\ UNCHANGED readers
read_lock(p)    == IF locking = "none" THEN UNCHANGED lock
                   ELSE /\ writer = NONE
                        /\ readers' = readers \cup {p} /\ UNCHANGED writer
read_unlock(p)  == readers' = readers \ {p} /\ UNCHANGED writer
\* Whoever has the lock for writing loses it.
write_unlock(p) == /\ writer' = NONE /\ UNCHANGED readers
                   /\ stray' = (stray \/ writer \notin {NONE, p})

-----------------------------------------------------------------------------
\* linked_read goes from chunk to chunk and may stop at any of them, because it
\* has enough or because copy_to_user failed.
CallRead(p) == /\ Call(p, "read")
               /\ UNCHANGED <<locking, lock, list, total_length, local, history>>

Use(chunk) == damaged' = (damaged \/ (chunk # NONE /\ chunk \notin live))
PlaceIn(chunk) == CHOOSE i \in DOMAIN buffer : buffer[i] = chunk

\* Mutant: a read does not lock.
BeginReadUnlocked(p) == /\ Goto(p, "read", "walking")
                        /\ UNCHANGED <<locking, lock, list, total_length, local, calls,
                                       history>>
BeginRead(p) == /\ Goto(p, "read", "walking")
                /\ read_lock(p)
                /\ UNCHANGED <<locking, list, total_length, local, calls, history>>
\* The next of a chunk that is in the list, or has been.
NextRead(p) == LET at == local[p].at
                   k  == IF at = NONE THEN 0 ELSE IF at \in Range(buffer)
                         THEN PlaceIn(at) ELSE Len(buffer)
               IN  /\ pc[p] = "walking" /\ k < Len(buffer)
                   /\ Use(at)
                   /\ local' = [local EXCEPT ![p].at = buffer[k + 1]]
                   /\ UNCHANGED <<locking, lock, list, total_length, pc, calls,
                                  twoWrites, stray, left>>
EndRead(p) == /\ Return(p, "walking")
              /\ Use(local[p].at)
              /\ read_unlock(p)
              /\ UNCHANGED <<locking, list, total_length, calls, twoWrites, stray, left>>

-----------------------------------------------------------------------------
CallWrite(p, m) == /\ Call(p, "writing")
                   /\ local' = [local EXCEPT ![p].msg = m]
                   /\ twoWrites' = (twoWrites \/ Writers # {})
                   /\ UNCHANGED <<locking, lock, list, total_length, stray, damaged, left>>

\* list_add_tail, in two steps: the end of the list is looked up ...
\* Mutant: only the second step is locked.
FindTailUnlocked(p) ==
    /\ local[p].msg # <<>> /\ Head(local[p].msg) = DATA /\ locking # "whole"
    /\ Goto(p, "writing", "linking")
    /\ local' = [local EXCEPT ![p].at = IF buffer = <<>> THEN NONE ELSE Last(buffer)]
    /\ UNCHANGED <<locking, lock, list, total_length, calls, history>>
FindTail(p) == /\ local[p].msg # <<>> /\ Head(local[p].msg) = DATA
               /\ locking # "whole" /\ Goto(p, "writing", "linking")
               /\ write_lock(p)
               /\ local' = [local EXCEPT ![p].at = IF buffer = <<>> THEN NONE ELSE Last(buffer)]
               /\ UNCHANGED <<locking, list, total_length, calls, history>>

\* ... and the new chunk is made its next.  What that one's next was is lost.
Chunk(p) == <<p, calls[p], Len(local[p].msg)>>
Upto(at) == IF at = NONE THEN <<>> ELSE SubSeq(buffer, 1, PlaceIn(at))
LinkTo(p) == IF local[p].at = NONE \/ local[p].at \in Range(buffer)
             THEN Append(Upto(local[p].at), Chunk(p)) ELSE buffer
Link(p) == /\ Goto(p, "linking", "counting")
           /\ buffer' = LinkTo(p)
           /\ live' = live \cup {Chunk(p)} /\ linked' = linked \cup {Chunk(p)}
           /\ Use(local[p].at)
           /\ write_unlock(p)
           /\ UNCHANGED <<locking, total_length, local, calls, twoWrites, left>>

\* total_length += to_copy, unlocked.
LoadLength(p) == /\ Goto(p, "counting", "storing")
                 /\ local' = [local EXCEPT ![p].old = total_length]
                 /\ UNCHANGED <<locking, lock, list, total_length, calls, history>>
StoreLength(p) == /\ Goto(p, "storing", "writing")
                  /\ total_length' = local[p].old + 1
                  /\ local' = [local EXCEPT ![p].msg = Tail(@), ![p].at = NONE, ![p].old = 0]
                  /\ UNCHANGED <<locking, lock, list, calls, history>>

\* "xxx&": clean_list, chunk by chunk.  A turn of its loop loads the neighbours of the
\* chunk ...
ChunkAt(k) == IF k \in DOMAIN buffer THEN buffer[k] ELSE NONE
BeginClear(p) == /\ local[p].msg # <<>> /\ Head(local[p].msg) = CLEAR
                 /\ locking # "whole" /\ Goto(p, "writing", "clearing")
                 /\ write_lock(p)
                 /\ local' = [local EXCEPT ![p].at = ChunkAt(1)]
                 /\ UNCHANGED <<locking, list, total_length, calls, history>>
LoadEnds(p) == LET at == local[p].at IN
               /\ at \in Range(buffer)
               /\ Goto(p, "clearing", "deleting")
               /\ Use(at)
               /\ local' = [local EXCEPT ![p].ends = <<ChunkAt(PlaceIn(at) - 1),
                                                       ChunkAt(PlaceIn(at) + 1)>>]
               /\ UNCHANGED <<locking, lock, list, total_length, calls, twoWrites, stray, left>>
\* (one that has been taken out of the list has none, and the loop is taken to end) ...
LoseEnds(p) == /\ local[p].at \notin Range(buffer) \cup {NONE}
               /\ Goto(p, "clearing", "clearing")
               /\ Use(local[p].at)
               /\ local' = [local EXCEPT ![p].at = NONE]
               /\ UNCHANGED <<locking, lock, list, total_length, calls, twoWrites, stray, left>>
\* ... and makes them neighbours, whatever the list is by now, and frees the chunk.
From(at) == IF at = NONE THEN <<>>
            ELSE IF at \in Range(buffer) THEN SubSeq(buffer, PlaceIn(at), Len(buffer))
            ELSE <<at>>
Join(prev, next) == IF prev \in Range(buffer) \cup {NONE} THEN Upto(prev) \o From(next)
                    ELSE buffer
Delete(p) == LET at == local[p].at  prev == local[p].ends[1]  next == local[p].ends[2] IN
             /\ Goto(p, "deleting", "clearing")
             /\ buffer' = Join(prev, next)
             /\ live' = live \ {at} /\ linked' = linked \ {at}
             /\ damaged' = (damaged \/ ~({at, prev, next} \ {NONE} \subseteq live))
             /\ local' = [local EXCEPT ![p].at = next]
             /\ UNCHANGED <<locking, lock, total_length, calls, twoWrites, stray, left>>
EndClear(p) == /\ local[p].at = NONE
               /\ Goto(p, "clearing", "cleared")
               /\ write_unlock(p)
               /\ UNCHANGED <<locking, list, total_length, local, calls, twoWrites, damaged, left>>
ResetLength(p) == /\ Goto(p, "cleared", "failed")
                  /\ total_length' = 0
                  /\ UNCHANGED <<locking, lock, list, local, calls, history>>

\* copy_from_user fails, or the list was cleared: err_contents unlocks a lock
\* that this call does not hold.  (The driver without locks does not.)
CopyFails(p) == /\ local[p].msg # <<>> /\ locking # "whole"
                /\ Goto(p, "writing", "failed")
                /\ UNCHANGED <<locking, lock, list, total_length, local, calls, history>>
err_contents(p) == /\ Return(p, "failed")
                   /\ IF locking = "none" THEN UNCHANGED <<lock, stray>> ELSE write_unlock(p)
                   /\ UNCHANGED <<locking, list, total_length, calls, twoWrites, damaged, left>>

\* All is written, or there is no memory for the next chunk.
EndWrite(p) == /\ locking # "whole" /\ Return(p, "writing")
               /\ UNCHANGED <<locking, lock, list, total_length, calls, history>>

-----------------------------------------------------------------------------
\* The earlier version.  It makes room for the message and its chunks first, and does
\* not look whether there is any; an empty message has no room for a chunk's address.
NoRoom(p) == /\ locking = "whole" /\ Goto(p, "writing", "killed")
             /\ UNCHANGED <<locking, lock, list, total_length, local, calls, history>>
LockWrite(p) == /\ locking = "whole" /\ Goto(p, "writing", "locked")
                /\ write_lock(p)
                /\ UNCHANGED <<locking, list, total_length, local, calls, history>>

\* memcpy returns where it has copied to, and this is taken for an error before the
\* first chunk is in the list.  If there is no chunk the lock is not given back.
memcpy(p)   == /\ Goto(p, "locked", "failed")
               /\ UNCHANGED <<locking, lock, list, total_length, local, calls, history>>
err_data(p) == /\ Return(p, "locked")
               /\ left' = TRUE
               /\ UNCHANGED <<locking, lock, list, total_length, calls, twoWrites, stray,
                              damaged>>

linked_read(p)  == CallRead(p) \/ BeginRead(p) \/ NextRead(p) \/ EndRead(p)
linked_write(p) == \/ \E m \in Requests : CallWrite(p, m)
                   \/ FindTail(p) \/ Link(p) \/ LoadLength(p) \/ StoreLength(p)
                   \/ BeginClear(p) \/ LoadEnds(p) \/ LoseEnds(p)
                   \/ Delete(p) \/ EndClear(p) \/ ResetLength(p)
                   \/ CopyFails(p) \/ err_contents(p) \/ EndWrite(p)
                   \/ NoRoom(p) \/ LockWrite(p) \/ memcpy(p) \/ err_data(p)

\* Everybody is done, or waits for a lock that nobody gives back.
Stopped == /\ \A p \in Procs :
                  \/ pc[p] = "killed"
                  \/ pc[p] = "user" /\ calls[p] = MaxCalls
                  \/ left /\ pc[p] \in {"read", "writing"}
           /\ UNCHANGED vars

Next == (\E p \in Procs : linked_read(p) \/ linked_write(p)) \/ Stopped

Spec == Init /\ [][Next]_vars
-----------------------------------------------------------------------------
\* Nothing has disturbed a write: no lock was broken and, without one, no two have met.
Apart == ~stray /\ (locking = "none" => ~twoWrites)

\* Until somebody unlocks another's lock, the rwlock has its holders right and
\* keeps writers apart from everybody; while writes are kept apart the list never holds
\* a freed chunk, nor one twice.  (Two clearings without a lock do leave a freed chunk in
\* it: the neighbours that one of them has loaded are freed by the other.)  With one
\* lock for a whole write nothing ever gets into the list, and after a write without
\* memory nobody ever gets the lock.
IInv ==
    /\ Apart => Range(buffer) \subseteq live \cap linked /\ IsInjective(buffer)
    /\ writer = NONE \/ readers = {} \/ stray
    /\ locking = "none" => writer = NONE /\ readers = {} /\ ~stray
    /\ locking # "none" => \A p \in Procs : pc[p] = "walking" <=> p \in readers
    /\ locking = "rwlock" /\ ~stray => \A p \in Procs :
           pc[p] \in {"linking", "clearing", "deleting"} <=> writer = p
    /\ locking = "whole" =>
           /\ linked = {} /\ total_length = 0 /\ ~stray /\ ~damaged
           /\ ~left => \A p \in Procs : pc[p] \in {"locked", "failed"} <=> writer = p
    /\ left => writer # NONE /\ \A p \in Procs : pc[p] \notin {"walking", "locked", "failed"}

\* No call touches a chunk after a clearing has freed it, as long as the rwlock is
\* not broken: the unlock too many of err_contents is harmless unless it hits
\* another's lock, and for that two writes have to overlap.
NoUseAfterFree ==
    /\ damaged => locking = "none" \/ stray
    /\ stray => twoWrites

\* No chunk that was put into the list drops out of it, however writes and reads
\* overlap; without the lock, unless two writes do.
NoChunkLost == Apart => linked \subseteq Range(buffer)

\* When no write is going on, total_length is the length of the list, unless two
\* writes have overlapped: then it may be wrong for good, with either driver.
LengthAtRest == Writers = {} /\ ~twoWrites => total_length = Len(buffer)
=============================================================================
