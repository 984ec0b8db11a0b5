------------------------------ MODULE Circular ------------------------------
(***************************************************************************)
(* cw03/modules/circular: /dev/circular, a buffer of buff_size bytes that  *)
(* writes go round, and /proc/circular, through which it is resized.       *)
(* There are no locks: a call is several steps between which others run,   *)
(* and the device can be used before circular_init is over.  A division by *)
(* buff_size = 0 and a copy outside the buffer end the model of the        *)
(* process that does it; what the kernel does then is not modelled.        *)
(***************************************************************************)
EXTENDS Integers, FiniteSets

CONSTANTS Procs,
          BUFF_INITIAL_SIZE,
          Sizes,        \* what may be written to /proc/circular
          Counts,       \* how many bytes a write may have
          NUL,          \* the byte 0
          MaxCalls      \* bound: calls per process

VARIABLES stage,            \* of the module: "out", "registered", "visible" (its
                            \* /proc entry is, it has no buffer yet) or "in"
          registered, proc_entry,
          buff, buff_size, buff_idx,
          f_pos,            \* of the file each process has open
          pc, local,        \* where each process is, its variables
          calls,            \* bound: calls made
          last, raced       \* history: the last write, if nothing disturbed it;
                            \* two changes of the size have overlapped

module == <<stage, registered, proc_entry>>
ring   == <<buff, buff_size, buff_idx>>
vars   == <<module, ring, f_pos, pc, local, calls, last, raced>>

\* count, count_inital: bytes left, and sent; num: the new size.  History: no
\* other call, and no resize, has overlapped with this one.
NoCall == [count |-> 0, count_inital |-> 0, num |-> 0, alone |-> TRUE, calm |-> TRUE]
NoWrite == [writer |-> NUL, count |-> 0]

\* No buffer: NULL, or what krealloc returns for the size 0.
NOBUFF == [k \in {} |-> NUL]

Init == /\ stage = "out" /\ registered = FALSE /\ proc_entry = FALSE
        /\ buff = NOBUFF /\ buff_size = 0 /\ buff_idx = 0
        /\ f_pos = [p \in Procs |-> 0]
        /\ pc = [p \in Procs |-> "user"]
        /\ local = [p \in Procs |-> NoCall]
        /\ calls = [p \in Procs |-> 0]
        /\ last = NoWrite
        /\ raced = FALSE

InDriver == {p \in Procs : pc[p] \notin {"user", "dead", "wild"}}
Resizing == {p \in Procs : pc[p] \in {"resizing", "resized"}}

\* The first n bytes of a buffer, and zeros behind it.
Reallocated(old, n) == [k \in 0 .. n - 1 |-> IF k \in DOMAIN old THEN old[k] ELSE NUL]

-----------------------------------------------------------------------------
\* The module goes: after a failed kmalloc, or with rmmod.  proc_remove waits
\* for those in /proc/circular, but nothing waits for those in /dev/circular:
\* the code they run is gone.
Gone ==
    /\ Resizing = {}
    /\ stage' = "out" /\ registered' = FALSE /\ proc_entry' = FALSE
    /\ buff' = NOBUFF /\ buff_size' = 0 /\ buff_idx' = 0
    /\ pc' = [p \in Procs |-> IF p \in InDriver THEN "dead" ELSE pc[p]]
    /\ local' = [p \in Procs |-> IF p \in InDriver THEN NoCall ELSE local[p]]
    /\ f_pos' = [p \in Procs |-> 0]
    /\ last' = NoWrite /\ raced' = FALSE
    /\ UNCHANGED calls

\* insmod registers the device, makes the /proc entry (without it the module
\* stays all the same, as result is 0, and has no buffer) ...
RegisterDevice == /\ stage = "out"
                  /\ stage' = "registered" /\ registered' = TRUE
                  /\ UNCHANGED <<proc_entry, ring, f_pos, pc, local, calls, last, raced>>
CreateEntry == /\ stage = "registered"
               /\ \/ stage' = "visible" /\ proc_entry' = TRUE
                  \/ stage' = "in" /\ UNCHANGED proc_entry
               /\ UNCHANGED <<registered, ring, f_pos, pc, local, calls, last, raced>>
\* ... and allocates the buffer and clears it, in one step here.
Kmalloc == /\ stage = "visible"
           /\ stage' = "in"
           /\ buff' = Reallocated(NOBUFF, BUFF_INITIAL_SIZE) /\ buff_size' = BUFF_INITIAL_SIZE
           /\ local' = [p \in Procs |-> [local[p] EXCEPT !.alone = @ /\ p \notin InDriver,
                                                          !.calm = @ /\ p \notin InDriver]]
           /\ last' = NoWrite
           /\ raced' = (raced \/ Resizing # {})
           /\ UNCHANGED <<registered, proc_entry, buff_idx, f_pos, pc, calls>>
KmallocFails  == stage = "visible" /\ Gone
circular_init == RegisterDevice \/ CreateEntry \/ Kmalloc \/ KmallocFails
circular_exit == stage = "in" /\ Gone

-----------------------------------------------------------------------------
\* A process enters the driver, and disturbs those that are in it.
Enter(p, to, call) ==
    /\ pc[p] = "user" /\ calls[p] < MaxCalls
    /\ pc' = [pc EXCEPT ![p] = to]
    /\ calls' = [calls EXCEPT ![p] = @ + 1]
    /\ LET resize == to = "resizing"
       IN  /\ local' = [q \in Procs |->
                  IF q = p
                  THEN [call EXCEPT !.alone = InDriver = {}, !.calm = Resizing = {}]
                  ELSE IF q \notin InDriver THEN local[q]
                  ELSE [local[q] EXCEPT !.alone = FALSE, !.calm = @ /\ ~resize]]
           /\ raced' = (raced \/ (resize /\ Resizing # {}))
Leave(p, to) == /\ pc' = [pc EXCEPT ![p] = to]
                /\ local' = [local EXCEPT ![p] = NoCall]
                /\ UNCHANGED <<calls, raced>>

Open(p) == /\ pc[p] = "user" /\ f_pos[p] # 0
           /\ f_pos' = [f_pos EXCEPT ![p] = 0]
           /\ UNCHANGED <<module, ring, pc, local, calls, last, raced>>

\* circular_read copies buff_size bytes, whatever the user asked for.
ReadBegin(p) == /\ registered /\ f_pos[p] < buff_size
                /\ Enter(p, "reading", [NoCall EXCEPT !.count = buff_size])
                /\ UNCHANGED <<module, ring, f_pos, last>>
ReadEnd(p) == /\ pc[p] = "reading"
              /\ \/ f_pos' = [f_pos EXCEPT ![p] = @ + local[p].count]
                 \/ UNCHANGED f_pos                        \* copy_to_user fails
              /\ Leave(p, "user")
              /\ UNCHANGED <<module, ring, last>>

Start(p) == (f_pos[p] + buff_idx) % buff_size

WriteBegin(p, n) ==
    /\ registered /\ buff_size # 0
    /\ Enter(p, "writing", [NoCall EXCEPT !.count = n, !.count_inital = n])
    /\ f_pos' = [f_pos EXCEPT ![p] = Start(p)]
    /\ UNCHANGED <<module, ring, last>>

Piece(p) == IF local[p].count + f_pos[p] >= buff_size
            THEN buff_size - f_pos[p] ELSE local[p].count

Target(p)   == f_pos[p] .. f_pos[p] + Piece(p) - 1
InBuffer(p) == Piece(p) >= 0 /\ Target(p) \subseteq DOMAIN buff

\* One turn of the loop: byte i of the message goes to f_pos + i.  A user page
\* that is missing gives zeros, which is as if zeros had been sent.
CopyPiece(p) ==
    /\ pc[p] = "writing" /\ local[p].count > 0 /\ buff_size # 0 /\ InBuffer(p)
    /\ LET done == local[p].count_inital - local[p].count
       IN  buff' = [k \in DOMAIN buff |->
                        IF k \in Target(p) THEN <<p, done + k - f_pos[p]>> ELSE buff[k]]
    /\ local' = [local EXCEPT ![p].count = @ - Piece(p)]
    /\ f_pos' = [f_pos EXCEPT ![p] = (@ + Piece(p)) % buff_size]
    /\ last' = NoWrite
    /\ UNCHANGED <<module, buff_size, buff_idx, pc, calls, raced>>

WriteEnd(p) ==
    /\ pc[p] = "writing" /\ local[p].count = 0
    /\ buff_idx' = f_pos[p]
    /\ last' = IF local[p].alone THEN [writer |-> p, count |-> local[p].count_inital]
               ELSE NoWrite
    /\ Leave(p, "user")
    /\ UNCHANGED <<module, buff, buff_size, f_pos>>

\* A division by zero, a copy to no buffer, or one that would leave the buffer.
\* (The first two stop the process, the last one may damage what lies there; if
\* sizes have raced before, nothing is claimed of it.)
Crash(p) ==
    /\ \/ pc[p] = "user" /\ registered /\ buff_size = 0 /\ calls[p] < MaxCalls
       \/ pc[p] = "writing" /\ local[p].count > 0 /\ (buff_size = 0 \/ ~InBuffer(p))
    /\ pc' = [pc EXCEPT ![p] = IF buff_size = 0 \/ buff = NOBUFF THEN "dead" ELSE "wild"]
    /\ local' = [local EXCEPT ![p].calm = @ /\ ~raced]
    /\ UNCHANGED <<module, ring, f_pos, calls, last, raced>>

\* circular_write_proc.  A number that cannot be parsed leaves num as it was on
\* the stack: any number.  krealloc may fail to grow, and then memset faults.
ResizeBegin(p, n) == /\ proc_entry
                     /\ Enter(p, "resizing", [NoCall EXCEPT !.num = n])
                     /\ UNCHANGED <<module, ring, f_pos, last>>

Krealloc(p) == /\ pc[p] = "resizing"
               /\ pc' = [pc EXCEPT ![p] = "resized"]
               /\ buff' = Reallocated(buff, local[p].num)
               /\ last' = NoWrite
               /\ UNCHANGED <<module, buff_size, buff_idx, f_pos, local, calls, raced>>
KreallocFails(p) == /\ pc[p] = "resizing" /\ local[p].num > buff_size
                    /\ pc' = [pc EXCEPT ![p] = "dead"]
                    /\ buff' = NOBUFF
                    /\ last' = NoWrite
                    /\ UNCHANGED <<module, buff_size, buff_idx, f_pos, local, calls, raced>>
ResizeEnd(p) == /\ pc[p] = "resized"
                /\ buff_size' = local[p].num
                /\ buff_idx' = IF buff_idx >= buff_size' THEN 0 ELSE buff_idx
                /\ Leave(p, "user")
                /\ UNCHANGED <<module, buff, f_pos, last>>

circular_read(p)  == ReadBegin(p) \/ ReadEnd(p)
circular_write(p) == \/ \E n \in Counts : WriteBegin(p, n)
                     \/ CopyPiece(p) \/ WriteEnd(p) \/ Crash(p)
circular_write_proc(p) == \/ \E n \in Sizes : ResizeBegin(p, n)
                          \/ Krealloc(p) \/ KreallocFails(p) \/ ResizeEnd(p)

Next == \/ circular_init \/ circular_exit
        \/ \E p \in Procs : \/ Open(p) \/ circular_read(p)
                            \/ circular_write(p) \/ circular_write_proc(p)

Spec == Init /\ [][Next]_vars

-----------------------------------------------------------------------------
\* However the writes overlap, a piece only leaves the buffer if the size changed, or
\* was to change, during the write, or two changes of the size (the one of circular_init among
\* them) have once overlapped and left buff_size larger than the buffer.
InBounds == \A p \in Procs : pc[p] = "wild" => ~local[p].calm

\* When nothing disturbed the last write, its bytes, as many as the buffer can
\* hold, are the ones before buff_idx, in order, going round its end.
LastWriteKept ==
    last # NoWrite =>
        \A k \in 1 .. last.count : k <= buff_size =>
            buff[(buff_idx - k + buff_size) % buff_size]
                = <<last.writer, last.count - k>>
=============================================================================
