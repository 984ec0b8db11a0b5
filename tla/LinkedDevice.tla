---------------------------- MODULE LinkedDevice ----------------------------
(***************************************************************************)
(* What /dev/linked (cw06/sync) promises its users once it is locked: a    *)
(* log of chunks on which every read and every write acts at one instant.  *)
(* A write appends its chunks together, or those before the one that       *)
(* failed, or empties the log when it meets the CLEAR chunk; a read hands  *)
(* out consecutive chunks from the first one at or after the file position *)
(* and cuts the last one to the size of the user's buffer.                 *)
(***************************************************************************)
EXTENDS Integers, SequencesExt

CONSTANTS Procs,
          Requests,     \* what a process may write: sequences of chunks
          Counts,       \* the sizes of the buffers it may read into
          CLEAR         \* the contents "xxx&"

VARIABLES log, pos,     \* the chunks, and each process's file position
          out           \* what each process's last read returned

\* How long the first k chunks are, and all of them.
Sums(chunks) ==
    LET sum[k \in 0 .. Len(chunks)] ==
            IF k = 0 THEN 0 ELSE sum[k - 1] + chunks[k].length
    IN  sum
Bytes(chunks) == Sums(chunks)[Len(chunks)]

Init == /\ log = <<>>
        /\ pos = [p \in Procs |-> 0]
        /\ out = [p \in Procs |-> <<>>]

\* The chunks before the first CLEAR.
Plain(m) == {k \in 0 .. Len(m) : \A i \in 1 .. k : m[i].contents # CLEAR}

Write(p, m) ==
    /\ m \in Requests
    /\ \/ /\ Len(m) \in Plain(m)
          /\ log' = log \o m
          /\ pos' = [pos EXCEPT ![p] = @ + Bytes(m)]
       \/ \E k \in Plain(m) \ {Len(m)} :
              log' = log \o SubSeq(m, 1, k) /\ UNCHANGED pos
       \/ \E k \in Plain(m) \ {Len(m)} :
              /\ m[k + 1].contents = CLEAR
              /\ log' = <<>>
              /\ pos' = [pos EXCEPT ![p] = @ + Bytes(SubSeq(m, 1, k))]
    /\ UNCHANGED out

Read(p, count) ==
    LET from == {i \in 1 .. Len(log) : Bytes(SubSeq(log, 1, i - 1)) >= pos[p]}
        i    == Min(from)
        to   == {j \in i .. Len(log) : Bytes(SubSeq(log, i, j)) >= count}
        j    == IF to = {} THEN Len(log) ELSE Min(to)
        room == count - Bytes(SubSeq(log, i, j - 1))
    IN  /\ IF from = {}
           THEN out' = [out EXCEPT ![p] = <<>>] /\ UNCHANGED pos
           ELSE /\ out' = [out EXCEPT ![p] = Append(SubSeq(log, i, j - 1),
                             [log[j] EXCEPT !.length = Min({@, room})])]
                /\ pos' = [pos EXCEPT ![p] = @ + Bytes(SubSeq(log, i, j))]
        /\ UNCHANGED log

Next == \E p \in Procs : \/ \E m \in Requests : Write(p, m)
                         \/ \E count \in Counts : Read(p, count)

Spec == Init /\ [][Next]_<<log, pos, out>>
=============================================================================
