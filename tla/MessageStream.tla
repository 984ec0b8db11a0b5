---------------------------- MODULE MessageStream ----------------------------
(***************************************************************************)
(* What /dev/simple (cw06/sync) promises once it is locked: the message,   *)
(* repeated for ever, is a stream whose bytes are handed out in order, and *)
(* each read takes the next ones, as many as asked for, but never past the *)
(* end of a copy of the message.                                           *)
(***************************************************************************)
EXTENDS Integers, Sequences

CONSTANTS Procs, msg_len, Counts

VARIABLES next,     \* the first byte of the stream not handed out
          taken     \* the bytes that each process's read has taken

Init == next = 0 /\ taken = [p \in Procs |-> <<>>]

Take(p, count) ==
    LET left   == msg_len - (next % msg_len)
        length == IF count < left THEN count ELSE left
    IN  /\ taken[p] = <<>>
        /\ taken' = [taken EXCEPT ![p] = [i \in 1 .. length |-> next + i - 1]]
        /\ next' = next + length

Return(p) == taken' = [taken EXCEPT ![p] = <<>>] /\ UNCHANGED next

Next == \E p \in Procs : Return(p) \/ \E count \in Counts : Take(p, count)

Spec == Init /\ [][Next]_<<next, taken>>
=============================================================================
