---------------------------- MODULE BatchBuffer -----------------------------
(***************************************************************************)
(* What cw01/zad6 promises: letters are collected into batches of exactly  *)
(* Size; a full batch is handed out, in the order it was filled, to the    *)
(* last letter before the next one is begun.                               *)
(***************************************************************************)
EXTENDS Naturals, Sequences

CONSTANTS Size, Items

VARIABLES batch, filling

Init == batch = <<>> /\ filling = TRUE

Put(v) == /\ filling
          /\ batch' = Append(batch, v)
          /\ filling' = (Len(batch') < Size)

Take == /\ ~filling
        /\ batch' = Tail(batch)
        /\ filling' = (batch' = <<>>)

Next == (\E v \in Items : Put(v)) \/ Take

Spec == Init /\ [][Next]_<<batch, filling>>
=============================================================================
