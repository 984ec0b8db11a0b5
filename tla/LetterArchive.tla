---------------------------- MODULE LetterArchive ---------------------------
(***************************************************************************)
(* What cw01/zad2 promises: letters are archived in the order in which     *)
(* they were handed in, none lost and none twice, and they become visible  *)
(* Batch letters at a time.                                                *)
(***************************************************************************)
EXTENDS Naturals, Sequences

CONSTANTS Batch, Items

VARIABLES log,      \* every letter handed in, oldest first
          visible   \* how many of them a reader may see

Init == log = <<>> /\ visible = 0

HandIn(v) == log' = Append(log, v) /\ UNCHANGED visible

Publish == /\ visible + Batch <= Len(log)
           /\ visible' = visible + Batch
           /\ UNCHANGED log

Next == (\E v \in Items : HandIn(v)) \/ Publish

Spec == Init /\ [][Next]_<<log, visible>>
=============================================================================
