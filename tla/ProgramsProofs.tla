--------------------------- MODULE ProgramsProofs ---------------------------
(***************************************************************************)
(* The programs of Programs, for any processes and any sizes: first each   *)
(* by itself, /dev/circular, /dev/linked with its rwlock or none,          *)
(* /dev/prname and /dev/mountderef, /dev/broken, three system calls,       *)
(* soft-dirty bits, oom_score_adj, /proc/kcore and /proc/vmcore; then all  *)
(* of them, and with that the properties that the run checks.              *)
(***************************************************************************)
EXTENDS Programs, FiniteSetTheorems, SequenceTheorems,
        WellFoundedInduction, TLAPS

(***************************************************************************)
(* cw03/modules/circular: what is written stays in the buffer.             *)
(***************************************************************************)
\* The slots that are its variables.
stage      == x8
registered == x4
proc_entry == x9
buff       == x10
buff_size  == x11
buff_idx   == x12
f_pos      == x5
place      == x1
frame      == x2
calls      == x3
last       == x6
raced      == x7
USE DEF stage, registered, proc_entry, buff, buff_size, buff_idx, f_pos, place, frame,
        calls, last, raced

RingLabels == {"user", "reading", "writing", "resizing", "resized", "dead", "wild"}
RingCall   == [count : Nat, count_inital : Nat, num : Nat, alone : BOOLEAN, calm : BOOLEAN]

\* The types.
RingTypeOK == /\ buff_size \in Nat /\ buff_idx \in Nat
              /\ f_pos \in [Callers -> Nat]
              /\ place \in [Callers -> RingLabels]
              /\ frame \in [Callers -> RingCall]
              /\ raced \in BOOLEAN

\* A buffer, if there is one, has n bytes.
HasSize(n) == buff = Circ!NOBUFF \/ DOMAIN buff = 0 .. n - 1

\* Unless changes of the size have overlapped, at most one process changes it, it is
\* the one that knows the length of the new buffer, and without it buff_size is the length.
SizesAgree == ~raced =>
    /\ Circ!Resizing = {} => HasSize(buff_size)
    /\ \A p, q \in Circ!Resizing : p = q
    /\ \A p \in Callers : place[p] = "resized" => HasSize(frame[p].num)

\* Who is alone in the driver is, and nothing changes the size during a calm call.
Undisturbed == \A p \in Circ!InDriver :
                  /\ frame[p].alone => Circ!InDriver = {p} /\ frame[p].calm
                  /\ place[p] = "writing" /\ frame[p].calm => Circ!Resizing = {}

\* The place of the byte k places before f.
Back(f, k) == (f - k + buff_size) % buff_size

\* What a write that is alone has sent so far, as far as the buffer holds it, is before
\* its position.
Sent(p) == LET done == frame[p].count_inital - frame[p].count
           IN  /\ done >= 0
               /\ \A k \in 1 .. done : k <= buff_size =>
                     /\ Back(f_pos[p], k) \in DOMAIN buff
                     /\ buff[Back(f_pos[p], k)] = <<p, done - k>>
Writes == \A p \in Callers : place[p] = "writing" =>
              /\ frame[p].calm => f_pos[p] \in 0 .. buff_size - 1
              /\ frame[p].alone => Sent(p)

\* A buffer of a new length has no last write.
Unsized == (\E p \in Callers : place[p] = "resized") => last = Circ!NoWrite

RingInv == /\ RingTypeOK /\ SizesAgree /\ Undisturbed /\ Writes /\ Unsized
           /\ Circ!InBounds /\ Circ!LastWriteKept

\* The steps of the module and of its callers.
LEMMA RingSteps ==
    ASSUME [Circ!Next]_(Circ!vars)
    PROVE  \/ Circ!RegisterDevice \/ Circ!CreateEntry \/ Circ!Kmalloc \/ Circ!Gone
           \/ \E p \in Callers : \/ Circ!Open(p) \/ Circ!ReadBegin(p) \/ Circ!ReadEnd(p)
                                 \/ \E n \in WriteLengths : Circ!WriteBegin(p, n)
                                 \/ Circ!CopyPiece(p) \/ Circ!WriteEnd(p) \/ Circ!Crash(p)
                                 \/ \E n \in RingSizes : Circ!ResizeBegin(p, n)
                                 \/ Circ!Krealloc(p) \/ Circ!KreallocFails(p) \/ Circ!ResizeEnd(p)
           \/ UNCHANGED Circ!vars
BY DEF Circ!Next, Circ!circular_init, Circ!circular_exit, Circ!KmallocFails,
     Circ!circular_read, Circ!circular_write,
       Circ!circular_write_proc

\* % for a number less than twice the size.
LEMMA RingMod ==
    ASSUME NEW s \in Nat \ {0}, NEW x \in 0 .. 2 * s - 1
    PROVE  x % s = IF x < s THEN x ELSE x - s
BY Z3

\* What is left of a modulus is a place of the buffer.
LEMMA RingRange ==
    ASSUME NEW s \in Nat \ {0}, NEW x \in Nat
    PROVE  x % s \in 0 .. s - 1
BY Z3

\* A call is made with the types of its variables.
LEMMA EnterTypes ==
    ASSUME NEW p \in Callers, NEW to \in RingLabels, NEW call \in RingCall, RingTypeOK,
           Circ!Enter(p, to, call)
    PROVE  place' \in [Callers -> RingLabels] /\ frame' \in [Callers -> RingCall] /\ raced' \in BOOLEAN
<1>1. [call EXCEPT !.alone = Circ!InDriver = {}, !.calm = Circ!Resizing = {}] \in RingCall
  BY DEF RingCall
<1>2. ASSUME NEW q \in Callers
      PROVE  [frame[q] EXCEPT !.alone = FALSE, !.calm = @ /\ ~(to = "resizing")] \in RingCall
  BY DEF RingTypeOK, RingCall
<1> QED  BY <1>1, <1>2 DEF Circ!Enter, RingTypeOK

\* A piece is not longer than what is left of the message.
LEMMA PieceFits ==
    ASSUME NEW p \in Callers, RingTypeOK
    PROVE  Circ!Piece(p) \in Int /\ Circ!Piece(p) <= frame[p].count
BY DEF Circ!Piece, RingTypeOK, RingCall

\* The types are kept.
LEMMA RingTypes ==
    ASSUME RingBounds, RingTypeOK, [Circ!Next]_(Circ!vars)
    PROVE  RingTypeOK'
<1>1. CASE Circ!RegisterDevice
  BY <1>1 DEF Circ!RegisterDevice, Circ!module, Circ!ring, RingTypeOK
<1>2. CASE Circ!CreateEntry
  BY <1>2 DEF Circ!CreateEntry, Circ!module, Circ!ring, RingTypeOK
<1>3. CASE Circ!Kmalloc
  <2>1. ASSUME NEW p \in Callers
        PROVE  [frame[p] EXCEPT !.alone = @ /\ p \notin Circ!InDriver,
                                !.calm = @ /\ p \notin Circ!InDriver] \in RingCall
    BY DEF RingTypeOK, RingCall
  <2> QED  BY <1>3, <2>1 DEF Circ!Kmalloc, RingTypeOK, RingBounds
<1>4. CASE Circ!Gone
  BY <1>4 DEF Circ!Gone, Circ!InDriver, RingTypeOK, Circ!NoCall, RingCall, RingLabels
<1>5. ASSUME NEW p \in Callers, Circ!Open(p)
      PROVE  RingTypeOK'
  BY <1>5 DEF Circ!Open, Circ!module, Circ!ring, RingTypeOK
<1>6. ASSUME NEW p \in Callers, Circ!ReadBegin(p)
      PROVE  RingTypeOK'
  <2>1. [Circ!NoCall EXCEPT !.count = buff_size] \in RingCall
    BY DEF Circ!NoCall, RingCall, RingTypeOK
  <2> QED  BY <1>6, <2>1, EnterTypes DEF Circ!ReadBegin, RingTypeOK, RingLabels,
       Circ!module, Circ!ring
<1>7. ASSUME NEW p \in Callers, Circ!ReadEnd(p)
      PROVE  RingTypeOK'
  BY <1>7 DEF Circ!ReadEnd, Circ!Leave, Circ!module, Circ!ring, RingTypeOK, Circ!NoCall,
       RingCall, RingLabels
<1>8. ASSUME NEW p \in Callers, NEW n \in WriteLengths, Circ!WriteBegin(p, n)
      PROVE  RingTypeOK'
  <2>1. [Circ!NoCall EXCEPT !.count = n, !.count_inital = n] \in RingCall
    BY DEF Circ!NoCall, RingCall, RingBounds
  <2>2. Circ!Start(p) \in Nat
    BY <1>8, RingRange DEF Circ!Start, Circ!WriteBegin, RingTypeOK
  <2> QED  BY <1>8, <2>1, <2>2, EnterTypes DEF Circ!WriteBegin, RingTypeOK, RingLabels,
       Circ!module, Circ!ring
<1>9. ASSUME NEW p \in Callers, Circ!CopyPiece(p)
      PROVE  RingTypeOK'
  <2>1. [frame[p] EXCEPT !.count = @ - Circ!Piece(p)] \in RingCall
    BY PieceFits DEF RingTypeOK, RingCall
  <2>2. (f_pos[p] + Circ!Piece(p)) % buff_size \in Nat
    BY <1>9, PieceFits, RingRange DEF Circ!CopyPiece, Circ!InBuffer, RingTypeOK
  <2> QED  BY <1>9, <2>1, <2>2 DEF Circ!CopyPiece, RingTypeOK, Circ!module
<1>10. ASSUME NEW p \in Callers, Circ!WriteEnd(p)
      PROVE  RingTypeOK'
  BY <1>10 DEF Circ!WriteEnd, Circ!Leave, Circ!module, RingTypeOK, Circ!NoCall, RingCall,
       RingLabels
<1>11. ASSUME NEW p \in Callers, Circ!Crash(p)
      PROVE  RingTypeOK'
  <2>1. [frame[p] EXCEPT !.calm = @ /\ ~raced] \in RingCall
    BY DEF RingTypeOK, RingCall
  <2> QED  BY <1>11, <2>1 DEF Circ!Crash, RingTypeOK, RingLabels, Circ!module, Circ!ring
<1>12. ASSUME NEW p \in Callers, NEW n \in RingSizes, Circ!ResizeBegin(p, n)
      PROVE  RingTypeOK'
  <2>1. [Circ!NoCall EXCEPT !.num = n] \in RingCall
    BY DEF Circ!NoCall, RingCall, RingBounds
  <2> QED  BY <1>12, <2>1, EnterTypes DEF Circ!ResizeBegin, RingTypeOK, RingLabels,
       Circ!module, Circ!ring
<1>13. ASSUME NEW p \in Callers, Circ!Krealloc(p)
      PROVE  RingTypeOK'
  BY <1>13 DEF Circ!Krealloc, Circ!module, RingTypeOK, Circ!NoCall, RingCall, RingLabels
<1>14. ASSUME NEW p \in Callers, Circ!KreallocFails(p)
      PROVE  RingTypeOK'
  BY <1>14 DEF Circ!KreallocFails, Circ!module, RingTypeOK, Circ!NoCall, RingCall,
       RingLabels
<1>15. ASSUME NEW p \in Callers, Circ!ResizeEnd(p)
      PROVE  RingTypeOK'
  BY <1>15 DEF Circ!ResizeEnd, Circ!Leave, Circ!module, RingTypeOK, Circ!NoCall, RingCall,
       RingLabels
<1>16. CASE UNCHANGED Circ!vars
  BY <1>16 DEF Circ!vars, Circ!module, Circ!ring, RingTypeOK
<1> QED  BY RingSteps, <1>1, <1>2, <1>3, <1>4, <1>5, <1>6, <1>7, <1>8, <1>9, <1>10, <1>11,
     <1>12, <1>13, <1>14, <1>15, <1>16

\* A new buffer has the length that was asked for.
LEMMA ReallocatedSize ==
    ASSUME NEW old, NEW n \in Nat
    PROVE  DOMAIN Circ!Reallocated(old, n) = 0 .. n - 1
BY DEF Circ!Reallocated

\* A copy does not change the length.
LEMMA CopySize ==
    ASSUME NEW p \in Callers, Circ!CopyPiece(p)
    PROVE  DOMAIN buff' = DOMAIN buff /\ (buff = Circ!NOBUFF => buff' = Circ!NOBUFF)
<1>1. DOMAIN buff' = DOMAIN buff
  BY DEF Circ!CopyPiece
<1>2. ASSUME buff = Circ!NOBUFF
      PROVE  buff' = Circ!NOBUFF
  <2>1. DOMAIN buff = {}
    BY <1>2 DEF Circ!NOBUFF
  <2>2. buff' = [k \in {} |-> IF k \in Circ!Target(p)
                              THEN <<p, (frame[p].count_inital - frame[p].count) + k - f_pos[p]>>
                              ELSE buff[k]]
    BY <2>1 DEF Circ!CopyPiece
  <2> QED  BY <2>2 DEF Circ!NOBUFF
<1> QED  BY <1>1, <1>2

\* Who enters, and what that does to the calls that are there.
LEMMA EnterFacts ==
    ASSUME NEW p \in Callers, NEW to \in {"reading", "writing", "resizing"},
           NEW call \in RingCall, RingTypeOK, Circ!Enter(p, to, call)
    PROVE  /\ Circ!InDriver' = Circ!InDriver \cup {p} /\ p \notin Circ!InDriver
           /\ Circ!Resizing' = IF to = "resizing" THEN Circ!Resizing \cup {p} ELSE Circ!Resizing
           /\ place'[p] = to /\ \A q \in Callers \ {p} : place'[q] = place[q]
           /\ (frame'[p].alone <=> Circ!InDriver = {}) /\ (frame'[p].calm <=> Circ!Resizing = {})
           /\ frame'[p].num = call.num /\ frame'[p].count = call.count
           /\ frame'[p].count_inital = call.count_inital
           /\ \A q \in Circ!InDriver :
                 /\ ~frame'[q].alone
                 /\ (frame'[q].calm => frame[q].calm /\ to # "resizing")
                 /\ frame'[q].num = frame[q].num
                 /\ frame'[q].count = frame[q].count
                 /\ frame'[q].count_inital = frame[q].count_inital
           /\ \A q \in Callers \ {p} : q \notin Circ!InDriver => frame'[q] = frame[q]
           /\ raced' = (raced \/ (to = "resizing" /\ Circ!Resizing # {}))
<1>1. /\ Circ!InDriver' = Circ!InDriver \cup {p} /\ p \notin Circ!InDriver
      /\ Circ!Resizing' = IF to = "resizing" THEN Circ!Resizing \cup {p} ELSE Circ!Resizing
      /\ place'[p] = to /\ \A q \in Callers \ {p} : place'[q] = place[q]
  BY DEF Circ!Enter, Circ!InDriver, Circ!Resizing, RingTypeOK
<1>2. /\ (frame'[p].alone <=> Circ!InDriver = {}) /\ (frame'[p].calm <=> Circ!Resizing = {})
      /\ frame'[p].num = call.num /\ frame'[p].count = call.count
      /\ frame'[p].count_inital = call.count_inital
  BY DEF Circ!Enter, RingCall
<1>3. ASSUME NEW q \in Circ!InDriver
      PROVE  /\ ~frame'[q].alone
             /\ (frame'[q].calm => frame[q].calm /\ to # "resizing")
             /\ frame'[q].num = frame[q].num
             /\ frame'[q].count = frame[q].count
             /\ frame'[q].count_inital = frame[q].count_inital
  <2>1. q \in Callers /\ q # p
    BY <1>1 DEF Circ!InDriver
  <2> QED  BY <2>1 DEF Circ!Enter, RingCall, RingTypeOK
<1>4. \A q \in Callers \ {p} : q \notin Circ!InDriver => frame'[q] = frame[q]
  BY DEF Circ!Enter
<1>5. raced' = (raced \/ (to = "resizing" /\ Circ!Resizing # {}))
  BY DEF Circ!Enter
<1> QED  BY <1>1, <1>2, <1>3, <1>4, <1>5

\* What is begun is a call.
LEMMA CallTypes ==
    ASSUME RingBounds, RingTypeOK
    PROVE  /\ [Circ!NoCall EXCEPT !.count = buff_size] \in RingCall
           /\ \A n \in WriteLengths : [Circ!NoCall EXCEPT !.count = n, !.count_inital = n] \in RingCall
           /\ \A n \in RingSizes : [Circ!NoCall EXCEPT !.num = n] \in RingCall
BY DEF Circ!NoCall, RingCall, RingTypeOK, RingBounds

\* The history of those in the driver when one more enters.
LEMMA EnterAlone ==
    ASSUME NEW p \in Callers, NEW to \in {"reading", "writing", "resizing"},
           NEW call \in RingCall, RingTypeOK, Undisturbed, Circ!Enter(p, to, call)
    PROVE  Undisturbed'
<1>1. ASSUME NEW q \in Circ!InDriver', q # p
      PROVE  q \in Circ!InDriver /\ place'[q] = place[q]
  BY <1>1, EnterFacts DEF Circ!InDriver
<1>2. p \notin Circ!Resizing /\ Circ!Resizing \subseteq Circ!InDriver
  BY EnterFacts DEF Circ!Resizing, Circ!InDriver
<1>3. ASSUME NEW q \in Circ!InDriver'
      PROVE  /\ frame'[q].alone => Circ!InDriver' = {q} /\ frame'[q].calm
             /\ place'[q] = "writing" /\ frame'[q].calm => Circ!Resizing' = {}
  <2>1. CASE q = p
    BY <2>1, <1>2, EnterFacts
  <2>2. CASE q # p
    BY <2>2, <1>1, EnterFacts DEF Undisturbed
  <2> QED  BY <2>1, <2>2
<1> QED  BY <1>3 DEF Undisturbed

\* The place k bytes before f, without %.
LEMMA BackIs ==
    ASSUME RingTypeOK, NEW f \in 0 .. buff_size - 1, NEW k \in 1 .. buff_size
    PROVE  Back(f, k) = IF k <= f THEN f - k ELSE f - k + buff_size
<1> DEFINE x == f - k + buff_size
<1>1. buff_size \in Nat \ {0} /\ x \in 0 .. 2 * buff_size - 1
  BY DEF RingTypeOK
<1>2. Back(f, k) = x % buff_size
  BY DEF Back
<1> HIDE DEF x
<1>3. x % buff_size = IF x < buff_size THEN x ELSE x - buff_size
  BY <1>1, RingMod
<1> USE DEF x
<1> QED  BY <1>1, <1>2, <1>3 DEF RingTypeOK

\* A piece of a write that is alone: what it copies is before the new position, and what
\* was before the old one and is still within the buffer is where it was.
LEMMA CopySent ==
    ASSUME NEW p \in Callers, RingTypeOK, Circ!CopyPiece(p), Sent(p),
           f_pos[p] \in 0 .. buff_size - 1
    PROVE  Sent(p)' /\ f_pos'[p] \in 0 .. buff_size - 1
<1> DEFINE f == f_pos[p]
<1> DEFINE m == Circ!Piece(p)
<1> DEFINE done == frame[p].count_inital - frame[p].count
<1> DEFINE f2 == IF f + m = buff_size THEN 0 ELSE f + m
<1>1. /\ buff_size \in Nat \ {0} /\ f \in 0 .. buff_size - 1 /\ done \in Nat
      /\ m \in 0 .. buff_size /\ f + m <= buff_size
  BY PieceFits DEF RingTypeOK, RingCall, Circ!CopyPiece, Circ!InBuffer, Sent, Circ!Piece
<1>2. f_pos'[p] = f2 /\ f2 \in 0 .. buff_size - 1
  <2>1. f_pos'[p] = (f + m) % buff_size
    BY DEF Circ!CopyPiece, RingTypeOK
  <2>2. (f + m) % buff_size = IF f + m < buff_size THEN f + m ELSE f + m - buff_size
    BY <1>1, RingMod
  <2> QED  BY <1>1, <2>1, <2>2
<1>3. /\ buff_size' = buff_size /\ DOMAIN buff' = DOMAIN buff
      /\ frame'[p].count_inital - frame'[p].count = done + m
      /\ Circ!Target(p) = f .. f + m - 1 /\ Circ!Target(p) \subseteq DOMAIN buff
      /\ \A k \in DOMAIN buff : buff'[k] = IF k \in f .. f + m - 1
                                           THEN <<p, done + k - f>> ELSE buff[k]
  BY <1>1 DEF Circ!CopyPiece, RingTypeOK, RingCall, Circ!Target, Circ!InBuffer
<1>4. ASSUME NEW k \in 1 .. done + m, k <= buff_size
      PROVE  /\ Back(f_pos[p], k)' \in DOMAIN buff
             /\ buff'[Back(f_pos[p], k)'] = <<p, done + m - k>>
  <2>1. Back(f_pos[p], k)' = IF k <= f2 THEN f2 - k ELSE f2 - k + buff_size
    <3>1. Back(f_pos[p], k)' = Back(f2, k)
      BY <1>2, <1>3 DEF Back
    <3> QED  BY <3>1, <1>1, <1>2, <1>4, BackIs
  <2>2. CASE k <= m
    <3>1. Back(f_pos[p], k)' = f + m - k /\ f + m - k \in f .. f + m - 1
      BY <1>1, <1>4, <2>1, <2>2
    <3> QED  BY SMTT(30), <1>1, <1>3, <3>1, <2>2
  <2>3. CASE k > m
    <3>1. Back(f, k - m) = IF k - m <= f THEN f - (k - m) ELSE f - (k - m) + buff_size
      BY <1>1, <1>4, <2>3, BackIs
    <3>2. Back(f_pos[p], k)' = Back(f, k - m) /\ Back(f, k - m) \notin f .. f + m - 1
      BY <1>1, <1>4, <2>1, <2>3, <3>1
    <3>3. /\ Back(f, k - m) \in DOMAIN buff
          /\ buff[Back(f, k - m)] = <<p, done - (k - m)>>
      BY <1>1, <1>4, <2>3 DEF Sent
    <3> QED  BY <1>1, <1>3, <3>2, <3>3
  <2> QED  BY <1>1, <1>4, <2>2, <2>3
<1> QED  BY <1>1, <1>2, <1>3, <1>4 DEF Sent

\* The length of the buffer is known.
LEMMA RingAgrees ==
    ASSUME RingBounds, RingTypeOK, SizesAgree, [Circ!Next]_(Circ!vars)
    PROVE  SizesAgree'
<1>1. CASE Circ!RegisterDevice
  BY <1>1 DEF Circ!RegisterDevice, Circ!module, Circ!ring, SizesAgree, HasSize,
       Circ!Resizing, RingTypeOK, RingLabels
<1>2. CASE Circ!CreateEntry
  BY <1>2 DEF Circ!CreateEntry, Circ!module, Circ!ring, SizesAgree, HasSize, Circ!Resizing,
       RingTypeOK, RingLabels
<1>3. CASE Circ!Kmalloc
  <2>1. HasSize(buff_size)'
    BY <1>3, ReallocatedSize DEF Circ!Kmalloc, HasSize, RingBounds
  <2> QED  BY <1>3, <2>1 DEF Circ!Kmalloc, SizesAgree, Circ!Resizing, RingTypeOK
<1>4. CASE Circ!Gone
  BY <1>4 DEF Circ!Gone, Circ!InDriver, SizesAgree, HasSize, Circ!Resizing, RingTypeOK,
       RingLabels
<1>5. ASSUME NEW p \in Callers, Circ!Open(p)
      PROVE  SizesAgree'
  BY <1>5 DEF Circ!Open, Circ!module, Circ!ring, SizesAgree, HasSize, Circ!Resizing,
       RingTypeOK, RingLabels
<1>6. ASSUME NEW p \in Callers, Circ!ReadBegin(p)
      PROVE  SizesAgree'
  BY ZenonT(60), <1>6, EnterFacts, CallTypes DEF Circ!ReadBegin, SizesAgree, HasSize, Circ!InDriver,
       Circ!Resizing, RingTypeOK, Circ!module, Circ!ring
<1>7. ASSUME NEW p \in Callers, Circ!ReadEnd(p)
      PROVE  SizesAgree'
  BY <1>7 DEF Circ!ReadEnd, Circ!Leave, Circ!module, Circ!ring, SizesAgree, HasSize,
       Circ!Resizing, RingTypeOK, RingLabels
<1>8. ASSUME NEW p \in Callers, NEW n \in WriteLengths, Circ!WriteBegin(p, n)
      PROVE  SizesAgree'
  <2>1. Circ!Resizing' = Circ!Resizing /\ UNCHANGED <<buff, buff_size>> /\ raced' = raced
    <3> DEFINE call == [Circ!NoCall EXCEPT !.count = n, !.count_inital = n]
    <3>1. call \in RingCall
      BY CallTypes
    <3>2. Circ!Enter(p, "writing", call) /\ UNCHANGED <<buff, buff_size>>
      BY <1>8 DEF Circ!WriteBegin, Circ!ring
    <3> HIDE DEF call
    <3> QED  BY <3>1, <3>2, EnterFacts DEF RingTypeOK
  <2>2. ASSUME NEW q \in Callers, place'[q] = "resized"
        PROVE  place[q] = "resized" /\ frame'[q].num = frame[q].num
    <3>1. q # p /\ place[q] = "resized" /\ q \in Circ!InDriver
      BY <1>8, <2>2, EnterFacts, CallTypes DEF Circ!WriteBegin, Circ!InDriver
    <3> QED  BY <1>8, <3>1, EnterFacts, CallTypes DEF Circ!WriteBegin
  <2> QED  BY <2>1, <2>2 DEF SizesAgree, HasSize
<1>9. ASSUME NEW p \in Callers, Circ!CopyPiece(p)
      PROVE  SizesAgree'
  <2>1. DOMAIN buff' = DOMAIN buff /\ (buff = Circ!NOBUFF => buff' = Circ!NOBUFF)
    BY <1>9, CopySize
  <2> QED  BY <1>9, <2>1 DEF Circ!CopyPiece, SizesAgree, HasSize, Circ!Resizing, RingTypeOK,
       RingCall, Circ!module
<1>10. ASSUME NEW p \in Callers, Circ!WriteEnd(p)
      PROVE  SizesAgree'
  BY <1>10 DEF Circ!WriteEnd, Circ!Leave, Circ!module, SizesAgree, HasSize, Circ!Resizing,
       RingTypeOK, RingLabels
<1>11. ASSUME NEW p \in Callers, Circ!Crash(p)
      PROVE  SizesAgree'
  BY <1>11 DEF Circ!Crash, Circ!module, Circ!ring, SizesAgree, HasSize, Circ!Resizing,
       RingTypeOK, RingLabels
<1>12. ASSUME NEW p \in Callers, NEW n \in RingSizes, Circ!ResizeBegin(p, n)
      PROVE  SizesAgree'
  BY <1>12 DEF Circ!ResizeBegin, Circ!Enter, Circ!module, Circ!ring, SizesAgree, HasSize,
       Circ!Resizing, RingTypeOK, RingLabels
<1>13. ASSUME NEW p \in Callers, Circ!Krealloc(p)
      PROVE  SizesAgree'
  <2>1. DOMAIN buff' = 0 .. frame[p].num - 1
    BY <1>13, ReallocatedSize DEF Circ!Krealloc, RingTypeOK, RingCall
  <2> QED  BY <1>13, <2>1 DEF Circ!Krealloc, SizesAgree, HasSize, Circ!Resizing, RingTypeOK,
       Circ!module
<1>14. ASSUME NEW p \in Callers, Circ!KreallocFails(p)
      PROVE  SizesAgree'
  BY <1>14 DEF Circ!KreallocFails, Circ!module, SizesAgree, HasSize, Circ!Resizing,
       RingTypeOK, RingLabels
<1>15. ASSUME NEW p \in Callers, Circ!ResizeEnd(p)
      PROVE  SizesAgree'
  BY <1>15 DEF Circ!ResizeEnd, Circ!Leave, Circ!module, SizesAgree, HasSize, Circ!Resizing,
       RingTypeOK, RingLabels
<1>16. CASE UNCHANGED Circ!vars
  BY <1>16 DEF Circ!vars, Circ!module, Circ!ring, SizesAgree, HasSize, Circ!Resizing,
       RingTypeOK, RingLabels
<1> QED  BY RingSteps, <1>1, <1>2, <1>3, <1>4, <1>5, <1>6, <1>7, <1>8, <1>9, <1>10, <1>11,
     <1>12, <1>13, <1>14, <1>15, <1>16

\* What the history says of who is in the driver.
LEMMA RingAlone ==
    ASSUME RingBounds, RingTypeOK, Undisturbed, [Circ!Next]_(Circ!vars)
    PROVE  Undisturbed'
<1>1. CASE Circ!RegisterDevice
  BY <1>1 DEF Circ!RegisterDevice, Circ!module, Circ!ring, Undisturbed, Circ!InDriver,
       Circ!Resizing, RingTypeOK, RingLabels, RingCall, Circ!NoCall
<1>2. CASE Circ!CreateEntry
  BY <1>2 DEF Circ!CreateEntry, Circ!module, Circ!ring, Undisturbed, Circ!InDriver,
       Circ!Resizing, RingTypeOK, RingLabels, RingCall, Circ!NoCall
<1>3. CASE Circ!Kmalloc
  BY <1>3 DEF Circ!Kmalloc, Circ!module, Circ!ring, Undisturbed, Circ!InDriver,
       Circ!Resizing, RingTypeOK, RingLabels, RingCall, Circ!NoCall
<1>4. CASE Circ!Gone
  BY <1>4 DEF Circ!Gone, Circ!InDriver, Undisturbed, Circ!InDriver, Circ!Resizing,
       RingTypeOK, RingLabels, RingCall, Circ!NoCall
<1>5. ASSUME NEW p \in Callers, Circ!Open(p)
      PROVE  Undisturbed'
  BY <1>5 DEF Circ!Open, Circ!module, Circ!ring, Undisturbed, Circ!InDriver, Circ!Resizing,
       RingTypeOK, RingLabels, RingCall, Circ!NoCall
<1>6. ASSUME NEW p \in Callers, Circ!ReadBegin(p)
      PROVE  Undisturbed'
  BY <1>6, EnterAlone, CallTypes DEF Circ!ReadBegin
<1>7. ASSUME NEW p \in Callers, Circ!ReadEnd(p)
      PROVE  Undisturbed'
  BY <1>7 DEF Circ!ReadEnd, Circ!Leave, Circ!module, Circ!ring, Undisturbed, Circ!InDriver,
       Circ!Resizing, RingTypeOK, RingLabels, RingCall, Circ!NoCall
<1>8. ASSUME NEW p \in Callers, NEW n \in WriteLengths, Circ!WriteBegin(p, n)
      PROVE  Undisturbed'
  BY <1>8, EnterAlone, CallTypes DEF Circ!WriteBegin
<1>9. ASSUME NEW p \in Callers, Circ!CopyPiece(p)
      PROVE  Undisturbed'
  BY <1>9 DEF Circ!CopyPiece, Circ!module, Undisturbed, Circ!InDriver, Circ!Resizing,
       RingTypeOK, RingLabels, RingCall, Circ!NoCall
<1>10. ASSUME NEW p \in Callers, Circ!WriteEnd(p)
      PROVE  Undisturbed'
  BY <1>10 DEF Circ!WriteEnd, Circ!Leave, Circ!module, Undisturbed, Circ!InDriver,
       Circ!Resizing, RingTypeOK, RingLabels, RingCall, Circ!NoCall
<1>11. ASSUME NEW p \in Callers, Circ!Crash(p)
      PROVE  Undisturbed'
  BY <1>11 DEF Circ!Crash, Circ!module, Circ!ring, Undisturbed, Circ!InDriver,
       Circ!Resizing, RingTypeOK, RingLabels, RingCall, Circ!NoCall
<1>12. ASSUME NEW p \in Callers, NEW n \in RingSizes, Circ!ResizeBegin(p, n)
      PROVE  Undisturbed'
  BY <1>12, EnterAlone, CallTypes DEF Circ!ResizeBegin
<1>13. ASSUME NEW p \in Callers, Circ!Krealloc(p)
      PROVE  Undisturbed'
  BY <1>13 DEF Circ!Krealloc, Circ!module, Undisturbed, Circ!InDriver, Circ!Resizing,
       RingTypeOK, RingLabels, RingCall, Circ!NoCall
<1>14. ASSUME NEW p \in Callers, Circ!KreallocFails(p)
      PROVE  Undisturbed'
  BY <1>14 DEF Circ!KreallocFails, Circ!module, Undisturbed, Circ!InDriver, Circ!Resizing,
       RingTypeOK, RingLabels, RingCall, Circ!NoCall
<1>15. ASSUME NEW p \in Callers, Circ!ResizeEnd(p)
      PROVE  Undisturbed'
  BY <1>15 DEF Circ!ResizeEnd, Circ!Leave, Circ!module, Undisturbed, Circ!InDriver,
       Circ!Resizing, RingTypeOK, RingLabels, RingCall, Circ!NoCall
<1>16. CASE UNCHANGED Circ!vars
  BY <1>16 DEF Circ!vars, Circ!module, Circ!ring, Undisturbed, Circ!InDriver, Circ!Resizing,
       RingTypeOK, RingLabels, RingCall, Circ!NoCall
<1> QED  BY RingSteps, <1>1, <1>2, <1>3, <1>4, <1>5, <1>6, <1>7, <1>8, <1>9, <1>10, <1>11,
     <1>12, <1>13, <1>14, <1>15, <1>16

\* A buffer of a new length has no last write.
LEMMA RingUnsized ==
    ASSUME RingTypeOK, Undisturbed, Unsized, [Circ!Next]_(Circ!vars)
    PROVE  Unsized'
<1>1. CASE Circ!RegisterDevice
  BY <1>1 DEF Circ!RegisterDevice, Circ!module, Circ!ring, Unsized, RingTypeOK, RingLabels
<1>2. CASE Circ!CreateEntry
  BY <1>2 DEF Circ!CreateEntry, Circ!module, Circ!ring, Unsized, RingTypeOK, RingLabels
<1>3. CASE Circ!Kmalloc
  BY <1>3 DEF Circ!Kmalloc, Circ!module, Circ!ring, Unsized, RingTypeOK, RingLabels
<1>4. CASE Circ!Gone
  BY <1>4 DEF Circ!Gone, Circ!InDriver, Unsized, RingTypeOK, RingLabels
<1>5. ASSUME NEW p \in Callers, Circ!Open(p)
      PROVE  Unsized'
  BY <1>5 DEF Circ!Open, Circ!module, Circ!ring, Unsized, RingTypeOK, RingLabels
<1>6. ASSUME NEW p \in Callers, Circ!ReadBegin(p)
      PROVE  Unsized'
  BY <1>6 DEF Circ!ReadBegin, Circ!Enter, Circ!module, Circ!ring, Unsized, RingTypeOK,
       RingLabels
<1>7. ASSUME NEW p \in Callers, Circ!ReadEnd(p)
      PROVE  Unsized'
  BY <1>7 DEF Circ!ReadEnd, Circ!Leave, Circ!module, Circ!ring, Unsized, RingTypeOK,
       RingLabels
<1>8. ASSUME NEW p \in Callers, NEW n \in WriteLengths, Circ!WriteBegin(p, n)
      PROVE  Unsized'
  BY <1>8 DEF Circ!WriteBegin, Circ!Enter, Circ!module, Circ!ring, Unsized, RingTypeOK,
       RingLabels
<1>9. ASSUME NEW p \in Callers, Circ!CopyPiece(p)
      PROVE  Unsized'
  BY <1>9 DEF Circ!CopyPiece, Circ!module, Unsized, RingTypeOK, RingLabels
<1>10. ASSUME NEW p \in Callers, Circ!WriteEnd(p)
      PROVE  Unsized'
  BY <1>10 DEF Circ!WriteEnd, Circ!Leave, Circ!module, Unsized, RingTypeOK, RingLabels,
       Undisturbed, Circ!InDriver
<1>11. ASSUME NEW p \in Callers, Circ!Crash(p)
      PROVE  Unsized'
  BY <1>11 DEF Circ!Crash, Circ!module, Circ!ring, Unsized, RingTypeOK, RingLabels
<1>12. ASSUME NEW p \in Callers, NEW n \in RingSizes, Circ!ResizeBegin(p, n)
      PROVE  Unsized'
  BY <1>12 DEF Circ!ResizeBegin, Circ!Enter, Circ!module, Circ!ring, Unsized, RingTypeOK,
       RingLabels
<1>13. ASSUME NEW p \in Callers, Circ!Krealloc(p)
      PROVE  Unsized'
  BY <1>13 DEF Circ!Krealloc, Circ!module, Unsized, RingTypeOK, RingLabels
<1>14. ASSUME NEW p \in Callers, Circ!KreallocFails(p)
      PROVE  Unsized'
  BY <1>14 DEF Circ!KreallocFails, Circ!module, Unsized, RingTypeOK, RingLabels
<1>15. ASSUME NEW p \in Callers, Circ!ResizeEnd(p)
      PROVE  Unsized'
  BY <1>15 DEF Circ!ResizeEnd, Circ!Leave, Circ!module, Unsized, RingTypeOK, RingLabels
<1>16. CASE UNCHANGED Circ!vars
  BY <1>16 DEF Circ!vars, Circ!module, Circ!ring, Unsized, RingTypeOK, RingLabels
<1> QED  BY RingSteps, <1>1, <1>2, <1>3, <1>4, <1>5, <1>6, <1>7, <1>8, <1>9, <1>10, <1>11,
     <1>12, <1>13, <1>14, <1>15, <1>16

\* Where a write is, and what it has written.
LEMMA RingWrites ==
    ASSUME RingBounds, RingTypeOK, Undisturbed, Writes, [Circ!Next]_(Circ!vars)
    PROVE  Writes'
<1>1. CASE Circ!RegisterDevice
  BY <1>1 DEF Circ!RegisterDevice, Circ!module, Circ!ring, Writes, Sent, Back, RingTypeOK,
       RingLabels, RingCall, Circ!NoCall
<1>2. CASE Circ!CreateEntry
  BY <1>2 DEF Circ!CreateEntry, Circ!module, Circ!ring, Writes, Sent, Back, RingTypeOK,
       RingLabels, RingCall, Circ!NoCall
<1>3. CASE Circ!Kmalloc
  <2>1. ASSUME NEW q \in Callers, place'[q] = "writing"
        PROVE  ~frame'[q].calm /\ ~frame'[q].alone
    <3>1. frame' = [p \in Callers |-> [frame[p] EXCEPT !.alone = @ /\ p \notin Circ!InDriver,
                                                   !.calm = @ /\ p \notin Circ!InDriver]]
      BY <1>3 DEF Circ!Kmalloc
    <3>2. q \in Circ!InDriver
      BY <1>3, <2>1 DEF Circ!Kmalloc, Circ!InDriver
    <3> QED  BY <3>1, <3>2 DEF RingTypeOK, RingCall
  <2> QED  BY <2>1 DEF Writes
<1>4. CASE Circ!Gone
  BY <1>4 DEF Circ!Gone, Circ!InDriver, Writes, Sent, Back, RingTypeOK, RingLabels,
       RingCall, Circ!NoCall
<1>5. ASSUME NEW p \in Callers, Circ!Open(p)
      PROVE  Writes'
  BY <1>5 DEF Circ!Open, Circ!module, Circ!ring, Writes, Sent, Back, RingTypeOK, RingLabels,
       RingCall, Circ!NoCall
<1>6. ASSUME NEW p \in Callers, Circ!ReadBegin(p)
      PROVE  Writes'
  BY ZenonT(60), <1>6 DEF Circ!ReadBegin, Circ!Enter, Circ!module, Circ!ring, Writes, Sent, Back,
       RingTypeOK, RingLabels, RingCall, Circ!NoCall
<1>7. ASSUME NEW p \in Callers, Circ!ReadEnd(p)
      PROVE  Writes'
  BY <1>7 DEF Circ!ReadEnd, Circ!Leave, Circ!module, Circ!ring, Writes, Sent, Back,
       RingTypeOK, RingLabels, RingCall, Circ!NoCall
<1>8. ASSUME NEW p \in Callers, NEW n \in WriteLengths, Circ!WriteBegin(p, n)
      PROVE  Writes'
  <2> DEFINE call == [Circ!NoCall EXCEPT !.count = n, !.count_inital = n]
  <2>1. call \in RingCall /\ call.count_inital = n /\ call.count = n /\ n \in Nat
    BY CallTypes DEF Circ!NoCall, RingBounds
  <2>2. /\ Circ!Enter(p, "writing", call) /\ UNCHANGED <<buff, buff_size>>
        /\ f_pos' = [f_pos EXCEPT ![p] = Circ!Start(p)]
    BY <1>8 DEF Circ!WriteBegin, Circ!ring
  <2>3. Circ!Start(p) \in 0 .. buff_size - 1
    BY <1>8, RingRange DEF Circ!Start, Circ!WriteBegin, RingTypeOK
  <2> HIDE DEF call
  <2>4. f_pos'[p] \in 0 .. buff_size' - 1 /\ Sent(p)'
    BY <2>1, <2>2, <2>3, EnterFacts DEF RingTypeOK, Sent
  <2>5. ASSUME NEW q \in Callers, q # p, place'[q] = "writing"
        PROVE  /\ frame'[q].calm => f_pos'[q] \in 0 .. buff_size' - 1
               /\ ~frame'[q].alone
    <3>1. place[q] = "writing" /\ q \in Circ!InDriver
      BY <2>1, <2>2, <2>5, EnterFacts DEF Circ!InDriver
    <3> QED  BY <2>1, <2>2, <2>5, <3>1, EnterFacts DEF Writes, RingTypeOK
  <2> QED  BY <2>4, <2>5 DEF Writes
<1>9. ASSUME NEW p \in Callers, Circ!CopyPiece(p)
      PROVE  Writes'
  <2>1. ASSUME NEW q \in Callers, place'[q] = "writing"
        PROVE  /\ frame'[q].calm => f_pos'[q] \in 0 .. buff_size' - 1
               /\ frame'[q].alone => Sent(q)'
    <3>1. place[q] = "writing" /\ (frame'[q].calm <=> frame[q].calm)
             /\ (frame'[q].alone <=> frame[q].alone) /\ buff_size' = buff_size
      BY <1>9, <2>1 DEF Circ!CopyPiece, RingTypeOK, RingCall
    <3>2. CASE q = p
      <4>1. f_pos'[p] \in 0 .. buff_size - 1
        <5>1. f_pos'[p] = (f_pos[p] + Circ!Piece(p)) % buff_size
          BY <1>9 DEF Circ!CopyPiece, RingTypeOK
        <5>2. f_pos[p] + Circ!Piece(p) \in Nat /\ buff_size \in Nat \ {0}
          BY <1>9, PieceFits DEF Circ!CopyPiece, Circ!InBuffer, RingTypeOK
        <5> QED  BY <5>1, <5>2, RingRange
      <4>2. ASSUME frame[p].alone
            PROVE  Sent(p)'
        <5>1. Sent(p) /\ frame[p].calm /\ f_pos[p] \in 0 .. buff_size - 1
          BY <3>1, <3>2, <4>2 DEF Writes, Undisturbed, Circ!InDriver
        <5> QED  BY <1>9, <5>1, CopySent
      <4> QED  BY <3>1, <3>2, <4>1, <4>2
    <3>3. CASE q # p
      <4>1. ~frame[q].alone /\ f_pos'[q] = f_pos[q]
        BY <1>9, <3>1, <3>3 DEF Undisturbed, Circ!InDriver, Circ!CopyPiece, RingTypeOK
      <4> QED  BY <3>1, <4>1 DEF Writes
    <3> QED  BY <3>2, <3>3
  <2> QED  BY <2>1 DEF Writes
<1>10. ASSUME NEW p \in Callers, Circ!WriteEnd(p)
      PROVE  Writes'
  BY <1>10 DEF Circ!WriteEnd, Circ!Leave, Circ!module, Writes, Sent, Back, RingTypeOK,
       RingLabels, RingCall, Circ!NoCall
<1>11. ASSUME NEW p \in Callers, Circ!Crash(p)
      PROVE  Writes'
  BY <1>11 DEF Circ!Crash, Circ!module, Circ!ring, Writes, Sent, Back, RingTypeOK,
       RingLabels, RingCall, Circ!NoCall
<1>12. ASSUME NEW p \in Callers, NEW n \in RingSizes, Circ!ResizeBegin(p, n)
      PROVE  Writes'
  BY ZenonT(60), <1>12 DEF Circ!ResizeBegin, Circ!Enter, Circ!module, Circ!ring, Writes, Sent, Back,
       RingTypeOK, RingLabels, RingCall, Circ!NoCall
<1>13. ASSUME NEW p \in Callers, Circ!Krealloc(p)
      PROVE  Writes'
  BY <1>13 DEF Circ!Krealloc, Circ!module, Writes, Sent, Back, RingTypeOK, RingLabels,
       RingCall, Circ!NoCall, Undisturbed, Circ!InDriver, Circ!Resizing
<1>14. ASSUME NEW p \in Callers, Circ!KreallocFails(p)
      PROVE  Writes'
  BY <1>14 DEF Circ!KreallocFails, Circ!module, Writes, Sent, Back, RingTypeOK, RingLabels,
       RingCall, Circ!NoCall, Undisturbed, Circ!InDriver, Circ!Resizing
<1>15. ASSUME NEW p \in Callers, Circ!ResizeEnd(p)
      PROVE  Writes'
  BY <1>15 DEF Circ!ResizeEnd, Circ!Leave, Circ!module, Writes, Sent, Back, RingTypeOK,
       RingLabels, RingCall, Circ!NoCall, Undisturbed, Circ!InDriver, Circ!Resizing
<1>16. CASE UNCHANGED Circ!vars
  BY <1>16 DEF Circ!vars, Circ!module, Circ!ring, Writes, Sent, Back, RingTypeOK,
       RingLabels, RingCall, Circ!NoCall
<1> QED  BY RingSteps, <1>1, <1>2, <1>3, <1>4, <1>5, <1>6, <1>7, <1>8, <1>9, <1>10, <1>11,
     <1>12, <1>13, <1>14, <1>15, <1>16

\* The copy of a calm write stays in the buffer.
LEMMA RingInBounds ==
    ASSUME RingTypeOK, SizesAgree, Undisturbed, Writes, Circ!InBounds, [Circ!Next]_(Circ!vars)
    PROVE  Circ!InBounds'
<1>1. CASE Circ!RegisterDevice
  BY <1>1 DEF Circ!RegisterDevice, Circ!module, Circ!ring, Circ!InBounds, RingTypeOK,
       RingLabels, RingCall, Circ!NoCall, Circ!InDriver
<1>2. CASE Circ!CreateEntry
  BY <1>2 DEF Circ!CreateEntry, Circ!module, Circ!ring, Circ!InBounds, RingTypeOK,
       RingLabels, RingCall, Circ!NoCall, Circ!InDriver
<1>3. CASE Circ!Kmalloc
  BY <1>3 DEF Circ!Kmalloc, Circ!module, Circ!ring, Circ!InBounds, RingTypeOK, RingLabels,
       RingCall, Circ!NoCall, Circ!InDriver
<1>4. CASE Circ!Gone
  BY <1>4 DEF Circ!Gone, Circ!InDriver, Circ!InBounds, RingTypeOK, RingLabels, RingCall,
       Circ!NoCall, Circ!InDriver
<1>5. ASSUME NEW p \in Callers, Circ!Open(p)
      PROVE  Circ!InBounds'
  BY <1>5 DEF Circ!Open, Circ!module, Circ!ring, Circ!InBounds, RingTypeOK, RingLabels,
       RingCall, Circ!NoCall, Circ!InDriver
<1>6. ASSUME NEW p \in Callers, Circ!ReadBegin(p)
      PROVE  Circ!InBounds'
  BY <1>6 DEF Circ!ReadBegin, Circ!Enter, Circ!module, Circ!ring, Circ!InBounds, RingTypeOK,
       RingLabels, RingCall, Circ!NoCall, Circ!InDriver
<1>7. ASSUME NEW p \in Callers, Circ!ReadEnd(p)
      PROVE  Circ!InBounds'
  BY <1>7 DEF Circ!ReadEnd, Circ!Leave, Circ!module, Circ!ring, Circ!InBounds, RingTypeOK,
       RingLabels, RingCall, Circ!NoCall, Circ!InDriver
<1>8. ASSUME NEW p \in Callers, NEW n \in WriteLengths, Circ!WriteBegin(p, n)
      PROVE  Circ!InBounds'
  BY <1>8 DEF Circ!WriteBegin, Circ!Enter, Circ!module, Circ!ring, Circ!InBounds,
       RingTypeOK, RingLabels, RingCall, Circ!NoCall, Circ!InDriver
<1>9. ASSUME NEW p \in Callers, Circ!CopyPiece(p)
      PROVE  Circ!InBounds'
  BY <1>9 DEF Circ!CopyPiece, Circ!module, Circ!InBounds, RingTypeOK, RingLabels, RingCall,
       Circ!NoCall, Circ!InDriver
<1>10. ASSUME NEW p \in Callers, Circ!WriteEnd(p)
      PROVE  Circ!InBounds'
  BY <1>10 DEF Circ!WriteEnd, Circ!Leave, Circ!module, Circ!InBounds, RingTypeOK,
       RingLabels, RingCall, Circ!NoCall, Circ!InDriver
<1>11. ASSUME NEW p \in Callers, Circ!Crash(p)
      PROVE  Circ!InBounds'
  <2>1. ASSUME place'[p] = "wild", frame'[p].calm
        PROVE  FALSE
    <3>1. /\ place[p] = "writing" /\ frame[p].count > 0 /\ buff_size # 0 /\ ~Circ!InBuffer(p)
          /\ buff # Circ!NOBUFF /\ frame[p].calm /\ ~raced
      BY <1>11, <2>1 DEF Circ!Crash, RingTypeOK, RingCall
    <3>2. DOMAIN buff = 0 .. buff_size - 1 /\ f_pos[p] \in 0 .. buff_size - 1
      BY <3>1 DEF Undisturbed, Circ!InDriver, SizesAgree, HasSize, Writes
    <3> QED  BY <3>1, <3>2 DEF Circ!InBuffer, Circ!Piece, Circ!Target, RingTypeOK, RingCall
  <2>2. \A q \in Callers : q # p => place'[q] = place[q] /\ frame'[q] = frame[q]
    BY <1>11 DEF Circ!Crash, RingTypeOK
  <2> QED  BY <2>1, <2>2 DEF Circ!InBounds
<1>12. ASSUME NEW p \in Callers, NEW n \in RingSizes, Circ!ResizeBegin(p, n)
      PROVE  Circ!InBounds'
  BY <1>12 DEF Circ!ResizeBegin, Circ!Enter, Circ!module, Circ!ring, Circ!InBounds,
       RingTypeOK, RingLabels, RingCall, Circ!NoCall, Circ!InDriver
<1>13. ASSUME NEW p \in Callers, Circ!Krealloc(p)
      PROVE  Circ!InBounds'
  BY <1>13 DEF Circ!Krealloc, Circ!module, Circ!InBounds, RingTypeOK, RingLabels, RingCall,
       Circ!NoCall, Circ!InDriver
<1>14. ASSUME NEW p \in Callers, Circ!KreallocFails(p)
      PROVE  Circ!InBounds'
  BY <1>14 DEF Circ!KreallocFails, Circ!module, Circ!InBounds, RingTypeOK, RingLabels,
       RingCall, Circ!NoCall, Circ!InDriver
<1>15. ASSUME NEW p \in Callers, Circ!ResizeEnd(p)
      PROVE  Circ!InBounds'
  BY <1>15 DEF Circ!ResizeEnd, Circ!Leave, Circ!module, Circ!InBounds, RingTypeOK,
       RingLabels, RingCall, Circ!NoCall, Circ!InDriver
<1>16. CASE UNCHANGED Circ!vars
  BY <1>16 DEF Circ!vars, Circ!module, Circ!ring, Circ!InBounds, RingTypeOK, RingLabels,
       RingCall, Circ!NoCall, Circ!InDriver
<1> QED  BY RingSteps, <1>1, <1>2, <1>3, <1>4, <1>5, <1>6, <1>7, <1>8, <1>9, <1>10, <1>11,
     <1>12, <1>13, <1>14, <1>15, <1>16

\* The last write stays in the buffer.
LEMMA RingLast ==
    ASSUME RingTypeOK, Undisturbed, Writes, Unsized, Circ!LastWriteKept, [Circ!Next]_(Circ!vars)
    PROVE  Circ!LastWriteKept'
<1>1. CASE Circ!RegisterDevice
  BY <1>1 DEF Circ!RegisterDevice, Circ!module, Circ!ring, Circ!LastWriteKept, RingTypeOK,
       RingLabels, RingCall, Circ!NoCall, Circ!InDriver
<1>2. CASE Circ!CreateEntry
  BY <1>2 DEF Circ!CreateEntry, Circ!module, Circ!ring, Circ!LastWriteKept, RingTypeOK,
       RingLabels, RingCall, Circ!NoCall, Circ!InDriver
<1>3. CASE Circ!Kmalloc
  BY <1>3 DEF Circ!Kmalloc, Circ!module, Circ!ring, Circ!LastWriteKept, RingTypeOK,
       RingLabels, RingCall, Circ!NoCall, Circ!InDriver
<1>4. CASE Circ!Gone
  BY <1>4 DEF Circ!Gone, Circ!InDriver, Circ!LastWriteKept, RingTypeOK, RingLabels,
       RingCall, Circ!NoCall, Circ!InDriver
<1>5. ASSUME NEW p \in Callers, Circ!Open(p)
      PROVE  Circ!LastWriteKept'
  BY <1>5 DEF Circ!Open, Circ!module, Circ!ring, Circ!LastWriteKept, RingTypeOK, RingLabels,
       RingCall, Circ!NoCall, Circ!InDriver
<1>6. ASSUME NEW p \in Callers, Circ!ReadBegin(p)
      PROVE  Circ!LastWriteKept'
  BY <1>6 DEF Circ!ReadBegin, Circ!Enter, Circ!module, Circ!ring, Circ!LastWriteKept,
       RingTypeOK, RingLabels, RingCall, Circ!NoCall, Circ!InDriver
<1>7. ASSUME NEW p \in Callers, Circ!ReadEnd(p)
      PROVE  Circ!LastWriteKept'
  BY <1>7 DEF Circ!ReadEnd, Circ!Leave, Circ!module, Circ!ring, Circ!LastWriteKept,
       RingTypeOK, RingLabels, RingCall, Circ!NoCall, Circ!InDriver
<1>8. ASSUME NEW p \in Callers, NEW n \in WriteLengths, Circ!WriteBegin(p, n)
      PROVE  Circ!LastWriteKept'
  BY <1>8 DEF Circ!WriteBegin, Circ!Enter, Circ!module, Circ!ring, Circ!LastWriteKept,
       RingTypeOK, RingLabels, RingCall, Circ!NoCall, Circ!InDriver
<1>9. ASSUME NEW p \in Callers, Circ!CopyPiece(p)
      PROVE  Circ!LastWriteKept'
  BY <1>9 DEF Circ!CopyPiece, Circ!module, Circ!LastWriteKept, RingTypeOK, RingLabels,
       RingCall, Circ!NoCall, Circ!InDriver
<1>10. ASSUME NEW p \in Callers, Circ!WriteEnd(p)
      PROVE  Circ!LastWriteKept'
  <2>1. ASSUME frame[p].alone
        PROVE  Circ!LastWriteKept'
    <3>1. Sent(p) /\ frame[p].count = 0 /\ UNCHANGED <<buff, buff_size>>
      BY <1>10, <2>1 DEF Writes, Circ!WriteEnd
    <3>2. /\ last' = [writer |-> p, count |-> frame[p].count_inital]
          /\ buff_idx' = f_pos[p] /\ frame[p].count_inital \in Nat
      BY <1>10, <2>1 DEF Circ!WriteEnd, RingTypeOK, RingCall
    <3>3. ASSUME NEW k \in 1 .. frame[p].count_inital, k <= buff_size
          PROVE  buff[(f_pos[p] - k + buff_size) % buff_size]
                    = <<p, frame[p].count_inital - k>>
      <4>1. frame[p].count_inital - frame[p].count = frame[p].count_inital
        BY <3>1, <3>2
      <4> QED  BY <3>1, <3>3, <4>1 DEF Sent, Back
    <3>4. last'.writer = p /\ last'.count = frame[p].count_inital
      BY <3>2
    <3> QED  BY <3>1, <3>2, <3>3, <3>4 DEF Circ!LastWriteKept
  <2>2. CASE ~frame[p].alone
    BY <1>10, <2>2 DEF Circ!WriteEnd, Circ!LastWriteKept
  <2> QED  BY <2>1, <2>2
<1>11. ASSUME NEW p \in Callers, Circ!Crash(p)
      PROVE  Circ!LastWriteKept'
  BY <1>11 DEF Circ!Crash, Circ!module, Circ!ring, Circ!LastWriteKept, RingTypeOK,
       RingLabels, RingCall, Circ!NoCall, Circ!InDriver
<1>12. ASSUME NEW p \in Callers, NEW n \in RingSizes, Circ!ResizeBegin(p, n)
      PROVE  Circ!LastWriteKept'
  BY <1>12 DEF Circ!ResizeBegin, Circ!Enter, Circ!module, Circ!ring, Circ!LastWriteKept,
       RingTypeOK, RingLabels, RingCall, Circ!NoCall, Circ!InDriver
<1>13. ASSUME NEW p \in Callers, Circ!Krealloc(p)
      PROVE  Circ!LastWriteKept'
  BY <1>13 DEF Circ!Krealloc, Circ!module, Circ!LastWriteKept, RingTypeOK, RingLabels,
       RingCall, Circ!NoCall, Circ!InDriver
<1>14. ASSUME NEW p \in Callers, Circ!KreallocFails(p)
      PROVE  Circ!LastWriteKept'
  BY <1>14 DEF Circ!KreallocFails, Circ!module, Circ!LastWriteKept, RingTypeOK, RingLabels,
       RingCall, Circ!NoCall, Circ!InDriver
<1>15. ASSUME NEW p \in Callers, Circ!ResizeEnd(p)
      PROVE  Circ!LastWriteKept'
  <2>1. last' = Circ!NoWrite
    BY <1>15 DEF Circ!ResizeEnd, Unsized
  <2> QED  BY <2>1 DEF Circ!LastWriteKept
<1>16. CASE UNCHANGED Circ!vars
  BY <1>16 DEF Circ!vars, Circ!module, Circ!ring, Circ!LastWriteKept, RingTypeOK,
       RingLabels, RingCall, Circ!NoCall, Circ!InDriver
<1> QED  BY RingSteps, <1>1, <1>2, <1>3, <1>4, <1>5, <1>6, <1>7, <1>8, <1>9, <1>10, <1>11,
     <1>12, <1>13, <1>14, <1>15, <1>16

\* It holds when the module is to be loaded, ...
LEMMA RingBegins == Circ!Init => RingInv
<1> SUFFICES ASSUME Circ!Init PROVE RingInv
  OBVIOUS
<1>1. Circ!NoCall \in RingCall
  BY DEF Circ!NoCall, RingCall
<1>2. RingTypeOK
  BY <1>1 DEF Circ!Init, RingTypeOK, RingLabels
<1>3. last = Circ!NoWrite /\ buff = Circ!NOBUFF /\ Circ!InDriver = {} /\ \A p \in Callers : place[p] = "user"
  BY DEF Circ!Init, Circ!InDriver
<1> QED  BY <1>2, <1>3 DEF RingInv, SizesAgree, HasSize, Undisturbed, Writes, Unsized,
                           Circ!InBounds, Circ!LastWriteKept, Circ!Resizing

\* ... and every step keeps it.
LEMMA RingGoesOn == RingInv /\ [Circ!Next]_(Circ!vars) => RingInv'
BY ProgramBounds, RingTypes, RingAgrees, RingAlone, RingWrites, RingUnsized, RingInBounds, RingLast
   DEF RingInv

\* Of /dev/circular, for any processes, sizes and lengths of writes: a copy leaves the
\* buffer only when the size has changed during the write, or changes of it have
\* overlapped, and what an undisturbed write has sent is before buff_idx, as far as the
\* buffer holds it.
THEOREM RingKept == Circ!Spec => []RingInv
BY RingBegins, RingGoesOn, PTL DEF Circ!Spec
-----------------------------------------------------------------------------
(***************************************************************************)
(* /dev/linked without the semaphore or the mutex: what the rwlock is good for. *)
(***************************************************************************)
\* The slots that are its variables, but for those above.
lock_kind    == x7
writer       == x8
readers      == x9
buffer       == x10
live         == x5
total_length == x11
linked       == x12
twoWrites    == x13
stray        == x14
damaged      == x6
left         == x4
USE DEF lock_kind, writer, readers, buffer, live, total_length, linked, twoWrites,
        stray, damaged, left

\* What is in the list: who wrote it, in which call, and how much was left to write then.
Pieces == Callers \X Nat \X Nat
\* A chunk, or the head of the list.
Spots  == Pieces \cup {NONE}

LooseLabels == {"user", "read", "walking", "writing", "linking", "counting", "storing",
                "clearing", "deleting", "cleared", "failed", "locked", "killed"}
LooseCall   == [msg : Seq({DATA, CLEAR}), at : Spots, ends : Spots \X Spots, old : Int]

\* The types.
LooseTypeOK == /\ lock_kind \in {"rwlock", "whole", "none"}
               /\ writer \in Callers \cup {NONE} /\ readers \subseteq Callers
               /\ buffer \in Seq(Pieces) /\ live \subseteq Pieces /\ linked \subseteq Pieces
               /\ total_length \in Int
               /\ place \in [Callers -> LooseLabels] /\ frame \in [Callers -> LooseCall]
               /\ calls \in [Callers -> Nat]
               /\ twoWrites \in BOOLEAN /\ stray \in BOOLEAN /\ damaged \in BOOLEAN
               /\ left \in BOOLEAN

\* A chunk is of an earlier call, or of an earlier turn of the one that goes on; a
\* write that makes a chunk has something to write.
ChunksNew ==
    /\ \A p \in Callers : place[p] \in {"linking", "counting", "storing"} => frame[p].msg # <<>>
    /\ \A c \in live \cup linked :
          /\ c[2] <= calls[c[1]]
          /\ c[2] = calls[c[1]] /\ place[c[1]] \in {"writing", "linking"}
                => c[3] > Len(frame[c[1]].msg)
          /\ c[2] = calls[c[1]] /\ place[c[1]] \in {"counting", "storing"}
                => c[3] >= Len(frame[c[1]].msg)

\* The earlier version, which never gets to a chunk; only it returns with the lock.
WholeIdle ==
    /\ left => lock_kind = "whole"
    /\ \A p \in Callers : place[p] = "locked" => lock_kind = "whole"
    /\ lock_kind = "whole" =>
          /\ buffer = <<>> /\ live = {}
          /\ \A p \in Callers : place[p] \notin {"linking", "counting", "storing", "clearing",
                                             "deleting", "cleared"}

\* Writes have overlapped if there are two.
OneWriter == ~twoWrites => \A p, q \in Loose!Writers : p = q

\* The last chunk of the list.
End == IF buffer = <<>> THEN NONE ELSE Loose!Last(buffer)

\* As long as writes are kept apart a chunk goes where the list ends, and a clearing is at
\* the first chunk, with nothing before it and the second behind it; with the lock a read
\* is at a chunk of the list.
Placed ==
    /\ Loose!Apart => \A p \in Callers :
          /\ place[p] = "linking" => frame[p].at = End
          /\ place[p] = "clearing" => frame[p].at = Loose!ChunkAt(1)
          /\ place[p] = "deleting" => /\ buffer # <<>> /\ frame[p].at = buffer[1]
                                      /\ frame[p].ends = <<NONE, Loose!ChunkAt(2)>>
    /\ ~stray /\ lock_kind # "none" =>
          \A p \in Callers : place[p] = "walking" => frame[p].at \in Loose!Range(buffer) \cup {NONE}
    /\ \A p \in Callers : place[p] \in {"user", "read"} => frame[p].at = NONE

\* A single write knows the length of the list.
Counted ==
    ~twoWrites =>
        /\ Loose!Writers = {} => total_length = Len(buffer)
        /\ \A p \in Callers :
              /\ place[p] \in {"writing", "linking", "failed", "locked"} =>
                    total_length = Len(buffer)
              /\ place[p] \in {"counting", "storing"} => total_length + 1 = Len(buffer)
              /\ place[p] = "storing" => frame[p].old = total_length
              /\ place[p] = "cleared" => buffer = <<>>

LooseInv == /\ LooseTypeOK /\ ChunksNew /\ WholeIdle /\ OneWriter /\ Placed /\ Counted
            /\ Loose!IInv /\ Loose!NoUseAfterFree /\ Loose!NoChunkLost /\ Loose!LengthAtRest

\* The steps of the drivers; who stops changes nothing.
LEMMA LooseSteps ==
    ASSUME [Loose!Next]_(Loose!vars)
    PROVE  \/ \E p \in Callers : \/ Loose!CallRead(p) \/ Loose!BeginRead(p) \/ Loose!NextRead(p) \/ Loose!EndRead(p)
                                 \/ \E m \in Requests : Loose!CallWrite(p, m)
                                 \/ Loose!FindTail(p) \/ Loose!Link(p) \/ Loose!LoadLength(p) \/ Loose!StoreLength(p)
                                 \/ Loose!BeginClear(p) \/ Loose!LoadEnds(p) \/ Loose!LoseEnds(p)
                                 \/ Loose!Delete(p) \/ Loose!EndClear(p) \/ Loose!ResetLength(p)
                                 \/ Loose!CopyFails(p) \/ Loose!err_contents(p) \/ Loose!EndWrite(p)
                                 \/ Loose!NoRoom(p) \/ Loose!LockWrite(p) \/ Loose!memcpy(p) \/ Loose!err_data(p)
           \/ UNCHANGED Loose!vars
BY DEF Loose!Next, Loose!linked_read, Loose!linked_write, Loose!Stopped

\* The values of the list are chunks; the place of one is found, and there is no other one.
LEMMA PlaceOf ==
    ASSUME LooseTypeOK, NEW c \in Loose!Range(buffer)
    PROVE  /\ Loose!PlaceIn(c) \in 1 .. Len(buffer) /\ buffer[Loose!PlaceIn(c)] = c
           /\ Loose!IsInjective(buffer) => \A i \in DOMAIN buffer : buffer[i] = c => Loose!PlaceIn(c) = i
<1>1. Loose!PlaceIn(c) \in DOMAIN buffer /\ buffer[Loose!PlaceIn(c)] = c
  BY DEF Loose!Range, Loose!PlaceIn
<1>2. DOMAIN buffer = 1 .. Len(buffer)
  BY DEF LooseTypeOK
<1> QED  BY <1>1, <1>2 DEF Loose!IsInjective

\* What is somewhere in the list, if there is anything.
LEMMA SpotIs ==
    ASSUME LooseTypeOK, LooseBounds, NEW k \in Int
    PROVE  /\ Loose!ChunkAt(k) \in Spots /\ NONE \notin Pieces
           /\ k \in DOMAIN buffer => /\ Loose!ChunkAt(k) = buffer[k] /\ buffer[k] \in Pieces
                                     /\ buffer[k] \in Loose!Range(buffer) /\ buffer[k] # NONE
           /\ k \notin DOMAIN buffer => Loose!ChunkAt(k) = NONE
           /\ (1 \in DOMAIN buffer) <=> buffer # <<>>
<1>1. NONE \notin Pieces
  BY DEF LooseBounds, Pieces
<1>2. DOMAIN buffer = 1 .. Len(buffer) /\ Len(buffer) \in Nat /\ (Len(buffer) = 0 <=> buffer = <<>>)
  BY DEF LooseTypeOK
<1>3. k \in DOMAIN buffer => buffer[k] \in Pieces /\ buffer[k] \in Loose!Range(buffer)
  BY ElementOfSeq DEF LooseTypeOK, Loose!Range
<1> QED  BY <1>1, <1>2, <1>3 DEF Loose!ChunkAt, Spots

\* The last chunk is one.
LEMMA EndIn ==
    ASSUME LooseTypeOK, LooseBounds
    PROVE  /\ End \in Spots
           /\ buffer # <<>> => End \in Loose!Range(buffer) /\ End # NONE
           /\ buffer = <<>> => End = NONE
<1>1. CASE buffer # <<>>
  <2>1. Len(buffer) \in DOMAIN buffer /\ buffer[Len(buffer)] \in Pieces
    BY <1>1 DEF LooseTypeOK
  <2> QED  BY <1>1, <2>1 DEF End, Spots, Pieces, Loose!Last, Loose!Range, LooseBounds
<1>2. CASE buffer = <<>>
  BY <1>2 DEF End, Spots
<1> QED  BY <1>1, <1>2

\* What is linked is a chunk.
LEMMA ChunkIs ==
    ASSUME LooseTypeOK, NEW p \in Callers
    PROVE  Loose!Chunk(p) \in Pieces
BY DEF Loose!Chunk, Pieces, LooseTypeOK, LooseCall

\* The list up to a chunk of it is its beginning.
LEMMA UptoIs ==
    ASSUME LooseTypeOK, NEW at \in Loose!Range(buffer) \cup {NONE}
    PROVE  \E n \in 0 .. Len(buffer) :
              /\ Loose!Upto(at) \in Seq(Pieces) /\ Len(Loose!Upto(at)) = n
              /\ \A i \in 1 .. n : Loose!Upto(at)[i] = buffer[i]
              /\ at # NONE => n # 0 /\ buffer[n] = at
              /\ at = NONE => n = 0
<1>1. CASE at = NONE
  BY <1>1 DEF Loose!Upto, LooseTypeOK
<1>2. CASE at # NONE
  <2> DEFINE n == Loose!PlaceIn(at)
  <2>1. n \in 1 .. Len(buffer) /\ buffer[n] = at
    BY <1>2, PlaceOf
  <2>2. Loose!Upto(at) = SubSeq(buffer, 1, n)
    BY <1>2 DEF Loose!Upto
  <2> HIDE DEF n
  <2>3. /\ SubSeq(buffer, 1, n) \in Seq(Pieces) /\ Len(SubSeq(buffer, 1, n)) = n
        /\ \A i \in 1 .. n : SubSeq(buffer, 1, n)[i] = buffer[i]
    BY <2>1, SubSeqProperties DEF LooseTypeOK
  <2> QED  BY <1>2, <2>1, <2>2, <2>3
<1> QED  BY <1>1, <1>2

\* A new chunk gets into the list, behind the chunk it was to follow; if that is not in
\* the list any more the list stays.
LEMMA LinkIs ==
    ASSUME LooseTypeOK, LooseBounds, NEW p \in Callers
    PROVE  /\ Loose!LinkTo(p) \in Seq(Pieces)
           /\ Loose!IsInjective(buffer) /\ Loose!Chunk(p) \notin Loose!Range(buffer) /\ frame[p].at = End =>
                 /\ Loose!LinkTo(p) = Append(buffer, Loose!Chunk(p))
                 /\ Loose!Range(Loose!LinkTo(p)) = Loose!Range(buffer) \cup {Loose!Chunk(p)}
                 /\ Loose!IsInjective(Loose!LinkTo(p))
<1> DEFINE at == frame[p].at
           c  == Loose!Chunk(p)
<1>1. CASE at = NONE \/ at \in Loose!Range(buffer)
  <2> PICK n \in 0 .. Len(buffer) :
              /\ Loose!Upto(at) \in Seq(Pieces) /\ Len(Loose!Upto(at)) = n
              /\ \A i \in 1 .. n : Loose!Upto(at)[i] = buffer[i]
              /\ at # NONE => n # 0 /\ buffer[n] = at
              /\ at = NONE => n = 0
    BY <1>1, UptoIs
  <2> DEFINE s == Loose!LinkTo(p)
  <2>1. s = Append(Loose!Upto(at), c)
    BY <1>1 DEF Loose!LinkTo
  <2>2. c \in Pieces /\ buffer \in Seq(Pieces)
    BY ChunkIs DEF LooseTypeOK
  <2> HIDE DEF s, c
  <2>3. /\ s \in Seq(Pieces) /\ Len(s) = n + 1 /\ s[n + 1] = c
        /\ \A i \in 1 .. n : s[i] = buffer[i]
    BY <2>1, <2>2, AppendProperties
  <2>4. ASSUME Loose!IsInjective(buffer), c \notin Loose!Range(buffer), at = End
        PROVE  /\ s = Append(buffer, c) /\ Loose!Range(s) = Loose!Range(buffer) \cup {c}
               /\ Loose!IsInjective(s)
    <3>1. n = Len(buffer)
      <4>1. CASE buffer = <<>>
        BY <4>1
      <4>2. CASE buffer # <<>>
        <5>1. at # NONE /\ buffer[Len(buffer)] = at /\ n # 0 /\ buffer[n] = at
          BY <2>4, <4>2, EndIn DEF End, Loose!Last
        <5>2. Len(buffer) \in DOMAIN buffer /\ n \in DOMAIN buffer
          BY <2>2, <4>2, <5>1
        <5> QED  BY <2>4, <5>1, <5>2 DEF Loose!IsInjective
      <4> QED  BY <4>1, <4>2
    <3>2. s = Append(buffer, c)
      <4>1. Append(buffer, c) \in Seq(Pieces) /\ Len(Append(buffer, c)) = n + 1
            /\ Append(buffer, c)[n + 1] = c /\ \A i \in 1 .. n : Append(buffer, c)[i] = buffer[i]
        BY <2>2, <3>1, AppendProperties
      <4> QED  BY <2>3, <4>1, SeqEqual
    <3>3. \A i \in 1 .. n : buffer[i] \in Loose!Range(buffer) /\ buffer[i] # c
      BY <2>2, <2>4 DEF Loose!Range
    <3>4. Loose!Range(s) \subseteq Loose!Range(buffer) \cup {c}
      BY <2>3, <3>3 DEF Loose!Range
    <3>5. Loose!IsInjective(s)
      BY <2>2, <2>3, <2>4, <3>3 DEF Loose!IsInjective
    <3>6. Loose!Range(buffer) \cup {c} \subseteq Loose!Range(s)
      BY <2>2, <2>3, <3>1 DEF Loose!Range
    <3> QED  BY <3>2, <3>4, <3>5, <3>6
  <2> QED  BY <2>3, <2>4 DEF s, c
<1>2. CASE ~(at = NONE \/ at \in Loose!Range(buffer))
  <2>1. Loose!LinkTo(p) = buffer
    BY <1>2 DEF Loose!LinkTo
  <2>2. at # End
    BY <1>2, EndIn
  <2> QED  BY <2>1, <2>2 DEF LooseTypeOK
<1> QED  BY <1>1, <1>2

\* Whatever is joined is a list of chunks.
LEMMA JoinIs ==
    ASSUME LooseTypeOK, LooseBounds, NEW prev \in Spots, NEW next \in Spots
    PROVE  Loose!Join(prev, next) \in Seq(Pieces)
<1>1. Loose!From(next) \in Seq(Pieces)
  <2>1. CASE next \in Loose!Range(buffer) /\ next # NONE
    <3>1. Loose!From(next) = SubSeq(buffer, Loose!PlaceIn(next), Len(buffer))
      BY <2>1 DEF Loose!From
    <3>2. Loose!PlaceIn(next) \in 1 .. Len(buffer)
      BY <2>1, PlaceOf
    <3> QED  BY <3>1, <3>2, SubSeqProperties DEF LooseTypeOK
  <2>2. CASE ~(next \in Loose!Range(buffer) /\ next # NONE)
    BY <2>2, EmptySeq DEF Loose!From, Spots
  <2> QED  BY <2>1, <2>2
<1>2. CASE prev \in Loose!Range(buffer) \cup {NONE}
  <2>1. Loose!Upto(prev) \in Seq(Pieces)
    BY <1>2, UptoIs
  <2> QED  BY <1>1, <1>2, <2>1, ConcatProperties DEF Loose!Join
<1>3. CASE prev \notin Loose!Range(buffer) \cup {NONE}
  BY <1>3 DEF Loose!Join, LooseTypeOK
<1> QED  BY <1>2, <1>3

\* The chunks without the first one.
LEMMA TailIs ==
    ASSUME LooseTypeOK, LooseBounds, Loose!IsInjective(buffer), buffer # <<>>,
           NEW s, s = Loose!Join(NONE, Loose!ChunkAt(2))
    PROVE  /\ s \in Seq(Pieces) /\ Loose!Range(s) = Loose!Range(buffer) \ {buffer[1]}
           /\ Loose!IsInjective(s)
           /\ Loose!ChunkAt(2) = IF 1 \in DOMAIN s THEN s[1] ELSE NONE
<1>1. /\ DOMAIN buffer = 1 .. Len(buffer) /\ Len(buffer) \in Nat \ {0} /\ buffer \in Seq(Pieces)
      /\ \A i \in DOMAIN buffer : buffer[i] \in Pieces
  BY DEF LooseTypeOK
<1>2. s = <<>> \o Loose!From(Loose!ChunkAt(2))
  BY DEF Loose!Join, Loose!Upto
<1>3. \A i, j \in DOMAIN buffer : buffer[i] = buffer[j] => i = j
  BY DEF Loose!IsInjective
<1>4. s \in Seq(Pieces) /\ Len(s) = Len(buffer) - 1 /\ \A i \in 1 .. Len(s) : s[i] = buffer[i + 1]
  <2>1. CASE 2 \in DOMAIN buffer
    <3>1. Loose!ChunkAt(2) = buffer[2] /\ buffer[2] # NONE /\ buffer[2] \in Loose!Range(buffer)
      BY <2>1, SpotIs
    <3>2. Loose!PlaceIn(buffer[2]) = 2
      BY <2>1, <3>1, PlaceOf
    <3>3. Loose!From(Loose!ChunkAt(2)) = SubSeq(buffer, 2, Len(buffer))
      BY <3>1, <3>2 DEF Loose!From
    <3>4. /\ SubSeq(buffer, 2, Len(buffer)) \in Seq(Pieces)
          /\ Len(SubSeq(buffer, 2, Len(buffer))) = Len(buffer) - 1
          /\ \A i \in 1 .. Len(buffer) - 1 : SubSeq(buffer, 2, Len(buffer))[i] = buffer[i + 1]
      BY <1>1, <2>1, SubSeqProperties
    <3>5. s = SubSeq(buffer, 2, Len(buffer))
      BY <1>2, <3>3, <3>4, ConcatEmptySeq
    <3> QED  BY <1>1, <3>4, <3>5
  <2>2. CASE 2 \notin DOMAIN buffer
    <3>1. Loose!ChunkAt(2) = NONE /\ Len(buffer) = 1
      BY <1>1, <2>2, SpotIs
    <3>2. s = <<>>
      BY <1>2, <3>1, ConcatEmptySeq, EmptySeq DEF Loose!From
    <3>3. <<>> \in Seq(Pieces) /\ Len(<<>>) = 0
      BY EmptySeq
    <3>4. Len(s) = 0 /\ Len(buffer) - 1 = 0
      BY <3>1, <3>2, <3>3
    <3>5. 1 .. Len(s) = {}
      BY <3>4
    <3> QED  BY <3>2, <3>3, <3>4, <3>5
  <2> QED  BY <2>1, <2>2
<1>5. DOMAIN s = 1 .. Len(buffer) - 1 /\ \A i \in DOMAIN s : s[i] = buffer[i + 1]
  BY <1>1, <1>4
<1>6. Loose!Range(s) \subseteq Loose!Range(buffer) \ {buffer[1]}
  BY <1>1, <1>3, <1>5 DEF Loose!Range
<1>7. Loose!Range(buffer) \ {buffer[1]} \subseteq Loose!Range(s)
  <2> SUFFICES ASSUME NEW i \in DOMAIN buffer, i # 1 PROVE buffer[i] \in Loose!Range(s)
    BY DEF Loose!Range
  <2>1. i - 1 \in DOMAIN s /\ s[i - 1] = buffer[i]
    BY <1>1, <1>5
  <2> QED  BY <2>1 DEF Loose!Range
<1>8. Loose!IsInjective(s)
  <2> SUFFICES ASSUME NEW i \in DOMAIN s, NEW j \in DOMAIN s, s[i] = s[j] PROVE i = j
    BY DEF Loose!IsInjective
  <2>1. i \in Int /\ j \in Int /\ i + 1 \in DOMAIN buffer /\ j + 1 \in DOMAIN buffer
    BY <1>1, <1>5
  <2>2. i + 1 = j + 1
    BY <1>3, <1>5, <2>1
  <2> QED  BY <2>1, <2>2
<1>9. Loose!ChunkAt(2) = IF 1 \in DOMAIN s THEN s[1] ELSE NONE
  <2>1. 1 \in DOMAIN s <=> 2 \in DOMAIN buffer
    BY <1>1, <1>5
  <2>2. 1 \in DOMAIN s => s[1] = buffer[2]
    BY <1>5
  <2> QED  BY <2>1, <2>2 DEF Loose!ChunkAt
<1> QED  BY <1>4, <1>6, <1>7, <1>8, <1>9

\* It was never in the list before.
LEMMA NewChunk ==
    ASSUME LooseTypeOK, ChunksNew, NEW p \in Callers, place[p] = "linking"
    PROVE  Loose!Chunk(p) \notin live \cup linked
<1>1. Loose!Chunk(p) = <<p, calls[p], Len(frame[p].msg)>> /\ Len(frame[p].msg) \in Nat
  BY DEF Loose!Chunk, LooseTypeOK, LooseCall
<1>2. Loose!Chunk(p)[1] = p /\ Loose!Chunk(p)[2] = calls[p] /\ Loose!Chunk(p)[3] = Len(frame[p].msg)
  BY <1>1
<1> QED  BY <1>1, <1>2 DEF ChunksNew

\* A call's variables with new values.
LEMMA CallFields ==
    ASSUME NEW M, NEW A, NEW E, NEW call \in [msg : M, at : A, ends : E, old : Int], NEW m \in M, NEW a \in A
    PROVE  [call EXCEPT !.msg = m, !.at = a, !.old = 0] \in [msg : M, at : A, ends : E, old : Int]
<1> DEFINE twice == [call EXCEPT !.msg = m, !.at = a]
<1>1. [call EXCEPT !.msg = m, !.at = a, !.old = 0] = [twice EXCEPT !.old = 0]
  BY Zenon
<1>2. twice \in [msg : M, at : A, ends : E, old : Int]
  OBVIOUS
<1> HIDE DEF twice
<1>3. [twice EXCEPT !.old = 0] \in [msg : M, at : A, ends : E, old : Int]
  BY <1>2
<1> QED  BY <1>1, <1>3

\* What a call's variables become.
LEMMA LooseCalls ==
    ASSUME LooseTypeOK, NEW p \in Callers
    PROVE  /\ Loose!NoCall \in LooseCall /\ frame[p].ends[1] \in Spots /\ frame[p].ends[2] \in Spots
           /\ \A m \in Seq({DATA, CLEAR}) : [frame[p] EXCEPT !.msg = m] \in LooseCall
           /\ \A c \in Spots : [frame[p] EXCEPT !.at = c] \in LooseCall
           /\ \A e \in Spots \X Spots : [frame[p] EXCEPT !.ends = e] \in LooseCall
           /\ \A n \in Int : [frame[p] EXCEPT !.old = n] \in LooseCall
           /\ \A m \in Seq({DATA, CLEAR}) :
                 [frame[p] EXCEPT !.msg = m, !.at = NONE, !.old = 0] \in LooseCall
<1>1. frame[p] \in LooseCall
  BY DEF LooseTypeOK
<1>2. Loose!NoCall \in LooseCall
  BY DEF Loose!NoCall, LooseCall, Spots
<1>3. \A m \in Seq({DATA, CLEAR}) :
         /\ [frame[p] EXCEPT !.msg = m] \in LooseCall
         /\ [frame[p] EXCEPT !.msg = m, !.at = NONE, !.old = 0] \in LooseCall
  <2> TAKE m \in Seq({DATA, CLEAR})
  <2>1. [frame[p] EXCEPT !.msg = m] \in LooseCall
    BY <1>1 DEF LooseCall
  <2>2. [frame[p] EXCEPT !.msg = m, !.at = NONE, !.old = 0] \in LooseCall
    <3>1. NONE \in Spots
      BY DEF Spots
    <3> QED  BY <1>1, <3>1, CallFields DEF LooseCall
  <2> QED  BY <2>1, <2>2
<1>4. \A c \in Spots : [frame[p] EXCEPT !.at = c] \in LooseCall
  BY <1>1 DEF LooseCall
<1>5. /\ \A e \in Spots \X Spots : [frame[p] EXCEPT !.ends = e] \in LooseCall
      /\ frame[p].ends[1] \in Spots /\ frame[p].ends[2] \in Spots
  BY <1>1 DEF LooseCall
<1>6. \A n \in Int : [frame[p] EXCEPT !.old = n] \in LooseCall
  BY <1>1 DEF LooseCall
<1> QED  BY <1>2, <1>3, <1>4, <1>5, <1>6

\* A read goes to a chunk of the list.
LEMMA NextAt ==
    ASSUME LooseTypeOK, NEW p \in Callers, Loose!NextRead(p)
    PROVE  \E j \in 1 .. Len(buffer) : frame' = [frame EXCEPT ![p].at = buffer[j]]
<1> DEFINE at == frame[p].at
           k  == IF at = NONE THEN 0 ELSE IF at \in Loose!Range(buffer)
                 THEN Loose!PlaceIn(at) ELSE Len(buffer)
<1>1. Len(buffer) \in Nat
  BY DEF LooseTypeOK
<1>2. k \in 0 .. Len(buffer)
  <2>1. CASE at \in Loose!Range(buffer) /\ at # NONE
    BY <1>1, <2>1, PlaceOf
  <2>2. CASE ~(at \in Loose!Range(buffer) /\ at # NONE)
    BY <1>1, <2>2
  <2> QED  BY <2>1, <2>2
<1>3. k < Len(buffer) /\ frame' = [frame EXCEPT ![p].at = buffer[k + 1]]
  BY DEF Loose!NextRead
<1> HIDE DEF k
<1>4. k + 1 \in 1 .. Len(buffer)
  BY <1>1, <1>2, <1>3
<1> QED  BY <1>3, <1>4

\* No list, no chunks.
LEMMA NoneInEmpty == Loose!Range(<<>>) = {} /\ Loose!IsInjective(<<>>)
BY DEF Loose!Range, Loose!IsInjective

\* Who changes the list while writes are kept apart is alone at it.
LEMMA AloneAt ==
    ASSUME LooseBounds, LooseTypeOK, WholeIdle, OneWriter, Loose!IInv, Loose!Apart,
           NEW p \in Callers, place[p] \in {"linking", "clearing", "deleting"}, NEW q \in Callers \ {p}
    PROVE  /\ place[q] \notin {"linking", "clearing", "deleting"}
           /\ lock_kind # "none" => place[q] # "walking"
BY DEF Loose!Apart, Loose!IInv, WholeIdle, OneWriter, Loose!Writers, LooseTypeOK, LooseBounds

\* Who unlocks the lock of another one has written at the same time.
LEMMA StrayIs ==
    ASSUME LooseBounds, LooseTypeOK, WholeIdle, OneWriter, Loose!IInv, Loose!NoUseAfterFree,
           NEW p \in Callers, place[p] \in {"linking", "clearing"}
    PROVE  (stray \/ writer \notin {NONE, p}) => twoWrites
<1>1. ASSUME ~stray, NEW q \in Callers, writer = q, q # p
      PROVE  twoWrites
  <2>1. lock_kind = "rwlock" /\ place[q] \in {"linking", "clearing", "deleting"}
    BY <1>1 DEF Loose!IInv, WholeIdle, LooseTypeOK, LooseBounds
  <2> QED  BY <1>1, <2>1 DEF OneWriter, Loose!Writers
<1> QED  BY <1>1 DEF Loose!NoUseAfterFree, LooseTypeOK

\* What Link does to the list.
LEMMA LinkStep ==
    ASSUME LooseBounds, LooseTypeOK, ChunksNew, Placed, Loose!IInv, NEW p \in Callers, Loose!Link(p)
    PROVE  /\ place[p] = "linking" /\ place' = [place EXCEPT ![p] = "counting"]
           /\ UNCHANGED <<lock_kind, readers, total_length, frame, calls, twoWrites, left>>
           /\ writer' = NONE /\ stray' = (stray \/ writer \notin {NONE, p})
           /\ damaged' = (damaged \/ (frame[p].at # NONE /\ frame[p].at \notin live))
           /\ live' = live \cup {Loose!Chunk(p)} /\ linked' = linked \cup {Loose!Chunk(p)}
           /\ Loose!Apart => /\ Loose!Range(buffer') = Loose!Range(buffer) \cup {Loose!Chunk(p)}
                             /\ Loose!IsInjective(buffer') /\ Len(buffer') = Len(buffer) + 1
<1>1. /\ place[p] = "linking" /\ place' = [place EXCEPT ![p] = "counting"]
      /\ UNCHANGED <<lock_kind, readers, total_length, frame, calls, twoWrites, left>>
      /\ writer' = NONE /\ stray' = (stray \/ writer \notin {NONE, p})
      /\ damaged' = (damaged \/ (frame[p].at # NONE /\ frame[p].at \notin live))
      /\ live' = live \cup {Loose!Chunk(p)} /\ linked' = linked \cup {Loose!Chunk(p)}
      /\ buffer' = Loose!LinkTo(p)
  BY DEF Loose!Link, Loose!Goto, Loose!Use, Loose!write_unlock
<1>2. Loose!Apart => /\ Loose!Chunk(p) \notin Loose!Range(buffer) /\ Loose!IsInjective(buffer)
                     /\ frame[p].at = End
  BY <1>1, NewChunk DEF Loose!IInv, Placed
<1>3. buffer \in Seq(Pieces) /\ Loose!Chunk(p) \in Pieces
  BY ChunkIs DEF LooseTypeOK
<1>4. Len(Append(buffer, Loose!Chunk(p))) = Len(buffer) + 1
  BY <1>3, AppendProperties
<1> QED  BY <1>1, <1>2, <1>4, LinkIs

\* What Delete does to the list.
LEMMA DeleteStep ==
    ASSUME LooseBounds, LooseTypeOK, Placed, Loose!IInv, NEW p \in Callers, Loose!Delete(p)
    PROVE  /\ place[p] = "deleting" /\ place' = [place EXCEPT ![p] = "clearing"]
           /\ UNCHANGED <<lock_kind, writer, readers, total_length, calls, twoWrites, stray, left>>
           /\ frame' = [frame EXCEPT ![p].at = frame[p].ends[2]]
           /\ live' = live \ {frame[p].at} /\ linked' = linked \ {frame[p].at}
           /\ buffer' \in Seq(Pieces)
           /\ Loose!Apart => /\ Loose!Range(buffer') = Loose!Range(buffer) \ {frame[p].at}
                             /\ Loose!IsInjective(buffer') /\ frame[p].ends[2] = Loose!ChunkAt(1)'
                             /\ damaged' = damaged
<1> DEFINE s == Loose!Join(frame[p].ends[1], frame[p].ends[2])
<1>1. /\ place[p] = "deleting" /\ place' = [place EXCEPT ![p] = "clearing"]
      /\ UNCHANGED <<lock_kind, writer, readers, total_length, calls, twoWrites, stray, left>>
      /\ frame' = [frame EXCEPT ![p].at = frame[p].ends[2]]
      /\ live' = live \ {frame[p].at} /\ linked' = linked \ {frame[p].at}
      /\ buffer' = s
      /\ damaged' = (damaged \/ ~({frame[p].at, frame[p].ends[1], frame[p].ends[2]} \ {NONE} \subseteq live))
  BY DEF Loose!Delete, Loose!Goto, Loose!lock
<1>2. s \in Seq(Pieces)
  BY JoinIs, LooseCalls
<1>3. ASSUME Loose!Apart
      PROVE  /\ frame[p].at = buffer[1] /\ frame[p].ends[1] = NONE /\ frame[p].ends[2] = Loose!ChunkAt(2)
             /\ buffer # <<>> /\ Loose!IsInjective(buffer)
  BY <1>1, <1>3 DEF Placed, Loose!IInv
<1>4. ASSUME Loose!Apart
      PROVE  /\ Loose!Range(s) = Loose!Range(buffer) \ {frame[p].at} /\ Loose!IsInjective(s)
             /\ frame[p].ends[2] = IF 1 \in DOMAIN s THEN s[1] ELSE NONE
  <2>1. s = Loose!Join(NONE, Loose!ChunkAt(2))
    BY <1>3, <1>4
  <2> HIDE DEF s
  <2> QED  BY <1>3, <1>4, <2>1, TailIs
<1>5. ASSUME Loose!Apart PROVE {frame[p].at, frame[p].ends[1], frame[p].ends[2]} \ {NONE} \subseteq live
  <2>1. Loose!ChunkAt(2) \in Loose!Range(buffer) \cup {NONE} /\ buffer[1] \in Loose!Range(buffer)
    BY <1>3, <1>5, SpotIs
  <2> QED  BY <1>3, <1>5, <2>1 DEF Loose!IInv
<1> HIDE DEF s
<1> QED  BY <1>1, <1>2, <1>4, <1>5 DEF Loose!ChunkAt, LooseTypeOK

\* The neighbours that a clearing loads.
LEMMA EndsStep ==
    ASSUME LooseBounds, LooseTypeOK, Placed, Loose!IInv, NEW p \in Callers, Loose!LoadEnds(p)
    PROVE  /\ place[p] = "clearing" /\ place' = [place EXCEPT ![p] = "deleting"]
           /\ UNCHANGED <<lock_kind, writer, readers, buffer, live, linked, total_length, calls,
                          twoWrites, stray, left>>
           /\ damaged' = (damaged \/ (frame[p].at # NONE /\ frame[p].at \notin live))
           /\ \E e \in Spots \X Spots :
                 /\ frame' = [frame EXCEPT ![p].ends = e]
                 /\ Loose!Apart => /\ buffer # <<>> /\ frame[p].at = buffer[1]
                                   /\ e = <<NONE, Loose!ChunkAt(2)>>
<1> DEFINE k == Loose!PlaceIn(frame[p].at)
           e == <<Loose!ChunkAt(k - 1), Loose!ChunkAt(k + 1)>>
<1>1. /\ place[p] = "clearing" /\ place' = [place EXCEPT ![p] = "deleting"]
      /\ UNCHANGED <<lock_kind, writer, readers, buffer, live, linked, total_length, calls,
                     twoWrites, stray, left>>
      /\ damaged' = (damaged \/ (frame[p].at # NONE /\ frame[p].at \notin live))
      /\ frame' = [frame EXCEPT ![p].ends = e] /\ frame[p].at \in Loose!Range(buffer)
  BY DEF Loose!LoadEnds, Loose!Goto, Loose!Use, Loose!lock, Loose!list
<1>2. k \in 1 .. Len(buffer) /\ buffer[k] = frame[p].at /\ Len(buffer) \in Nat
  BY <1>1, PlaceOf DEF LooseTypeOK
<1>3. e \in Spots \X Spots
  <2> HIDE DEF k
  <2>1. k - 1 \in Int /\ k + 1 \in Int
    BY <1>2
  <2> QED  BY <2>1, SpotIs
<1>4. ASSUME Loose!Apart PROVE buffer # <<>> /\ frame[p].at = buffer[1] /\ e = <<NONE, Loose!ChunkAt(2)>>
  <2>1. buffer # <<>> /\ 1 \in DOMAIN buffer
    BY <1>1, <1>2, SpotIs, NoneInEmpty
  <2>2. frame[p].at = buffer[1] /\ Loose!IsInjective(buffer)
    BY <1>1, <1>4, <2>1, SpotIs DEF Placed, Loose!IInv
  <2>3. k = 1
    BY <1>1, <2>1, <2>2, PlaceOf
  <2>4. Loose!ChunkAt(0) = NONE
    BY SpotIs DEF LooseTypeOK
  <2> QED  BY <2>1, <2>2, <2>3, <2>4
<1> HIDE DEF e
<1> QED  BY <1>1, <1>3, <1>4

\* The types are kept.
LEMMA LooseTypes ==
    ASSUME LooseBounds, LooseTypeOK, ChunksNew, Placed, Loose!IInv, [Loose!Next]_(Loose!vars)
    PROVE  LooseTypeOK'
<1>1. ASSUME NEW p \in Callers, Loose!NextRead(p) PROVE LooseTypeOK'
  <2> PICK j \in 1 .. Len(buffer) : frame' = [frame EXCEPT ![p].at = buffer[j]]
    BY <1>1, NextAt
  <2>1. [frame[p] EXCEPT !.at = buffer[j]] \in LooseCall
    <3>1. buffer[j] \in Spots
      BY ElementOfSeq DEF LooseTypeOK, Spots
    <3> QED  BY <3>1, LooseCalls
  <2>2. frame' \in [Callers -> LooseCall]
    BY <2>1 DEF LooseTypeOK
  <2> QED  BY <1>1, <2>2 DEF Loose!NextRead, Loose!Use, Loose!lock, Loose!list, LooseTypeOK
<1>2. ASSUME NEW p \in Callers, NEW m \in Requests, Loose!CallWrite(p, m) PROVE LooseTypeOK'
  <2>1. [frame[p] EXCEPT !.msg = m] \in LooseCall
    BY LooseCalls DEF LooseBounds
  <2> QED  BY <1>2, <2>1 DEF Loose!CallWrite, Loose!Call, Loose!Goto, Loose!lock,
       Loose!list, LooseTypeOK, LooseLabels
<1>3. ASSUME NEW p \in Callers, Loose!FindTail(p) PROVE LooseTypeOK'
  <2>1. [frame[p] EXCEPT !.at = End] \in LooseCall
    BY EndIn, LooseCalls
  <2>2. frame' = [frame EXCEPT ![p].at = End]
    BY <1>3 DEF Loose!FindTail, End
  <2> QED  BY <1>3, <2>1, <2>2 DEF Loose!FindTail, Loose!Goto, Loose!write_lock, Loose!lock,
       Loose!list, Loose!history, LooseTypeOK, LooseLabels
<1>4. ASSUME NEW p \in Callers, Loose!Link(p) PROVE LooseTypeOK'
  <2>1. buffer' \in Seq(Pieces) /\ live' \subseteq Pieces /\ linked' \subseteq Pieces
    BY <1>4, LinkIs, ChunkIs DEF Loose!Link, LooseTypeOK
  <2> QED  BY <1>4, <2>1 DEF Loose!Link, Loose!Goto, Loose!Use, Loose!write_unlock,
       LooseTypeOK, LooseLabels
<1>5. ASSUME NEW p \in Callers, Loose!LoadLength(p) PROVE LooseTypeOK'
  <2>1. [frame[p] EXCEPT !.old = total_length] \in LooseCall
    BY LooseCalls DEF LooseTypeOK
  <2> QED  BY <1>5, <2>1 DEF Loose!LoadLength, Loose!Goto, Loose!lock, Loose!list,
       Loose!history, LooseTypeOK, LooseLabels
<1>6. ASSUME NEW p \in Callers, Loose!StoreLength(p) PROVE LooseTypeOK'
  <2>1. frame[p].msg # <<>> /\ frame[p].msg \in Seq({DATA, CLEAR}) /\ frame[p].old \in Int
    BY <1>6 DEF Loose!StoreLength, Loose!Goto, ChunksNew, LooseTypeOK, LooseCall
  <2>2. Tail(frame[p].msg) \in Seq({DATA, CLEAR})
    BY <2>1, HeadTailProperties
  <2>3. [frame[p] EXCEPT !.msg = Tail(@), !.at = NONE, !.old = 0] \in LooseCall
    BY <2>2, LooseCalls
  <2> QED  BY <1>6, <2>1, <2>3 DEF Loose!StoreLength, Loose!Goto, Loose!lock, Loose!list,
       Loose!history, LooseTypeOK, LooseLabels
<1>7. ASSUME NEW p \in Callers, Loose!BeginClear(p) PROVE LooseTypeOK'
  <2>1. Loose!ChunkAt(1) \in Spots
    BY SpotIs
  <2>2. [frame[p] EXCEPT !.at = Loose!ChunkAt(1)] \in LooseCall
    BY <2>1, LooseCalls
  <2> QED  BY <1>7, <2>2 DEF Loose!BeginClear, Loose!Goto, Loose!write_lock, Loose!lock,
       Loose!list, Loose!history, LooseTypeOK, LooseLabels
<1>8. ASSUME NEW p \in Callers, Loose!LoadEnds(p) PROVE LooseTypeOK'
  <2> PICK e \in Spots \X Spots : frame' = [frame EXCEPT ![p].ends = e]
    BY <1>8, EndsStep
  <2>1. [frame[p] EXCEPT !.ends = e] \in LooseCall
    BY LooseCalls
  <2> QED  BY <1>8, <2>1, EndsStep DEF LooseTypeOK, LooseLabels
<1>9. ASSUME NEW p \in Callers, Loose!LoseEnds(p) PROVE LooseTypeOK'
  <2>1. [frame[p] EXCEPT !.at = NONE] \in LooseCall
    BY LooseCalls DEF Spots
  <2> QED  BY <1>9, <2>1 DEF Loose!LoseEnds, Loose!Goto, Loose!Use, Loose!lock, Loose!list,
       LooseTypeOK, LooseLabels
<1>10. ASSUME NEW p \in Callers, Loose!Delete(p) PROVE LooseTypeOK'
  <2>1. [frame[p] EXCEPT !.at = frame[p].ends[2]] \in LooseCall
    BY LooseCalls
  <2>2. damaged' \in BOOLEAN
    BY <1>10 DEF Loose!Delete, LooseTypeOK
  <2>3. /\ UNCHANGED <<lock_kind, writer, readers, total_length, calls, twoWrites, stray, left>>
        /\ live' \subseteq live /\ linked' \subseteq linked /\ buffer' \in Seq(Pieces)
        /\ place' = [place EXCEPT ![p] = "clearing"]
        /\ frame' = [frame EXCEPT ![p].at = frame[p].ends[2]]
    BY <1>10, DeleteStep
  <2> QED  BY <2>1, <2>2, <2>3 DEF LooseTypeOK, LooseLabels
<1> USE DEF Loose!Goto, Loose!Return, Loose!Call, Loose!Use, Loose!read_lock,
       Loose!read_unlock, Loose!write_lock, Loose!write_unlock, Loose!lock, Loose!list,
       Loose!history, LooseTypeOK, LooseLabels
<1>11. ASSUME NEW p \in Callers, Loose!CallRead(p) PROVE LooseTypeOK'
  BY <1>11 DEF Loose!CallRead
<1>12. ASSUME NEW p \in Callers, Loose!BeginRead(p) PROVE LooseTypeOK'
  BY <1>12 DEF Loose!BeginRead
<1>13. ASSUME NEW p \in Callers, Loose!EndRead(p) PROVE LooseTypeOK'
  BY <1>13, LooseCalls DEF Loose!EndRead
<1>14. ASSUME NEW p \in Callers, Loose!EndClear(p) PROVE LooseTypeOK'
  BY <1>14 DEF Loose!EndClear
<1>15. ASSUME NEW p \in Callers, Loose!ResetLength(p) PROVE LooseTypeOK'
  BY <1>15 DEF Loose!ResetLength
<1>16. ASSUME NEW p \in Callers, Loose!CopyFails(p) PROVE LooseTypeOK'
  BY <1>16 DEF Loose!CopyFails
<1>17. ASSUME NEW p \in Callers, Loose!err_contents(p) PROVE LooseTypeOK'
  BY <1>17, LooseCalls DEF Loose!err_contents
<1>18. ASSUME NEW p \in Callers, Loose!EndWrite(p) PROVE LooseTypeOK'
  BY <1>18, LooseCalls DEF Loose!EndWrite
<1>19. ASSUME NEW p \in Callers, Loose!NoRoom(p) PROVE LooseTypeOK'
  BY <1>19 DEF Loose!NoRoom
<1>20. ASSUME NEW p \in Callers, Loose!LockWrite(p) PROVE LooseTypeOK'
  BY <1>20 DEF Loose!LockWrite
<1>21. ASSUME NEW p \in Callers, Loose!memcpy(p) PROVE LooseTypeOK'
  BY <1>21 DEF Loose!memcpy
<1>22. ASSUME NEW p \in Callers, Loose!err_data(p) PROVE LooseTypeOK'
  BY <1>22, LooseCalls DEF Loose!err_data
<1>23. CASE UNCHANGED Loose!vars
  BY <1>23 DEF Loose!vars
<1> QED  BY LooseSteps, <1>1, <1>2, <1>3, <1>4, <1>5, <1>6, <1>7, <1>8, <1>9, <1>10, <1>11,
     <1>12, <1>13, <1>14, <1>15, <1>16, <1>17, <1>18, <1>19, <1>20, <1>21, <1>22, <1>23

\* A chunk is new, whichever call makes it.
LEMMA LooseChunks ==
    ASSUME LooseBounds, LooseTypeOK, ChunksNew, WholeIdle, Placed, Loose!IInv,
           [Loose!Next]_(Loose!vars)
    PROVE  ChunksNew'
<1>1. ASSUME NEW p \in Callers, Loose!CallRead(p) PROVE ChunksNew'
  <2>1. /\ UNCHANGED <<live, linked>> /\ place' = [place EXCEPT ![p] = "read"]
        /\ calls' = [calls EXCEPT ![p] = @ + 1]
        /\ \A q \in Callers \ {p} : frame'[q] = frame[q]
    BY <1>1 DEF Loose!CallRead, Loose!Call, Loose!Goto, LooseTypeOK, Loose!lock, Loose!list,
         Loose!history
  <2>2. ASSUME NEW c \in live \cup linked
        PROVE  /\ c[2] <= calls'[c[1]]
               /\ c[2] = calls'[c[1]] /\ place'[c[1]] \in {"writing", "linking"}
                     => c[3] > Len(frame'[c[1]].msg)
               /\ c[2] = calls'[c[1]] /\ place'[c[1]] \in {"counting", "storing"}
                     => c[3] >= Len(frame'[c[1]].msg)
    <3>1. c[1] \in Callers /\ c[2] \in Nat /\ c[2] <= calls[c[1]] /\ calls[c[1]] \in Nat
      BY DEF LooseTypeOK, Pieces, ChunksNew
    <3>2. CASE c[1] = p
      BY <2>1, <3>1, <3>2 DEF LooseTypeOK
    <3>3. CASE c[1] # p
      BY <2>1, <3>1, <3>3 DEF ChunksNew, LooseTypeOK
    <3> QED  BY <3>2, <3>3
  <2>3. \A q \in Callers : place'[q] \in {"linking", "counting", "storing"} => frame'[q].msg # <<>>
    BY <2>1 DEF ChunksNew, LooseTypeOK
  <2> QED  BY <2>1, <2>2, <2>3 DEF ChunksNew
<1>2. ASSUME NEW p \in Callers, NEW m \in Requests, Loose!CallWrite(p, m) PROVE ChunksNew'
  <2>1. /\ UNCHANGED <<live, linked>> /\ place' = [place EXCEPT ![p] = "writing"]
        /\ calls' = [calls EXCEPT ![p] = @ + 1]
        /\ \A q \in Callers \ {p} : frame'[q] = frame[q]
    BY <1>2 DEF Loose!CallWrite, Loose!Call, Loose!Goto, LooseTypeOK, Loose!lock, Loose!list,
         Loose!history
  <2>2. ASSUME NEW c \in live \cup linked
        PROVE  /\ c[2] <= calls'[c[1]]
               /\ c[2] = calls'[c[1]] /\ place'[c[1]] \in {"writing", "linking"}
                     => c[3] > Len(frame'[c[1]].msg)
               /\ c[2] = calls'[c[1]] /\ place'[c[1]] \in {"counting", "storing"}
                     => c[3] >= Len(frame'[c[1]].msg)
    <3>1. c[1] \in Callers /\ c[2] \in Nat /\ c[2] <= calls[c[1]] /\ calls[c[1]] \in Nat
      BY DEF LooseTypeOK, Pieces, ChunksNew
    <3>2. CASE c[1] = p
      BY <2>1, <3>1, <3>2 DEF LooseTypeOK
    <3>3. CASE c[1] # p
      BY <2>1, <3>1, <3>3 DEF ChunksNew, LooseTypeOK
    <3> QED  BY <3>2, <3>3
  <2>3. \A q \in Callers : place'[q] \in {"linking", "counting", "storing"} => frame'[q].msg # <<>>
    BY <2>1 DEF ChunksNew, LooseTypeOK
  <2> QED  BY <2>1, <2>2, <2>3 DEF ChunksNew
<1>3. ASSUME NEW p \in Callers, Loose!Link(p) PROVE ChunksNew'
  <2>1. place[p] = "linking" /\ place' = [place EXCEPT ![p] = "counting"] /\ UNCHANGED <<frame, calls>>
    BY <1>3 DEF Loose!Link, Loose!Goto
  <2>2. live' \cup linked' = live \cup linked \cup {Loose!Chunk(p)}
    BY <1>3 DEF Loose!Link
  <2>3. /\ Loose!Chunk(p)[1] = p /\ Loose!Chunk(p)[2] = calls[p] /\ Loose!Chunk(p)[3] = Len(frame[p].msg)
        /\ Len(frame[p].msg) \in Nat /\ calls[p] \in Nat
    BY DEF Loose!Chunk, LooseTypeOK, LooseCall
  <2>4. ASSUME NEW c \in live \cup linked
        PROVE  /\ c[2] <= calls[c[1]]
               /\ c[2] = calls[c[1]] /\ place'[c[1]] \in {"writing", "linking"}
                     => c[3] > Len(frame[c[1]].msg)
               /\ c[2] = calls[c[1]] /\ place'[c[1]] \in {"counting", "storing"}
                     => c[3] >= Len(frame[c[1]].msg)
    <3>1. c[1] \in Callers /\ c[3] \in Nat /\ Len(frame[c[1]].msg) \in Nat
      BY DEF LooseTypeOK, LooseCall, Pieces
    <3> QED  BY <2>1, <3>1 DEF ChunksNew, LooseTypeOK
  <2>5. \A q \in Callers : place'[q] \in {"linking", "counting", "storing"} => frame[q].msg # <<>>
    BY <2>1 DEF ChunksNew, LooseTypeOK
  <2> QED  BY <2>1, <2>2, <2>3, <2>4, <2>5 DEF ChunksNew, LooseTypeOK
<1>4. ASSUME NEW p \in Callers, Loose!StoreLength(p) PROVE ChunksNew'
  <2>1. /\ place[p] = "storing" /\ place' = [place EXCEPT ![p] = "writing"]
        /\ UNCHANGED <<calls, live, linked>>
        /\ frame' = [frame EXCEPT ![p].msg = Tail(@), ![p].at = NONE, ![p].old = 0]
    BY <1>4 DEF Loose!StoreLength, Loose!Goto, Loose!list
  <2>2. frame[p].msg # <<>> /\ frame[p].msg \in Seq({DATA, CLEAR})
    BY <2>1 DEF ChunksNew, LooseTypeOK, LooseCall
  <2>3. /\ Len(Tail(frame[p].msg)) = Len(frame[p].msg) - 1 /\ Len(frame[p].msg) \in Nat
        /\ frame'[p].msg = Tail(frame[p].msg)
    BY <2>1, <2>2, HeadTailProperties DEF LooseTypeOK, LooseCall
  <2>4. \A q \in Callers \ {p} : frame'[q] = frame[q] /\ place'[q] = place[q]
    BY <2>1 DEF LooseTypeOK
  <2>5. ASSUME NEW c \in live \cup linked
        PROVE  /\ c[2] <= calls[c[1]]
               /\ c[2] = calls[c[1]] /\ place'[c[1]] \in {"writing", "linking"}
                     => c[3] > Len(frame'[c[1]].msg)
               /\ c[2] = calls[c[1]] /\ place'[c[1]] \in {"counting", "storing"}
                     => c[3] >= Len(frame'[c[1]].msg)
    <3>1. c[1] \in Callers /\ c[3] \in Nat
      BY DEF LooseTypeOK, Pieces
    <3>2. CASE c[1] = p
      <4>1. place'[p] = "writing"
        BY <2>1 DEF LooseTypeOK
      <4>2. c[2] <= calls[p] /\ (c[2] = calls[p] => c[3] >= Len(frame[p].msg))
        BY <2>1, <3>2 DEF ChunksNew
      <4>3. c[2] = calls[p] => c[3] > Len(frame'[p].msg)
        BY <2>3, <3>1, <4>2
      <4> QED  BY <3>2, <4>1, <4>2, <4>3
    <3>3. CASE c[1] # p
      BY <2>4, <3>1, <3>3 DEF ChunksNew
    <3> QED  BY <3>2, <3>3
  <2>6. \A q \in Callers : place'[q] \in {"linking", "counting", "storing"} => frame'[q].msg # <<>>
    BY <2>1, <2>4 DEF ChunksNew, LooseTypeOK
  <2> QED  BY <2>1, <2>5, <2>6 DEF ChunksNew
<1>5. ASSUME NEW p \in Callers, Loose!LoadEnds(p) PROVE ChunksNew'
  <2>1. /\ \A q \in Callers : place'[q] = place[q] \/ place'[q] \in {"clearing", "deleting"}
        /\ live' \cup linked' \subseteq live \cup linked /\ UNCHANGED calls
    BY <1>5, EndsStep DEF LooseTypeOK
  <2>2. \A q \in Callers : frame'[q].msg = frame[q].msg
    BY <1>5 DEF Loose!LoadEnds, LooseTypeOK, LooseCall
  <2>3. \A c \in live' \cup linked' : c \in live \cup linked /\ c[1] \in Callers
    BY <2>1 DEF LooseTypeOK, Pieces
  <2> QED  BY <2>1, <2>2, <2>3 DEF ChunksNew
<1>6. ASSUME NEW p \in Callers, Loose!Delete(p) PROVE ChunksNew'
  <2>1. /\ \A q \in Callers : place'[q] = place[q] \/ place'[q] \in {"clearing", "deleting"}
        /\ live' \cup linked' \subseteq live \cup linked /\ UNCHANGED calls
    BY <1>6, DeleteStep DEF LooseTypeOK
  <2>2. \A q \in Callers : frame'[q].msg = frame[q].msg
    BY <1>6 DEF Loose!Delete, LooseTypeOK, LooseCall
  <2>3. \A c \in live' \cup linked' : c \in live \cup linked /\ c[1] \in Callers
    BY <2>1 DEF LooseTypeOK, Pieces
  <2> QED  BY <2>1, <2>2, <2>3 DEF ChunksNew
<1> USE DEF Loose!Goto, Loose!Return, Loose!Call, Loose!Use, Loose!read_lock,
       Loose!read_unlock, Loose!write_lock, Loose!write_unlock, Loose!lock, Loose!list,
       Loose!history, ChunksNew, LooseTypeOK, LooseCall, Loose!NoCall
<1>7. ASSUME NEW p \in Callers, Loose!BeginRead(p) PROVE ChunksNew'
  BY <1>7 DEF Loose!BeginRead
<1>8. ASSUME NEW p \in Callers, Loose!NextRead(p) PROVE ChunksNew'
  BY <1>8 DEF Loose!NextRead
<1>9. ASSUME NEW p \in Callers, Loose!EndRead(p) PROVE ChunksNew'
  BY <1>9 DEF Loose!EndRead
<1>10. ASSUME NEW p \in Callers, Loose!FindTail(p) PROVE ChunksNew'
  BY <1>10 DEF Loose!FindTail
<1>11. ASSUME NEW p \in Callers, Loose!LoadLength(p) PROVE ChunksNew'
  BY <1>11 DEF Loose!LoadLength
<1>12. ASSUME NEW p \in Callers, Loose!BeginClear(p) PROVE ChunksNew'
  BY <1>12 DEF Loose!BeginClear
<1>13. ASSUME NEW p \in Callers, Loose!LoseEnds(p) PROVE ChunksNew'
  BY <1>13 DEF Loose!LoseEnds
<1>14. ASSUME NEW p \in Callers, Loose!EndClear(p) PROVE ChunksNew'
  BY <1>14 DEF Loose!EndClear
<1>15. ASSUME NEW p \in Callers, Loose!ResetLength(p) PROVE ChunksNew'
  BY <1>15 DEF Loose!ResetLength
<1>16. ASSUME NEW p \in Callers, Loose!CopyFails(p) PROVE ChunksNew'
  BY <1>16 DEF Loose!CopyFails
<1>17. ASSUME NEW p \in Callers, Loose!err_contents(p) PROVE ChunksNew'
  BY <1>17 DEF Loose!err_contents
<1>18. ASSUME NEW p \in Callers, Loose!EndWrite(p) PROVE ChunksNew'
  BY <1>18 DEF Loose!EndWrite
<1>19. ASSUME NEW p \in Callers, Loose!NoRoom(p) PROVE ChunksNew'
  BY <1>19 DEF Loose!NoRoom
<1>20. ASSUME NEW p \in Callers, Loose!LockWrite(p) PROVE ChunksNew'
  BY <1>20 DEF Loose!LockWrite
<1>21. ASSUME NEW p \in Callers, Loose!memcpy(p) PROVE ChunksNew'
  BY <1>21 DEF Loose!memcpy
<1>22. ASSUME NEW p \in Callers, Loose!err_data(p) PROVE ChunksNew'
  BY <1>22 DEF Loose!err_data
<1>23. CASE UNCHANGED Loose!vars
  BY <1>23 DEF Loose!vars
<1> QED  BY LooseSteps, <1>1, <1>2, <1>3, <1>4, <1>5, <1>6, <1>7, <1>8, <1>9, <1>10, <1>11,
     <1>12, <1>13, <1>14, <1>15, <1>16, <1>17, <1>18, <1>19, <1>20, <1>21, <1>22, <1>23

\* The earlier version.
LEMMA LooseWhole ==
    ASSUME LooseTypeOK, WholeIdle, Loose!IInv, [Loose!Next]_(Loose!vars)
    PROVE  WholeIdle'
<1> USE DEF Loose!Goto, Loose!Return, Loose!Call, Loose!Use, Loose!read_lock,
       Loose!read_unlock, Loose!write_lock, Loose!write_unlock, Loose!lock, Loose!list,
       Loose!history, WholeIdle, LooseTypeOK
<1>1. ASSUME NEW p \in Callers, Loose!CallRead(p) PROVE WholeIdle'
  BY <1>1 DEF Loose!CallRead
<1>2. ASSUME NEW p \in Callers, Loose!BeginRead(p) PROVE WholeIdle'
  BY <1>2 DEF Loose!BeginRead
<1>3. ASSUME NEW p \in Callers, Loose!NextRead(p) PROVE WholeIdle'
  BY <1>3 DEF Loose!NextRead
<1>4. ASSUME NEW p \in Callers, Loose!EndRead(p) PROVE WholeIdle'
  BY <1>4 DEF Loose!EndRead
<1>5. ASSUME NEW p \in Callers, NEW m \in Requests, Loose!CallWrite(p, m) PROVE WholeIdle'
  BY <1>5 DEF Loose!CallWrite
<1>6. ASSUME NEW p \in Callers, Loose!FindTail(p) PROVE WholeIdle'
  BY <1>6 DEF Loose!FindTail
<1>7. ASSUME NEW p \in Callers, Loose!Link(p) PROVE WholeIdle'
  BY <1>7 DEF Loose!Link
<1>8. ASSUME NEW p \in Callers, Loose!LoadLength(p) PROVE WholeIdle'
  BY <1>8 DEF Loose!LoadLength
<1>9. ASSUME NEW p \in Callers, Loose!StoreLength(p) PROVE WholeIdle'
  BY <1>9 DEF Loose!StoreLength
<1>10. ASSUME NEW p \in Callers, Loose!BeginClear(p) PROVE WholeIdle'
  BY <1>10 DEF Loose!BeginClear
<1>11. ASSUME NEW p \in Callers, Loose!LoadEnds(p) PROVE WholeIdle'
  BY <1>11 DEF Loose!LoadEnds
<1>12. ASSUME NEW p \in Callers, Loose!LoseEnds(p) PROVE WholeIdle'
  BY <1>12 DEF Loose!LoseEnds
<1>13. ASSUME NEW p \in Callers, Loose!Delete(p) PROVE WholeIdle'
  BY <1>13 DEF Loose!Delete
<1>14. ASSUME NEW p \in Callers, Loose!EndClear(p) PROVE WholeIdle'
  BY <1>14 DEF Loose!EndClear
<1>15. ASSUME NEW p \in Callers, Loose!ResetLength(p) PROVE WholeIdle'
  BY <1>15 DEF Loose!ResetLength
<1>16. ASSUME NEW p \in Callers, Loose!CopyFails(p) PROVE WholeIdle'
  BY <1>16 DEF Loose!CopyFails
<1>17. ASSUME NEW p \in Callers, Loose!err_contents(p) PROVE WholeIdle'
  BY <1>17 DEF Loose!err_contents
<1>18. ASSUME NEW p \in Callers, Loose!EndWrite(p) PROVE WholeIdle'
  BY <1>18 DEF Loose!EndWrite
<1>19. ASSUME NEW p \in Callers, Loose!NoRoom(p) PROVE WholeIdle'
  BY <1>19 DEF Loose!NoRoom
<1>20. ASSUME NEW p \in Callers, Loose!LockWrite(p) PROVE WholeIdle'
  BY <1>20 DEF Loose!LockWrite
<1>21. ASSUME NEW p \in Callers, Loose!memcpy(p) PROVE WholeIdle'
  BY <1>21 DEF Loose!memcpy
<1>22. ASSUME NEW p \in Callers, Loose!err_data(p) PROVE WholeIdle'
  BY <1>22 DEF Loose!err_data
<1>23. CASE UNCHANGED Loose!vars
  BY <1>23 DEF Loose!vars
<1> QED  BY LooseSteps, <1>1, <1>2, <1>3, <1>4, <1>5, <1>6, <1>7, <1>8, <1>9, <1>10, <1>11,
     <1>12, <1>13, <1>14, <1>15, <1>16, <1>17, <1>18, <1>19, <1>20, <1>21, <1>22, <1>23

\* Two writes overlap.
LEMMA LooseOne ==
    ASSUME LooseTypeOK, OneWriter, [Loose!Next]_(Loose!vars)
    PROVE  OneWriter'
<1> USE DEF Loose!Goto, Loose!Return, Loose!Call, Loose!Use, Loose!read_lock,
       Loose!read_unlock, Loose!write_lock, Loose!write_unlock, Loose!lock, Loose!list,
       Loose!history, OneWriter, Loose!Writers, LooseTypeOK
<1>1. ASSUME NEW p \in Callers, Loose!CallRead(p) PROVE OneWriter'
  BY <1>1 DEF Loose!CallRead
<1>2. ASSUME NEW p \in Callers, Loose!BeginRead(p) PROVE OneWriter'
  BY <1>2 DEF Loose!BeginRead
<1>3. ASSUME NEW p \in Callers, Loose!NextRead(p) PROVE OneWriter'
  BY <1>3 DEF Loose!NextRead
<1>4. ASSUME NEW p \in Callers, Loose!EndRead(p) PROVE OneWriter'
  BY <1>4 DEF Loose!EndRead
<1>5. ASSUME NEW p \in Callers, NEW m \in Requests, Loose!CallWrite(p, m) PROVE OneWriter'
  BY <1>5 DEF Loose!CallWrite
<1>6. ASSUME NEW p \in Callers, Loose!FindTail(p) PROVE OneWriter'
  BY <1>6 DEF Loose!FindTail
<1>7. ASSUME NEW p \in Callers, Loose!Link(p) PROVE OneWriter'
  BY <1>7 DEF Loose!Link
<1>8. ASSUME NEW p \in Callers, Loose!LoadLength(p) PROVE OneWriter'
  BY <1>8 DEF Loose!LoadLength
<1>9. ASSUME NEW p \in Callers, Loose!StoreLength(p) PROVE OneWriter'
  BY <1>9 DEF Loose!StoreLength
<1>10. ASSUME NEW p \in Callers, Loose!BeginClear(p) PROVE OneWriter'
  BY <1>10 DEF Loose!BeginClear
<1>11. ASSUME NEW p \in Callers, Loose!LoadEnds(p) PROVE OneWriter'
  BY <1>11 DEF Loose!LoadEnds
<1>12. ASSUME NEW p \in Callers, Loose!LoseEnds(p) PROVE OneWriter'
  BY <1>12 DEF Loose!LoseEnds
<1>13. ASSUME NEW p \in Callers, Loose!Delete(p) PROVE OneWriter'
  BY <1>13 DEF Loose!Delete
<1>14. ASSUME NEW p \in Callers, Loose!EndClear(p) PROVE OneWriter'
  BY <1>14 DEF Loose!EndClear
<1>15. ASSUME NEW p \in Callers, Loose!ResetLength(p) PROVE OneWriter'
  BY <1>15 DEF Loose!ResetLength
<1>16. ASSUME NEW p \in Callers, Loose!CopyFails(p) PROVE OneWriter'
  BY <1>16 DEF Loose!CopyFails
<1>17. ASSUME NEW p \in Callers, Loose!err_contents(p) PROVE OneWriter'
  BY <1>17 DEF Loose!err_contents
<1>18. ASSUME NEW p \in Callers, Loose!EndWrite(p) PROVE OneWriter'
  BY <1>18 DEF Loose!EndWrite
<1>19. ASSUME NEW p \in Callers, Loose!NoRoom(p) PROVE OneWriter'
  BY <1>19 DEF Loose!NoRoom
<1>20. ASSUME NEW p \in Callers, Loose!LockWrite(p) PROVE OneWriter'
  BY <1>20 DEF Loose!LockWrite
<1>21. ASSUME NEW p \in Callers, Loose!memcpy(p) PROVE OneWriter'
  BY <1>21 DEF Loose!memcpy
<1>22. ASSUME NEW p \in Callers, Loose!err_data(p) PROVE OneWriter'
  BY <1>22 DEF Loose!err_data
<1>23. CASE UNCHANGED Loose!vars
  BY <1>23 DEF Loose!vars
<1> QED  BY LooseSteps, <1>1, <1>2, <1>3, <1>4, <1>5, <1>6, <1>7, <1>8, <1>9, <1>10, <1>11,
     <1>12, <1>13, <1>14, <1>15, <1>16, <1>17, <1>18, <1>19, <1>20, <1>21, <1>22, <1>23

\* Who has the lock.
LEMMA LooseInvKept ==
    ASSUME LooseBounds, LooseTypeOK, ChunksNew, WholeIdle, Placed, Loose!IInv,
           [Loose!Next]_(Loose!vars)
    PROVE  Loose!IInv'
<1>1. ASSUME NEW p \in Callers, Loose!EndRead(p) PROVE Loose!IInv'
  <2>1. /\ place[p] = "walking" /\ place' = [place EXCEPT ![p] = "user"] /\ readers' = readers \ {p}
        /\ UNCHANGED <<lock_kind, writer, buffer, live, linked, total_length, twoWrites, stray, left>>
        /\ damaged' = (damaged \/ (frame[p].at # NONE /\ frame[p].at \notin live))
    BY <1>1 DEF Loose!EndRead, Loose!Return, Loose!Goto, Loose!Use, Loose!read_unlock,
         Loose!list
  <2>2. lock_kind = "whole" => frame[p].at = NONE
    BY <2>1, NoneInEmpty DEF Placed, WholeIdle, Loose!IInv
  <2> QED  BY <2>1, <2>2 DEF Loose!IInv, Loose!Apart, LooseTypeOK
<1>2. ASSUME NEW p \in Callers, Loose!Link(p) PROVE Loose!IInv'
  BY <1>2, LinkStep DEF Loose!IInv, Loose!Apart, WholeIdle, LooseTypeOK, LooseBounds
<1>3. ASSUME NEW p \in Callers, Loose!LoadEnds(p) PROVE Loose!IInv'
  BY <1>3, EndsStep DEF Loose!IInv, Loose!Apart, WholeIdle, LooseTypeOK, LooseBounds
<1>4. ASSUME NEW p \in Callers, Loose!Delete(p) PROVE Loose!IInv'
  BY <1>4, DeleteStep DEF Loose!IInv, Loose!Apart, WholeIdle, LooseTypeOK, LooseBounds
<1> USE DEF Loose!Goto, Loose!Return, Loose!Call, Loose!Use, Loose!read_lock,
       Loose!read_unlock, Loose!write_lock, Loose!write_unlock, Loose!lock, Loose!list,
       Loose!history, Loose!IInv, Loose!Apart, WholeIdle, LooseTypeOK, LooseLabels,
       LooseBounds
<1>5. ASSUME NEW p \in Callers, Loose!CallRead(p) PROVE Loose!IInv'
  BY <1>5 DEF Loose!CallRead
<1>6. ASSUME NEW p \in Callers, Loose!BeginRead(p) PROVE Loose!IInv'
  BY <1>6 DEF Loose!BeginRead
<1>7. ASSUME NEW p \in Callers, Loose!NextRead(p) PROVE Loose!IInv'
  BY <1>7 DEF Loose!NextRead
<1>8. ASSUME NEW p \in Callers, NEW m \in Requests, Loose!CallWrite(p, m) PROVE Loose!IInv'
  BY <1>8 DEF Loose!CallWrite
<1>9. ASSUME NEW p \in Callers, Loose!FindTail(p) PROVE Loose!IInv'
  BY <1>9 DEF Loose!FindTail
<1>10. ASSUME NEW p \in Callers, Loose!LoadLength(p) PROVE Loose!IInv'
  BY <1>10 DEF Loose!LoadLength
<1>11. ASSUME NEW p \in Callers, Loose!StoreLength(p) PROVE Loose!IInv'
  BY <1>11 DEF Loose!StoreLength
<1>12. ASSUME NEW p \in Callers, Loose!BeginClear(p) PROVE Loose!IInv'
  BY <1>12 DEF Loose!BeginClear
<1>13. ASSUME NEW p \in Callers, Loose!LoseEnds(p) PROVE Loose!IInv'
  BY <1>13 DEF Loose!LoseEnds
<1>14. ASSUME NEW p \in Callers, Loose!EndClear(p) PROVE Loose!IInv'
  BY <1>14 DEF Loose!EndClear
<1>15. ASSUME NEW p \in Callers, Loose!ResetLength(p) PROVE Loose!IInv'
  BY <1>15 DEF Loose!ResetLength
<1>16. ASSUME NEW p \in Callers, Loose!CopyFails(p) PROVE Loose!IInv'
  BY <1>16 DEF Loose!CopyFails
<1>17. ASSUME NEW p \in Callers, Loose!err_contents(p) PROVE Loose!IInv'
  BY <1>17 DEF Loose!err_contents
<1>18. ASSUME NEW p \in Callers, Loose!EndWrite(p) PROVE Loose!IInv'
  BY <1>18 DEF Loose!EndWrite
<1>19. ASSUME NEW p \in Callers, Loose!NoRoom(p) PROVE Loose!IInv'
  BY <1>19 DEF Loose!NoRoom
<1>20. ASSUME NEW p \in Callers, Loose!LockWrite(p) PROVE Loose!IInv'
  BY <1>20 DEF Loose!LockWrite
<1>21. ASSUME NEW p \in Callers, Loose!memcpy(p) PROVE Loose!IInv'
  BY <1>21 DEF Loose!memcpy
<1>22. ASSUME NEW p \in Callers, Loose!err_data(p) PROVE Loose!IInv'
  BY <1>22 DEF Loose!err_data
<1>23. CASE UNCHANGED Loose!vars
  BY <1>23 DEF Loose!vars
<1> QED  BY LooseSteps, <1>1, <1>2, <1>3, <1>4, <1>5, <1>6, <1>7, <1>8, <1>9, <1>10, <1>11,
     <1>12, <1>13, <1>14, <1>15, <1>16, <1>17, <1>18, <1>19, <1>20, <1>21, <1>22, <1>23

\* Where reads and writes are.
LEMMA LoosePlaced ==
    ASSUME LooseBounds, LooseTypeOK, ChunksNew, WholeIdle, OneWriter, Placed, Loose!IInv,
           [Loose!Next]_(Loose!vars)
    PROVE  Placed'
<1>1. ASSUME NEW p \in Callers, Loose!NextRead(p) PROVE Placed'
  <2> PICK j \in 1 .. Len(buffer) : frame' = [frame EXCEPT ![p].at = buffer[j]]
    BY <1>1, NextAt
  <2>1. buffer[j] \in Loose!Range(buffer)
    BY DEF Loose!Range, LooseTypeOK
  <2>2. place[p] = "walking" /\ UNCHANGED <<place, buffer, lock_kind, twoWrites, stray>>
    BY <1>1 DEF Loose!NextRead, Loose!list
  <2>3. frame'[p].at \in Loose!Range(buffer) /\ \A q \in Callers \ {p} : frame'[q] = frame[q]
    BY <2>1 DEF LooseTypeOK, LooseCall
  <2> QED  BY <2>2, <2>3 DEF Placed, End, Loose!Apart, Loose!ChunkAt
<1>2. ASSUME NEW p \in Callers, Loose!Link(p) PROVE Placed'
  <2>1. UNCHANGED <<lock_kind, twoWrites, frame>> /\ place[p] = "linking" /\ place' = [place EXCEPT ![p] = "counting"]
        /\ (stray => stray')
    BY <1>2, LinkStep
  <2>2. \A q \in Callers : place'[q] = IF q = p THEN "counting" ELSE place[q]
    BY <2>1 DEF LooseTypeOK
  <2>3. Loose!Apart' => \A q \in Callers : place'[q] \notin {"linking", "clearing", "deleting"}
    BY <2>1, <2>2, AloneAt DEF Loose!Apart
  <2>4. ~stray' /\ lock_kind' # "none" => \A q \in Callers : place'[q] # "walking"
    BY <2>1, <2>2, AloneAt DEF Loose!Apart
  <2> QED  BY <2>1, <2>2, <2>3, <2>4 DEF Placed
<1>3. ASSUME NEW p \in Callers, Loose!LoadEnds(p) PROVE Placed'
  <2> PICK e \in Spots \X Spots :
                 /\ frame' = [frame EXCEPT ![p].ends = e]
                 /\ Loose!Apart => /\ buffer # <<>> /\ frame[p].at = buffer[1]
                                   /\ e = <<NONE, Loose!ChunkAt(2)>>
    BY <1>3, EndsStep
  <2>1. /\ place' = [place EXCEPT ![p] = "deleting"] /\ UNCHANGED <<lock_kind, buffer, twoWrites, stray>>
        /\ frame'[p].at = frame[p].at /\ frame'[p].ends = e
        /\ \A q \in Callers \ {p} : frame'[q] = frame[q]
    BY <1>3, EndsStep DEF LooseTypeOK, LooseCall
  <2> QED  BY <2>1 DEF Placed, End, Loose!Apart, Loose!ChunkAt, LooseTypeOK
<1>4. ASSUME NEW p \in Callers, Loose!Delete(p) PROVE Placed'
  <2>1. /\ UNCHANGED <<lock_kind, twoWrites, stray>> /\ place[p] = "deleting"
        /\ place' = [place EXCEPT ![p] = "clearing"] /\ frame'[p].at = frame[p].ends[2]
        /\ \A q \in Callers \ {p} : frame'[q] = frame[q]
        /\ Loose!Apart => frame[p].ends[2] = Loose!ChunkAt(1)'
    BY <1>4, DeleteStep DEF LooseTypeOK, LooseCall
  <2>2. \A q \in Callers : place'[q] = IF q = p THEN "clearing" ELSE place[q]
    BY <2>1 DEF LooseTypeOK
  <2>3. Loose!Apart => \A q \in Callers : q # p => place'[q] \notin {"linking", "clearing", "deleting"}
    BY <2>1, <2>2, AloneAt
  <2>4. ~stray /\ lock_kind # "none" => \A q \in Callers : place'[q] # "walking"
    BY <2>1, <2>2, AloneAt DEF Loose!Apart
  <2>5. Loose!Apart' = Loose!Apart
    BY <2>1 DEF Loose!Apart
  <2> QED  BY <2>1, <2>2, <2>3, <2>4, <2>5 DEF Placed
<1>5. ASSUME NEW p \in Callers, Loose!LoseEnds(p) PROVE Placed'
  <2>1. /\ UNCHANGED <<place, lock_kind, buffer, twoWrites, stray>> /\ place[p] = "clearing"
        /\ frame' = [frame EXCEPT ![p].at = NONE] /\ frame[p].at \notin Loose!Range(buffer) \cup {NONE}
    BY <1>5 DEF Loose!LoseEnds, Loose!Goto, Loose!list, LooseTypeOK
  <2>2. ~Loose!Apart
    BY <2>1, SpotIs DEF Placed
  <2> QED  BY <2>1, <2>2 DEF Placed, Loose!Apart, LooseTypeOK
<1> USE DEF Loose!Goto, Loose!Return, Loose!Call, Loose!Use, Loose!read_lock,
       Loose!read_unlock, Loose!write_lock, Loose!write_unlock, Loose!lock, Loose!list,
       Loose!history, Placed, End, Loose!Apart, Loose!ChunkAt, Loose!IInv, WholeIdle,
       LooseTypeOK, LooseCall, Loose!NoCall, LooseBounds
<1>6. ASSUME NEW p \in Callers, Loose!CallRead(p) PROVE Placed'
  BY <1>6 DEF Loose!CallRead
<1>7. ASSUME NEW p \in Callers, Loose!BeginRead(p) PROVE Placed'
  BY <1>7 DEF Loose!BeginRead
<1>8. ASSUME NEW p \in Callers, Loose!EndRead(p) PROVE Placed'
  BY <1>8 DEF Loose!EndRead
<1>9. ASSUME NEW p \in Callers, NEW m \in Requests, Loose!CallWrite(p, m) PROVE Placed'
  BY <1>9 DEF Loose!CallWrite
<1>10. ASSUME NEW p \in Callers, Loose!FindTail(p) PROVE Placed'
  BY <1>10 DEF Loose!FindTail
<1>11. ASSUME NEW p \in Callers, Loose!LoadLength(p) PROVE Placed'
  BY <1>11 DEF Loose!LoadLength
<1>12. ASSUME NEW p \in Callers, Loose!StoreLength(p) PROVE Placed'
  BY <1>12 DEF Loose!StoreLength
<1>13. ASSUME NEW p \in Callers, Loose!BeginClear(p) PROVE Placed'
  BY <1>13 DEF Loose!BeginClear
<1>14. ASSUME NEW p \in Callers, Loose!EndClear(p) PROVE Placed'
  BY <1>14 DEF Loose!EndClear
<1>15. ASSUME NEW p \in Callers, Loose!ResetLength(p) PROVE Placed'
  BY <1>15 DEF Loose!ResetLength
<1>16. ASSUME NEW p \in Callers, Loose!CopyFails(p) PROVE Placed'
  BY <1>16 DEF Loose!CopyFails
<1>17. ASSUME NEW p \in Callers, Loose!err_contents(p) PROVE Placed'
  BY <1>17 DEF Loose!err_contents
<1>18. ASSUME NEW p \in Callers, Loose!EndWrite(p) PROVE Placed'
  BY <1>18 DEF Loose!EndWrite
<1>19. ASSUME NEW p \in Callers, Loose!NoRoom(p) PROVE Placed'
  BY <1>19 DEF Loose!NoRoom
<1>20. ASSUME NEW p \in Callers, Loose!LockWrite(p) PROVE Placed'
  BY <1>20 DEF Loose!LockWrite
<1>21. ASSUME NEW p \in Callers, Loose!memcpy(p) PROVE Placed'
  BY <1>21 DEF Loose!memcpy
<1>22. ASSUME NEW p \in Callers, Loose!err_data(p) PROVE Placed'
  BY <1>22 DEF Loose!err_data
<1>23. CASE UNCHANGED Loose!vars
  BY <1>23 DEF Loose!vars
<1> QED  BY LooseSteps, <1>1, <1>2, <1>3, <1>4, <1>5, <1>6, <1>7, <1>8, <1>9, <1>10, <1>11,
     <1>12, <1>13, <1>14, <1>15, <1>16, <1>17, <1>18, <1>19, <1>20, <1>21, <1>22, <1>23

\* Chunks that are used are there.
LEMMA LooseFreed ==
    ASSUME LooseBounds, LooseTypeOK, ChunksNew, WholeIdle, OneWriter, Placed, Loose!IInv,
           Loose!NoUseAfterFree, [Loose!Next]_(Loose!vars)
    PROVE  Loose!NoUseAfterFree'
<1>1. ASSUME NEW p \in Callers, Loose!Link(p) PROVE Loose!NoUseAfterFree'
  <2>1. /\ place[p] = "linking" /\ UNCHANGED <<lock_kind, twoWrites>>
        /\ stray' = (stray \/ writer \notin {NONE, p})
        /\ damaged' = (damaged \/ (frame[p].at # NONE /\ frame[p].at \notin live))
    BY <1>1, LinkStep
  <2>2. Loose!Apart => frame[p].at \in live \cup {NONE}
    BY <2>1, EndIn DEF Placed, Loose!IInv
  <2>3. stray' => twoWrites
    BY <2>1, StrayIs
  <2> QED  BY <2>1, <2>2, <2>3 DEF Loose!NoUseAfterFree, Loose!Apart
<1>2. ASSUME NEW p \in Callers, Loose!LoadEnds(p) PROVE Loose!NoUseAfterFree'
  <2>1. /\ place[p] = "clearing" /\ UNCHANGED <<lock_kind, twoWrites, stray>>
        /\ damaged' = (damaged \/ (frame[p].at # NONE /\ frame[p].at \notin live))
    BY <1>2, EndsStep
  <2>2. Loose!Apart => frame[p].at \in live \cup {NONE}
    BY <2>1, SpotIs DEF Placed, Loose!IInv
  <2> QED  BY <2>1, <2>2 DEF Loose!NoUseAfterFree, Loose!Apart
<1>3. ASSUME NEW p \in Callers, Loose!LoseEnds(p) PROVE Loose!NoUseAfterFree'
  <2>1. /\ place[p] = "clearing" /\ UNCHANGED <<lock_kind, twoWrites, stray>>
        /\ frame[p].at \notin Loose!Range(buffer) \cup {NONE}
    BY <1>3 DEF Loose!LoseEnds, Loose!Goto
  <2>2. ~Loose!Apart
    BY <2>1, SpotIs DEF Placed
  <2> QED  BY <2>1, <2>2 DEF Loose!NoUseAfterFree, Loose!Apart
<1>4. ASSUME NEW p \in Callers, Loose!Delete(p) PROVE Loose!NoUseAfterFree'
  BY <1>4, DeleteStep DEF Loose!NoUseAfterFree, Loose!Apart
<1>5. ASSUME NEW p \in Callers, Loose!EndClear(p) PROVE Loose!NoUseAfterFree'
  <2>1. /\ place[p] = "clearing" /\ UNCHANGED <<lock_kind, twoWrites, damaged>>
        /\ stray' = (stray \/ writer \notin {NONE, p})
    BY <1>5 DEF Loose!EndClear, Loose!Goto, Loose!write_unlock
  <2> QED  BY <2>1, StrayIs DEF Loose!NoUseAfterFree, LooseTypeOK
<1> USE DEF Loose!Goto, Loose!Return, Loose!Call, Loose!Use, Loose!read_lock,
       Loose!read_unlock, Loose!write_lock, Loose!write_unlock, Loose!lock, Loose!list,
       Loose!history, Loose!NoUseAfterFree, Loose!IInv, Loose!Apart, Placed, OneWriter,
       Loose!Writers, LooseTypeOK, LooseBounds
<1>6. ASSUME NEW p \in Callers, Loose!CallRead(p) PROVE Loose!NoUseAfterFree'
  BY <1>6 DEF Loose!CallRead
<1>7. ASSUME NEW p \in Callers, Loose!BeginRead(p) PROVE Loose!NoUseAfterFree'
  BY <1>7 DEF Loose!BeginRead
<1>8. ASSUME NEW p \in Callers, Loose!NextRead(p) PROVE Loose!NoUseAfterFree'
  BY <1>8 DEF Loose!NextRead
<1>9. ASSUME NEW p \in Callers, Loose!EndRead(p) PROVE Loose!NoUseAfterFree'
  BY <1>9 DEF Loose!EndRead
<1>10. ASSUME NEW p \in Callers, NEW m \in Requests, Loose!CallWrite(p, m) PROVE Loose!NoUseAfterFree'
  BY <1>10 DEF Loose!CallWrite
<1>11. ASSUME NEW p \in Callers, Loose!FindTail(p) PROVE Loose!NoUseAfterFree'
  BY <1>11 DEF Loose!FindTail
<1>12. ASSUME NEW p \in Callers, Loose!LoadLength(p) PROVE Loose!NoUseAfterFree'
  BY <1>12 DEF Loose!LoadLength
<1>13. ASSUME NEW p \in Callers, Loose!StoreLength(p) PROVE Loose!NoUseAfterFree'
  BY <1>13 DEF Loose!StoreLength
<1>14. ASSUME NEW p \in Callers, Loose!BeginClear(p) PROVE Loose!NoUseAfterFree'
  BY <1>14 DEF Loose!BeginClear
<1>15. ASSUME NEW p \in Callers, Loose!ResetLength(p) PROVE Loose!NoUseAfterFree'
  BY <1>15 DEF Loose!ResetLength
<1>16. ASSUME NEW p \in Callers, Loose!CopyFails(p) PROVE Loose!NoUseAfterFree'
  BY <1>16 DEF Loose!CopyFails
<1>17. ASSUME NEW p \in Callers, Loose!err_contents(p) PROVE Loose!NoUseAfterFree'
  BY SMTT(30), <1>17 DEF Loose!err_contents
<1>18. ASSUME NEW p \in Callers, Loose!EndWrite(p) PROVE Loose!NoUseAfterFree'
  BY <1>18 DEF Loose!EndWrite
<1>19. ASSUME NEW p \in Callers, Loose!NoRoom(p) PROVE Loose!NoUseAfterFree'
  BY <1>19 DEF Loose!NoRoom
<1>20. ASSUME NEW p \in Callers, Loose!LockWrite(p) PROVE Loose!NoUseAfterFree'
  BY <1>20 DEF Loose!LockWrite
<1>21. ASSUME NEW p \in Callers, Loose!memcpy(p) PROVE Loose!NoUseAfterFree'
  BY <1>21 DEF Loose!memcpy
<1>22. ASSUME NEW p \in Callers, Loose!err_data(p) PROVE Loose!NoUseAfterFree'
  BY <1>22 DEF Loose!err_data
<1>23. CASE UNCHANGED Loose!vars
  BY <1>23 DEF Loose!vars
<1> QED  BY LooseSteps, <1>1, <1>2, <1>3, <1>4, <1>5, <1>6, <1>7, <1>8, <1>9, <1>10, <1>11,
     <1>12, <1>13, <1>14, <1>15, <1>16, <1>17, <1>18, <1>19, <1>20, <1>21, <1>22, <1>23

\* Chunks that were linked are in the list.
LEMMA LooseLost ==
    ASSUME LooseBounds, LooseTypeOK, ChunksNew, WholeIdle, OneWriter, Placed, Loose!IInv,
           Loose!NoChunkLost, [Loose!Next]_(Loose!vars)
    PROVE  Loose!NoChunkLost'
<1>1. ASSUME NEW p \in Callers, Loose!Link(p) PROVE Loose!NoChunkLost'
  <2>1. /\ (stray => stray') /\ UNCHANGED <<lock_kind, twoWrites>>
        /\ linked' = linked \cup {Loose!Chunk(p)}
        /\ Loose!Apart => Loose!Range(buffer') = Loose!Range(buffer) \cup {Loose!Chunk(p)}
    BY <1>1, LinkStep
  <2>2. Loose!Apart' => Loose!Apart
    BY <2>1 DEF Loose!Apart
  <2> QED  BY <2>1, <2>2 DEF Loose!NoChunkLost
<1>2. ASSUME NEW p \in Callers, Loose!LoadEnds(p) PROVE Loose!NoChunkLost'
  BY <1>2, EndsStep DEF Loose!NoChunkLost, Loose!Apart
<1>3. ASSUME NEW p \in Callers, Loose!Delete(p) PROVE Loose!NoChunkLost'
  BY <1>3, DeleteStep DEF Loose!NoChunkLost, Loose!Apart
<1> USE DEF Loose!Goto, Loose!Return, Loose!Call, Loose!Use, Loose!read_lock,
       Loose!read_unlock, Loose!write_lock, Loose!write_unlock, Loose!lock, Loose!list,
       Loose!history, Loose!NoChunkLost, Loose!Apart, LooseTypeOK
<1>4. ASSUME NEW p \in Callers, Loose!CallRead(p) PROVE Loose!NoChunkLost'
  BY <1>4 DEF Loose!CallRead
<1>5. ASSUME NEW p \in Callers, Loose!BeginRead(p) PROVE Loose!NoChunkLost'
  BY <1>5 DEF Loose!BeginRead
<1>6. ASSUME NEW p \in Callers, Loose!NextRead(p) PROVE Loose!NoChunkLost'
  BY <1>6 DEF Loose!NextRead
<1>7. ASSUME NEW p \in Callers, Loose!EndRead(p) PROVE Loose!NoChunkLost'
  BY <1>7 DEF Loose!EndRead
<1>8. ASSUME NEW p \in Callers, NEW m \in Requests, Loose!CallWrite(p, m) PROVE Loose!NoChunkLost'
  BY <1>8 DEF Loose!CallWrite
<1>9. ASSUME NEW p \in Callers, Loose!FindTail(p) PROVE Loose!NoChunkLost'
  BY <1>9 DEF Loose!FindTail
<1>10. ASSUME NEW p \in Callers, Loose!LoadLength(p) PROVE Loose!NoChunkLost'
  BY <1>10 DEF Loose!LoadLength
<1>11. ASSUME NEW p \in Callers, Loose!StoreLength(p) PROVE Loose!NoChunkLost'
  BY <1>11 DEF Loose!StoreLength
<1>12. ASSUME NEW p \in Callers, Loose!BeginClear(p) PROVE Loose!NoChunkLost'
  BY <1>12 DEF Loose!BeginClear
<1>13. ASSUME NEW p \in Callers, Loose!LoseEnds(p) PROVE Loose!NoChunkLost'
  BY <1>13 DEF Loose!LoseEnds
<1>14. ASSUME NEW p \in Callers, Loose!EndClear(p) PROVE Loose!NoChunkLost'
  BY <1>14 DEF Loose!EndClear
<1>15. ASSUME NEW p \in Callers, Loose!ResetLength(p) PROVE Loose!NoChunkLost'
  BY <1>15 DEF Loose!ResetLength
<1>16. ASSUME NEW p \in Callers, Loose!CopyFails(p) PROVE Loose!NoChunkLost'
  BY <1>16 DEF Loose!CopyFails
<1>17. ASSUME NEW p \in Callers, Loose!err_contents(p) PROVE Loose!NoChunkLost'
  BY <1>17 DEF Loose!err_contents
<1>18. ASSUME NEW p \in Callers, Loose!EndWrite(p) PROVE Loose!NoChunkLost'
  BY <1>18 DEF Loose!EndWrite
<1>19. ASSUME NEW p \in Callers, Loose!NoRoom(p) PROVE Loose!NoChunkLost'
  BY <1>19 DEF Loose!NoRoom
<1>20. ASSUME NEW p \in Callers, Loose!LockWrite(p) PROVE Loose!NoChunkLost'
  BY <1>20 DEF Loose!LockWrite
<1>21. ASSUME NEW p \in Callers, Loose!memcpy(p) PROVE Loose!NoChunkLost'
  BY <1>21 DEF Loose!memcpy
<1>22. ASSUME NEW p \in Callers, Loose!err_data(p) PROVE Loose!NoChunkLost'
  BY <1>22 DEF Loose!err_data
<1>23. CASE UNCHANGED Loose!vars
  BY <1>23 DEF Loose!vars
<1> QED  BY LooseSteps, <1>1, <1>2, <1>3, <1>4, <1>5, <1>6, <1>7, <1>8, <1>9, <1>10, <1>11,
     <1>12, <1>13, <1>14, <1>15, <1>16, <1>17, <1>18, <1>19, <1>20, <1>21, <1>22, <1>23

\* The length of the list.
LEMMA LooseCounted ==
    ASSUME LooseBounds, LooseTypeOK, ChunksNew, WholeIdle, OneWriter, Placed, Counted,
           Loose!IInv, Loose!NoUseAfterFree, [Loose!Next]_(Loose!vars)
    PROVE  Counted'
<1>1. ASSUME NEW p \in Callers, Loose!Link(p) PROVE Counted'
  <2> SUFFICES ASSUME ~twoWrites PROVE Counted'
    BY <1>1, LinkStep DEF Counted
  <2>1. place[p] = "linking" /\ place' = [place EXCEPT ![p] = "counting"] /\ UNCHANGED <<total_length, frame>>
    BY <1>1, LinkStep
  <2>2. Len(buffer') = Len(buffer) + 1
    BY <1>1, LinkStep DEF Loose!Apart, Loose!NoUseAfterFree
  <2>3. \A q \in Callers \ {p} : place'[q] = place[q] /\ place[q] \in {"user", "read", "walking", "killed"}
    BY <2>1 DEF OneWriter, Loose!Writers, LooseTypeOK
  <2>4. total_length = Len(buffer) /\ p \in Loose!Writers' /\ place'[p] = "counting"
    BY <2>1 DEF Counted, Loose!Writers, LooseTypeOK
  <2> QED  BY <2>1, <2>2, <2>3, <2>4 DEF Counted
<1>2. ASSUME NEW p \in Callers, Loose!StoreLength(p) PROVE Counted'
  <2> SUFFICES ASSUME ~twoWrites PROVE Counted'
    BY <1>2 DEF Loose!StoreLength, Loose!history, Counted
  <2>1. /\ place[p] = "storing" /\ place' = [place EXCEPT ![p] = "writing"] /\ UNCHANGED buffer
        /\ total_length' = frame[p].old + 1
    BY <1>2 DEF Loose!StoreLength, Loose!Goto, Loose!list
  <2>2. \A q \in Callers \ {p} : place'[q] = place[q] /\ place[q] \in {"user", "read", "walking", "killed"}
    BY <2>1 DEF OneWriter, Loose!Writers, LooseTypeOK
  <2>3. total_length' = Len(buffer) /\ p \in Loose!Writers' /\ place'[p] = "writing"
    BY <2>1 DEF Counted, Loose!Writers, LooseTypeOK
  <2> QED  BY <2>1, <2>2, <2>3 DEF Counted
<1>3. ASSUME NEW p \in Callers, Loose!LoadEnds(p) PROVE Counted'
  <2> SUFFICES ASSUME ~twoWrites PROVE Counted'
    BY <1>3, EndsStep DEF Counted
  <2>1. place[p] = "clearing" /\ place' = [place EXCEPT ![p] = "deleting"]
    BY <1>3, EndsStep
  <2>2. \A q \in Callers \ {p} : place'[q] = place[q] /\ place[q] \in {"user", "read", "walking", "killed"}
    BY <2>1 DEF OneWriter, Loose!Writers, LooseTypeOK
  <2>3. p \in Loose!Writers' /\ place'[p] = "deleting"
    BY <2>1 DEF Loose!Writers, LooseTypeOK
  <2> QED  BY <2>2, <2>3 DEF Counted
<1>4. ASSUME NEW p \in Callers, Loose!Delete(p) PROVE Counted'
  <2> SUFFICES ASSUME ~twoWrites PROVE Counted'
    BY <1>4, DeleteStep DEF Counted
  <2>1. place[p] = "deleting" /\ place' = [place EXCEPT ![p] = "clearing"]
    BY <1>4, DeleteStep
  <2>2. \A q \in Callers \ {p} : place'[q] = place[q] /\ place[q] \in {"user", "read", "walking", "killed"}
    BY <2>1 DEF OneWriter, Loose!Writers, LooseTypeOK
  <2>3. p \in Loose!Writers' /\ place'[p] = "clearing"
    BY <2>1 DEF Loose!Writers, LooseTypeOK
  <2> QED  BY <2>2, <2>3 DEF Counted
<1>5. ASSUME NEW p \in Callers, Loose!EndClear(p) PROVE Counted'
  <2> SUFFICES ASSUME ~twoWrites PROVE Counted'
    BY <1>5 DEF Loose!EndClear, Counted
  <2>1. /\ place[p] = "clearing" /\ place' = [place EXCEPT ![p] = "cleared"] /\ UNCHANGED buffer
        /\ frame[p].at = NONE
    BY <1>5 DEF Loose!EndClear, Loose!Goto, Loose!list
  <2>2. \A q \in Callers \ {p} : place'[q] = place[q] /\ place[q] \in {"user", "read", "walking", "killed"}
    BY <2>1 DEF OneWriter, Loose!Writers, LooseTypeOK
  <2>3. p \in Loose!Writers' /\ place'[p] = "cleared"
    BY <2>1 DEF Loose!Writers, LooseTypeOK
  <2>4. buffer = <<>>
    <3>1. Loose!ChunkAt(1) = NONE
      BY <2>1 DEF Placed, Loose!Apart, Loose!NoUseAfterFree
    <3> QED  BY <3>1, SpotIs
  <2> QED  BY <2>1, <2>2, <2>3, <2>4 DEF Counted
<1>6. ASSUME NEW p \in Callers, Loose!ResetLength(p) PROVE Counted'
  <2> SUFFICES ASSUME ~twoWrites PROVE Counted'
    BY <1>6 DEF Loose!ResetLength, Loose!history, Counted
  <2>1. /\ place[p] = "cleared" /\ place' = [place EXCEPT ![p] = "failed"] /\ UNCHANGED buffer
        /\ total_length' = 0
    BY <1>6 DEF Loose!ResetLength, Loose!Goto, Loose!list
  <2>2. \A q \in Callers \ {p} : place'[q] = place[q] /\ place[q] \in {"user", "read", "walking", "killed"}
    BY <2>1 DEF OneWriter, Loose!Writers, LooseTypeOK
  <2>3. buffer = <<>> /\ Len(buffer) = 0 /\ p \in Loose!Writers' /\ place'[p] = "failed"
    BY <2>1 DEF Counted, Loose!Writers, LooseTypeOK
  <2> QED  BY <2>1, <2>2, <2>3 DEF Counted
<1> USE DEF Loose!Goto, Loose!Return, Loose!Call, Loose!Use, Loose!read_lock,
       Loose!read_unlock, Loose!write_lock, Loose!write_unlock, Loose!lock, Loose!list,
       Loose!history, Counted, OneWriter, Loose!Writers, LooseTypeOK, LooseCall, Loose!NoCall
<1>7. ASSUME NEW p \in Callers, Loose!CallRead(p) PROVE Counted'
  BY <1>7 DEF Loose!CallRead
<1>8. ASSUME NEW p \in Callers, Loose!BeginRead(p) PROVE Counted'
  BY <1>8 DEF Loose!BeginRead
<1>9. ASSUME NEW p \in Callers, Loose!NextRead(p) PROVE Counted'
  BY <1>9 DEF Loose!NextRead
<1>10. ASSUME NEW p \in Callers, Loose!EndRead(p) PROVE Counted'
  BY <1>10 DEF Loose!EndRead
<1>11. ASSUME NEW p \in Callers, NEW m \in Requests, Loose!CallWrite(p, m) PROVE Counted'
  BY <1>11 DEF Loose!CallWrite
<1>12. ASSUME NEW p \in Callers, Loose!FindTail(p) PROVE Counted'
  BY <1>12 DEF Loose!FindTail
<1>13. ASSUME NEW p \in Callers, Loose!LoadLength(p) PROVE Counted'
  BY <1>13 DEF Loose!LoadLength
<1>14. ASSUME NEW p \in Callers, Loose!BeginClear(p) PROVE Counted'
  BY <1>14 DEF Loose!BeginClear
<1>15. ASSUME NEW p \in Callers, Loose!LoseEnds(p) PROVE Counted'
  BY <1>15 DEF Loose!LoseEnds
<1>16. ASSUME NEW p \in Callers, Loose!CopyFails(p) PROVE Counted'
  BY <1>16 DEF Loose!CopyFails
<1>17. ASSUME NEW p \in Callers, Loose!err_contents(p) PROVE Counted'
  BY <1>17 DEF Loose!err_contents
<1>18. ASSUME NEW p \in Callers, Loose!EndWrite(p) PROVE Counted'
  BY <1>18 DEF Loose!EndWrite
<1>19. ASSUME NEW p \in Callers, Loose!NoRoom(p) PROVE Counted'
  BY <1>19 DEF Loose!NoRoom
<1>20. ASSUME NEW p \in Callers, Loose!LockWrite(p) PROVE Counted'
  BY <1>20 DEF Loose!LockWrite
<1>21. ASSUME NEW p \in Callers, Loose!memcpy(p) PROVE Counted'
  BY <1>21 DEF Loose!memcpy
<1>22. ASSUME NEW p \in Callers, Loose!err_data(p) PROVE Counted'
  BY <1>22 DEF Loose!err_data
<1>23. CASE UNCHANGED Loose!vars
  BY <1>23 DEF Loose!vars
<1> QED  BY LooseSteps, <1>1, <1>2, <1>3, <1>4, <1>5, <1>6, <1>7, <1>8, <1>9, <1>10, <1>11,
     <1>12, <1>13, <1>14, <1>15, <1>16, <1>17, <1>18, <1>19, <1>20, <1>21, <1>22, <1>23

\* It holds of an empty list, ...
LEMMA LooseBegins == Loose!Init => LooseInv
<1> SUFFICES ASSUME Loose!Init PROVE LooseInv
  OBVIOUS
<1>1. Loose!NoCall \in LooseCall
  BY DEF Loose!NoCall, LooseCall, Spots
<1>2. LooseTypeOK
  <2>1. buffer \in Seq(Pieces) /\ live \subseteq Pieces /\ linked \subseteq Pieces
    BY EmptySeq DEF Loose!Init
  <2>2. /\ place \in [Callers -> LooseLabels] /\ calls \in [Callers -> Nat]
        /\ frame \in [Callers -> LooseCall]
    BY <1>1 DEF Loose!Init, LooseLabels
  <2>3. /\ lock_kind \in {"rwlock", "whole", "none"} /\ writer \in Callers \cup {NONE}
        /\ readers \subseteq Callers /\ total_length \in Int
    BY SMT DEF Loose!Init
  <2>4. /\ twoWrites \in BOOLEAN /\ stray \in BOOLEAN /\ damaged \in BOOLEAN
        /\ left \in BOOLEAN
    BY Zenon DEF Loose!Init
  <2> QED  BY <2>1, <2>2, <2>3, <2>4, Zenon DEF LooseTypeOK
<1>3. ChunksNew /\ WholeIdle /\ OneWriter /\ Placed /\ Counted
  BY DEF Loose!Init, ChunksNew, WholeIdle, OneWriter, Placed, Counted, Loose!Writers,
       Loose!NoCall
<1>4. Loose!IInv
  BY NoneInEmpty, ProgramBounds DEF Loose!Init, Loose!IInv, LooseBounds
<1>5. Loose!NoUseAfterFree /\ Loose!NoChunkLost /\ Loose!LengthAtRest
  BY DEF Loose!Init, Loose!NoUseAfterFree, Loose!NoChunkLost, Loose!LengthAtRest
<1> QED  BY <1>2, <1>3, <1>4, <1>5 DEF LooseInv

\* ... and every step keeps it.
LEMMA LooseGoesOn == LooseInv /\ [Loose!Next]_(Loose!vars) => LooseInv'
<1> SUFFICES ASSUME LooseInv, [Loose!Next]_(Loose!vars) PROVE LooseInv'
  OBVIOUS
<1>1. LooseTypeOK' /\ ChunksNew' /\ WholeIdle' /\ OneWriter' /\ Loose!IInv'
  BY ProgramBounds, LooseTypes, LooseChunks, LooseWhole, LooseOne, LooseInvKept DEF LooseInv
<1>2. Placed' /\ Counted' /\ Loose!NoUseAfterFree' /\ Loose!NoChunkLost'
  BY ProgramBounds, LoosePlaced, LooseCounted, LooseFreed, LooseLost DEF LooseInv
<1>3. Loose!LengthAtRest'
  BY <1>2 DEF Counted, Loose!LengthAtRest
<1> QED  BY <1>1, <1>2, <1>3 DEF LooseInv

\* Of the three drivers without the semaphore or the mutex, for any processes and any
\* writes, and with a clearing that takes out one chunk at a time: the lock is held by whom
\* the program says; while writes are kept apart (no lock was broken and, without one, no
\* two have met) the list holds no chunk that is freed, none twice and all that were put
\* into it; with the unbroken lock no chunk is used after it is freed; and unless writes
\* overlap the length is right at rest.
THEOREM LooseSafe == Loose!Spec => []LooseInv
BY LooseBegins, LooseGoesOn, PTL DEF Loose!Spec
-----------------------------------------------------------------------------
(***************************************************************************)
(* cw04/advanced and cw03/modules/advanced: the name and the path.         *)
(***************************************************************************)
\* The slots that are its variables, but for those above.
edition          == x8
module           == x9
process_name     == x10
process_name_len == x11
pathname         == x12
pathname_buf     == x13
pathname_len     == x14
USE DEF edition, module, process_name, process_name_len, pathname, pathname_buf,
        pathname_len

\* Where a process is in /dev/prname, in a write to /dev/mountderef, and elsewhere.
NameLabels   == {"measuring", "reading", "returning"}
OwnerLabels  == {"looking_up", "freeing", "owning"}
SwapLabels   == {"freeing", "owning", "naming", "counting"}
MountLabels  == OwnerLabels \cup SwapLabels \cup {"copying"}
CallRecords  == [buf : (Callers \X Nat) \cup {NIL}, new : Int, pos : Int, overtaken : BOOLEAN]

\* The types.
AdvancedTypeOK ==
    /\ process_name \in Int /\ process_name_len \in Int
    /\ place \in [Callers -> NameLabels \cup MountLabels \cup {"user", "dead"}]
    /\ frame \in [Callers -> CallRecords] /\ calls \in [Callers -> Nat]
    /\ raced \in BOOLEAN /\ damaged \in BOOLEAN

\* The devices are registered in order; the earlier edition has not the third one.
DevicesOrdered ==
    /\ registered \in {{}, {"prname"}, {"jiffies"}, {"prname", "jiffies"},
                       {"prname", "jiffies", "mountderef"}}
    /\ edition = "cw04" =>
          /\ module = "out" => registered = {}
          /\ module \in {"loading", "undoing"} =>
                registered \in {{"prname"}, {"prname", "jiffies"}}
          /\ module = "live" => registered = {"prname", "jiffies", "mountderef"}
          /\ module \in {"out", "loading", "undoing", "live"}
    /\ edition # "cw04" => /\ edition = "cw03" /\ "mountderef" \notin registered
                           /\ module = "out" => registered = {}
                           /\ module \in {"out", "loading", "live"}

\* /dev/mountderef is used, and there is a path, only while it is registered.
MountIdle == "mountderef" \notin registered =>
    /\ \A p \in Callers : place[p] \notin MountLabels
    /\ pathname = NIL /\ pathname_buf = NIL /\ (~raced => live = {})

\* The buffer of a write is of this call, and that of the path is another one, until the
\* write has made it the path's.
BuffersApart ==
    /\ \A p \in Callers : place[p] \in OwnerLabels \cup SwapLabels => frame[p].buf = <<p, calls[p]>>
    /\ pathname_buf # NIL => \E p \in Callers, n \in Nat :
          /\ pathname_buf = <<p, n>> /\ n <= calls[p]
          /\ place[p] \in OwnerLabels => n < calls[p]

\* Unless writes have overlapped, one at a time swaps, and it finds its own buffer.
Swaps == ~raced =>
    /\ \A p, q \in Adv!Swapping : p = q
    /\ \A p \in Callers : place[p] \in {"naming", "counting"} => pathname_buf = frame[p].buf
    /\ \A p \in Callers : place[p] = "counting" => pathname = frame[p].buf

\* A read that no write has met found a path, and none is being swapped.
ReadsUnmet == \A p \in Adv!Readers : ~frame[p].overtaken =>
                   Adv!Swapping = {} /\ pathname # NIL

AdvancedInv == /\ AdvancedTypeOK /\ DevicesOrdered /\ MountIdle /\ BuffersApart /\ Swaps
               /\ ReadsUnmet
               /\ Adv!NameMeasured /\ Adv!BuffersOwned /\ Adv!ReadsLiveBuffer

\* The steps of the module and of its callers.
LEMMA AdvancedSteps ==
    ASSUME [Adv!Next]_(Adv!vars)
    PROVE  \/ Adv!Register \/ Adv!RegisterFails \/ Adv!Undo \/ Adv!advanced_exit \/ Adv!zad2_init \/ Adv!zad2_exit
           \/ \E p \in Callers :
                 \/ \E pos \in TextLengths \cup {0} : Adv!ReadName(p, pos)
                 \/ Adv!CopyName04(p) \/ Adv!CopyName03(p) \/ Adv!ReturnName(p)
                 \/ Adv!MeasureName(p) \/ \E n \in TextLengths : Adv!CopyName(p, n)
                 \/ Adv!Allocate(p) \/ Adv!LookupFails(p) \/ \E n \in TextLengths : Adv!Lookup(p, n)
                 \/ Adv!FreeOld(p) \/ Adv!SetBuf(p) \/ Adv!SetName(p) \/ Adv!SetLen(p)
                 \/ Adv!ReadPath(p) \/ Adv!CopyPath(p)
           \/ UNCHANGED Adv!vars
BY DEF Adv!Next, Adv!prname_read, Adv!prname_write, Adv!mountderef_write,
     Adv!mountderef_read

\* Sets are counted there as here.
LEMMA AdvCount == \A S : Adv!Cardinality(S) = Cardinality(S)
BY DEF Cardinality, Adv!Cardinality, IsFiniteSet, Adv!IsFiniteSet

\* How many devices are registered.
LEMMA DeviceCounts ==
    /\ Cardinality({}) = 0 /\ Cardinality({"prname"}) = 1 /\ Cardinality({"jiffies"}) = 1
    /\ Cardinality({"prname", "jiffies"}) = 2
    /\ Cardinality({"prname", "jiffies", "mountderef"}) = 3
<1>1. Cardinality({}) = 0 /\ IsFiniteSet({})
  BY FS_EmptySet
<1>2. Cardinality({"prname"}) = 1 /\ IsFiniteSet({"prname"})
  BY FS_Singleton
<1>3. Cardinality({"jiffies"}) = 1
  BY FS_Singleton
<1>4. {"prname", "jiffies"} = {"prname"} \cup {"jiffies"} /\ "jiffies" \notin {"prname"}
  OBVIOUS
<1>5. Cardinality({"prname", "jiffies"}) = 2 /\ IsFiniteSet({"prname", "jiffies"})
  BY <1>2, <1>4, FS_AddElement
<1>6. /\ {"prname", "jiffies", "mountderef"} = {"prname", "jiffies"} \cup {"mountderef"}
      /\ "mountderef" \notin {"prname", "jiffies"}
  OBVIOUS
<1>7. Cardinality({"prname", "jiffies", "mountderef"}) = 3
  BY <1>5, <1>6, FS_AddElement
<1> QED  BY <1>1, <1>2, <1>3, <1>5, <1>7

\* The types are kept.
LEMMA AdvancedTypes ==
    ASSUME AdvancedBounds, AdvancedTypeOK, [Adv!Next]_(Adv!vars)
    PROVE  AdvancedTypeOK'
<1>1. CASE Adv!Register
  BY <1>1 DEF Adv!Register, Adv!name, Adv!path, AdvancedTypeOK, NameLabels, MountLabels,
       OwnerLabels,
       SwapLabels, CallRecords, Adv!NoCall, Adv!Unset, AdvancedBounds
<1>2. CASE Adv!RegisterFails
  BY <1>2 DEF Adv!RegisterFails, Adv!name, Adv!path, AdvancedTypeOK, NameLabels,
       MountLabels,
       OwnerLabels, SwapLabels, CallRecords, Adv!NoCall, Adv!Unset, AdvancedBounds
<1>3. CASE Adv!Undo
  BY <1>3 DEF Adv!Undo, Adv!Fresh, Adv!name, AdvancedTypeOK, NameLabels, MountLabels,
       OwnerLabels,
       SwapLabels, CallRecords, Adv!NoCall, Adv!Unset, AdvancedBounds
<1>4. CASE Adv!advanced_exit
  <2>1. damaged' \in BOOLEAN
    <3>1. CASE pathname = NIL
      BY <1>4, <3>1 DEF Adv!advanced_exit, AdvancedTypeOK
    <3>2. CASE pathname # NIL
      BY <1>4, <3>2 DEF Adv!advanced_exit, Adv!Free
    <3> QED  BY <3>1, <3>2
  <2> QED  BY <1>4, <2>1 DEF Adv!advanced_exit, Adv!Fresh, AdvancedTypeOK, Adv!Unset
<1>5. CASE Adv!zad2_init
  BY <1>5 DEF Adv!zad2_init, Adv!name, Adv!path, AdvancedTypeOK, NameLabels, MountLabels,
       OwnerLabels,
       SwapLabels, CallRecords, Adv!NoCall, Adv!Unset, AdvancedBounds
<1>6. CASE Adv!zad2_exit
  BY <1>6 DEF Adv!zad2_exit, Adv!Fresh, AdvancedTypeOK, NameLabels, MountLabels,
       OwnerLabels,
       SwapLabels, CallRecords, Adv!NoCall, Adv!Unset, AdvancedBounds
<1>7. ASSUME NEW p \in Callers, NEW pos \in TextLengths \cup {0}, Adv!ReadName(p, pos)
      PROVE  AdvancedTypeOK'
  BY <1>7 DEF Adv!ReadName, Adv!Call, Adv!Goto, Adv!inserted, Adv!name, Adv!path,
       AdvancedTypeOK, NameLabels,
       MountLabels, OwnerLabels, SwapLabels, CallRecords, Adv!NoCall, Adv!Unset, AdvancedBounds
<1>8. ASSUME NEW p \in Callers, Adv!CopyName04(p)
      PROVE  AdvancedTypeOK'
  BY <1>8 DEF Adv!CopyName04, Adv!Return, Adv!Goto, Adv!inserted, Adv!name, Adv!path,
       AdvancedTypeOK, NameLabels,
       MountLabels, OwnerLabels, SwapLabels, CallRecords, Adv!NoCall, Adv!Unset, AdvancedBounds
<1>9. ASSUME NEW p \in Callers, Adv!CopyName03(p)
      PROVE  AdvancedTypeOK'
  BY <1>9 DEF Adv!CopyName03, Adv!Goto, Adv!inserted, Adv!name, Adv!path, AdvancedTypeOK,
       NameLabels,
       MountLabels, OwnerLabels, SwapLabels, CallRecords, Adv!NoCall, Adv!Unset, AdvancedBounds
<1>10. ASSUME NEW p \in Callers, Adv!ReturnName(p)
       PROVE  AdvancedTypeOK'
  BY <1>10 DEF Adv!ReturnName, Adv!Return, Adv!Goto, Adv!inserted, Adv!name, Adv!path,
       AdvancedTypeOK, NameLabels,
       MountLabels, OwnerLabels, SwapLabels, CallRecords, Adv!NoCall, Adv!Unset, AdvancedBounds
<1>11. ASSUME NEW p \in Callers, Adv!MeasureName(p)
       PROVE  AdvancedTypeOK'
  BY <1>11 DEF Adv!MeasureName, Adv!Goto, Adv!inserted, Adv!path, AdvancedTypeOK,
       NameLabels, MountLabels,
       OwnerLabels, SwapLabels, CallRecords, Adv!NoCall, Adv!Unset, AdvancedBounds
<1>12. ASSUME NEW p \in Callers, NEW n \in TextLengths, Adv!CopyName(p, n)
       PROVE  AdvancedTypeOK'
  BY <1>12 DEF Adv!CopyName, Adv!Call, Adv!Goto, Adv!inserted, Adv!path, AdvancedTypeOK,
       NameLabels,
       MountLabels, OwnerLabels, SwapLabels, CallRecords, Adv!NoCall, Adv!Unset, AdvancedBounds
<1>13. ASSUME NEW p \in Callers, Adv!Allocate(p)
       PROVE  AdvancedTypeOK'
  BY <1>13 DEF Adv!Allocate, Adv!Call, Adv!Goto, Adv!inserted, Adv!name, AdvancedTypeOK,
       NameLabels,
       MountLabels, OwnerLabels, SwapLabels, CallRecords, Adv!NoCall, Adv!Unset, AdvancedBounds
<1>14. ASSUME NEW p \in Callers, Adv!LookupFails(p)
       PROVE  AdvancedTypeOK'
  BY <1>14 DEF Adv!LookupFails, Adv!Return, Adv!Goto, Adv!Free, Adv!inserted, Adv!name,
       AdvancedTypeOK, NameLabels,
       MountLabels, OwnerLabels, SwapLabels, CallRecords, Adv!NoCall, Adv!Unset, AdvancedBounds
<1>15. ASSUME NEW p \in Callers, NEW n \in TextLengths, Adv!Lookup(p, n)
       PROVE  AdvancedTypeOK'
  <2>1. ASSUME NEW q \in Callers
        PROVE  /\ [frame[q] EXCEPT !.new = n] \in CallRecords
               /\ [frame[q] EXCEPT !.overtaken = TRUE] \in CallRecords
    <3>1. frame[q] \in CallRecords /\ n \in Int
      BY DEF AdvancedTypeOK, AdvancedBounds
    <3>2. [frame[q] EXCEPT !.new = n] \in CallRecords
      BY <3>1 DEF CallRecords
    <3>3. [frame[q] EXCEPT !.overtaken = TRUE] \in CallRecords
      BY <3>1 DEF CallRecords
    <3> QED  BY <3>2, <3>3
  <2>2. frame' \in [Callers -> CallRecords]
    BY <1>15, <2>1 DEF Adv!Lookup, AdvancedTypeOK
  <2> QED  BY <1>15, <2>2 DEF Adv!Lookup, Adv!Goto, Adv!name, AdvancedTypeOK, MountLabels,
       SwapLabels
<1>16. ASSUME NEW p \in Callers, Adv!FreeOld(p)
       PROVE  AdvancedTypeOK'
  BY <1>16 DEF Adv!FreeOld, Adv!Goto, Adv!Free, Adv!inserted, Adv!name, AdvancedTypeOK,
       NameLabels, MountLabels,
       OwnerLabels, SwapLabels, CallRecords, Adv!NoCall, Adv!Unset, AdvancedBounds
<1>17. ASSUME NEW p \in Callers, Adv!SetBuf(p)
       PROVE  AdvancedTypeOK'
  BY <1>17 DEF Adv!SetBuf, Adv!Goto, Adv!inserted, Adv!name, AdvancedTypeOK, NameLabels,
       MountLabels,
       OwnerLabels, SwapLabels, CallRecords, Adv!NoCall, Adv!Unset, AdvancedBounds
<1>18. ASSUME NEW p \in Callers, Adv!SetName(p)
       PROVE  AdvancedTypeOK'
  BY <1>18 DEF Adv!SetName, Adv!Goto, Adv!inserted, Adv!name, AdvancedTypeOK, NameLabels,
       MountLabels,
       OwnerLabels, SwapLabels, CallRecords, Adv!NoCall, Adv!Unset, AdvancedBounds
<1>19. ASSUME NEW p \in Callers, Adv!SetLen(p)
       PROVE  AdvancedTypeOK'
  BY <1>19 DEF Adv!SetLen, Adv!Return, Adv!Goto, Adv!inserted, Adv!name, AdvancedTypeOK,
       NameLabels,
       MountLabels, OwnerLabels, SwapLabels, CallRecords, Adv!NoCall, Adv!Unset, AdvancedBounds
<1>20. ASSUME NEW p \in Callers, Adv!ReadPath(p)
       PROVE  AdvancedTypeOK'
  <2>1. [frame[p] EXCEPT !.overtaken = (Adv!Swapping # {})] \in CallRecords
    BY DEF AdvancedTypeOK, CallRecords
  <2>2. frame' = [frame EXCEPT ![p].overtaken = (Adv!Swapping # {})]
    BY <1>20 DEF Adv!ReadPath
  <2>3. frame' \in [Callers -> CallRecords]
    BY <2>1, <2>2 DEF AdvancedTypeOK
  <2> QED  BY <1>20, <2>3 DEF Adv!ReadPath, Adv!Call, Adv!Goto, Adv!name, Adv!path,
       AdvancedTypeOK, MountLabels
<1>21. ASSUME NEW p \in Callers, Adv!CopyPath(p)
       PROVE  AdvancedTypeOK'
  BY <1>21 DEF Adv!CopyPath, Adv!Return, Adv!Goto, Adv!inserted, Adv!name, Adv!path,
       AdvancedTypeOK, NameLabels,
       MountLabels, OwnerLabels, SwapLabels, CallRecords, Adv!NoCall, Adv!Unset, AdvancedBounds
<1>22. CASE UNCHANGED Adv!vars
  BY <1>22 DEF Adv!vars, Adv!inserted, Adv!name, Adv!path, AdvancedTypeOK, NameLabels,
       MountLabels,
       OwnerLabels, SwapLabels, CallRecords, Adv!NoCall, Adv!Unset, AdvancedBounds
<1> QED  BY AdvancedSteps, <1>1, <1>2, <1>3, <1>4, <1>5, <1>6, <1>7, <1>8, <1>9, <1>10,
     <1>11, <1>12, <1>13, <1>14, <1>15, <1>16, <1>17, <1>18, <1>19, <1>20, <1>21, <1>22

\* What is registered.
LEMMA AdvancedDevices ==
    ASSUME DevicesOrdered, [Adv!Next]_(Adv!vars)
    PROVE  DevicesOrdered'
<1>1. CASE Adv!Register
  <2>1. edition = "cw04" /\ edition' = edition /\ registered' = registered \cup {Adv!next}
        /\ module' = (IF Adv!Cardinality(registered') = 3 THEN "live" ELSE "loading")
        /\ (module = "out" \/ (module = "loading" /\ Adv!Cardinality(registered) < 3))
    BY <1>1 DEF Adv!Register
  <2>2. CASE registered = {}
    <3>1. Adv!next = "prname"
      BY <2>2, DeviceCounts, AdvCount DEF Adv!next, Adv!Devices
    <3>2. registered' = {"prname"}
      BY <2>1, <2>2, <3>1
    <3> QED  BY <2>1, <3>2, DeviceCounts, AdvCount DEF DevicesOrdered
  <2>3. CASE registered = {"prname"}
    <3>1. Adv!next = "jiffies"
      BY <2>3, DeviceCounts, AdvCount DEF Adv!next, Adv!Devices
    <3>2. registered' = {"prname", "jiffies"}
      BY <2>1, <2>3, <3>1
    <3> QED  BY <2>1, <3>2, DeviceCounts, AdvCount DEF DevicesOrdered
  <2>4. CASE registered = {"prname", "jiffies"}
    <3>1. Adv!next = "mountderef"
      BY <2>4, DeviceCounts, AdvCount DEF Adv!next, Adv!Devices
    <3>2. registered' = {"prname", "jiffies", "mountderef"}
      BY <2>1, <2>4, <3>1
    <3> QED  BY <2>1, <3>2, DeviceCounts, AdvCount DEF DevicesOrdered
  <2> QED  BY <2>1, <2>2, <2>3, <2>4 DEF DevicesOrdered
<1>2. CASE Adv!RegisterFails
  BY <1>2, DeviceCounts, AdvCount DEF Adv!RegisterFails, Adv!name, Adv!path, DevicesOrdered,
       Adv!Devices, Adv!next, Adv!Undone
<1>3. CASE Adv!Undo
  BY <1>3, DeviceCounts, AdvCount DEF Adv!Undo, Adv!Fresh, Adv!name, DevicesOrdered,
       Adv!Devices, Adv!next, Adv!Undone
<1>4. CASE Adv!advanced_exit
  BY <1>4 DEF Adv!advanced_exit, Adv!Fresh, Adv!Free, DevicesOrdered, Adv!Devices, Adv!next,
       Adv!Undone
<1>5. CASE Adv!zad2_init
  BY <1>5, DeviceCounts, AdvCount DEF Adv!zad2_init, Adv!name, Adv!path, DevicesOrdered,
       Adv!Devices, Adv!next, Adv!Undone
<1>6. CASE Adv!zad2_exit
  BY <1>6 DEF Adv!zad2_exit, Adv!Fresh, DevicesOrdered, Adv!Devices, Adv!next, Adv!Undone
<1>7. ASSUME NEW p \in Callers, NEW pos \in TextLengths \cup {0}, Adv!ReadName(p, pos)
      PROVE  DevicesOrdered'
  BY <1>7 DEF Adv!ReadName, Adv!Call, Adv!Goto, Adv!inserted, Adv!name, Adv!path,
       DevicesOrdered, Adv!Devices, Adv!next,
       Adv!Undone
<1>8. ASSUME NEW p \in Callers, Adv!CopyName04(p)
      PROVE  DevicesOrdered'
  BY <1>8 DEF Adv!CopyName04, Adv!Return, Adv!Goto, Adv!inserted, Adv!name, Adv!path,
       DevicesOrdered, Adv!Devices, Adv!next,
       Adv!Undone
<1>9. ASSUME NEW p \in Callers, Adv!CopyName03(p)
      PROVE  DevicesOrdered'
  BY <1>9 DEF Adv!CopyName03, Adv!Goto, Adv!inserted, Adv!name, Adv!path, DevicesOrdered,
       Adv!Devices, Adv!next, Adv!Undone
<1>10. ASSUME NEW p \in Callers, Adv!ReturnName(p)
       PROVE  DevicesOrdered'
  BY <1>10 DEF Adv!ReturnName, Adv!Return, Adv!Goto, Adv!inserted, Adv!name, Adv!path,
       DevicesOrdered, Adv!Devices,
       Adv!next, Adv!Undone
<1>11. ASSUME NEW p \in Callers, Adv!MeasureName(p)
       PROVE  DevicesOrdered'
  BY <1>11 DEF Adv!MeasureName, Adv!Goto, Adv!inserted, Adv!path, DevicesOrdered,
       Adv!Devices, Adv!next, Adv!Undone
<1>12. ASSUME NEW p \in Callers, NEW n \in TextLengths, Adv!CopyName(p, n)
       PROVE  DevicesOrdered'
  BY <1>12 DEF Adv!CopyName, Adv!Call, Adv!Goto, Adv!inserted, Adv!path, DevicesOrdered,
       Adv!Devices, Adv!next, Adv!Undone
<1>13. ASSUME NEW p \in Callers, Adv!Allocate(p)
       PROVE  DevicesOrdered'
  BY <1>13 DEF Adv!Allocate, Adv!Call, Adv!Goto, Adv!inserted, Adv!name, DevicesOrdered,
       Adv!Devices, Adv!next, Adv!Undone
<1>14. ASSUME NEW p \in Callers, Adv!LookupFails(p)
       PROVE  DevicesOrdered'
  BY <1>14 DEF Adv!LookupFails, Adv!Return, Adv!Goto, Adv!Free, Adv!inserted, Adv!name,
       DevicesOrdered, Adv!Devices,
       Adv!next, Adv!Undone
<1>15. ASSUME NEW p \in Callers, NEW n \in TextLengths, Adv!Lookup(p, n)
       PROVE  DevicesOrdered'
  BY <1>15 DEF Adv!Lookup, Adv!Goto, Adv!inserted, Adv!name, DevicesOrdered, Adv!Devices,
       Adv!next, Adv!Undone
<1>16. ASSUME NEW p \in Callers, Adv!FreeOld(p)
       PROVE  DevicesOrdered'
  BY <1>16 DEF Adv!FreeOld, Adv!Goto, Adv!Free, Adv!inserted, Adv!name, DevicesOrdered,
       Adv!Devices, Adv!next, Adv!Undone
<1>17. ASSUME NEW p \in Callers, Adv!SetBuf(p)
       PROVE  DevicesOrdered'
  BY <1>17 DEF Adv!SetBuf, Adv!Goto, Adv!inserted, Adv!name, DevicesOrdered, Adv!Devices,
       Adv!next, Adv!Undone
<1>18. ASSUME NEW p \in Callers, Adv!SetName(p)
       PROVE  DevicesOrdered'
  BY <1>18 DEF Adv!SetName, Adv!Goto, Adv!inserted, Adv!name, DevicesOrdered, Adv!Devices,
       Adv!next, Adv!Undone
<1>19. ASSUME NEW p \in Callers, Adv!SetLen(p)
       PROVE  DevicesOrdered'
  BY <1>19 DEF Adv!SetLen, Adv!Return, Adv!Goto, Adv!inserted, Adv!name, DevicesOrdered,
       Adv!Devices, Adv!next, Adv!Undone
<1>20. ASSUME NEW p \in Callers, Adv!ReadPath(p)
       PROVE  DevicesOrdered'
  BY <1>20 DEF Adv!ReadPath, Adv!Call, Adv!Goto, Adv!inserted, Adv!name, Adv!path,
       DevicesOrdered, Adv!Devices, Adv!next,
       Adv!Undone
<1>21. ASSUME NEW p \in Callers, Adv!CopyPath(p)
       PROVE  DevicesOrdered'
  BY <1>21 DEF Adv!CopyPath, Adv!Return, Adv!Goto, Adv!inserted, Adv!name, Adv!path,
       DevicesOrdered, Adv!Devices, Adv!next,
       Adv!Undone
<1>22. CASE UNCHANGED Adv!vars
  BY <1>22 DEF Adv!vars, Adv!inserted, Adv!name, Adv!path, DevicesOrdered, Adv!Devices,
       Adv!next, Adv!Undone
<1> QED  BY AdvancedSteps, <1>1, <1>2, <1>3, <1>4, <1>5, <1>6, <1>7, <1>8, <1>9, <1>10,
     <1>11, <1>12, <1>13, <1>14, <1>15, <1>16, <1>17, <1>18, <1>19, <1>20, <1>21, <1>22

\* The name and its length.
LEMMA AdvancedNames ==
    ASSUME AdvancedBounds, AdvancedTypeOK, Adv!NameMeasured, [Adv!Next]_(Adv!vars)
    PROVE  Adv!NameMeasured'
<1>1. CASE Adv!Register
  BY <1>1 DEF Adv!Register, Adv!name, Adv!path, Adv!NameMeasured, Adv!NameReaders,
       Adv!Unset, Adv!NoCall,
       AdvancedTypeOK, NameLabels, MountLabels, OwnerLabels, SwapLabels, CallRecords
<1>2. CASE Adv!RegisterFails
  BY <1>2 DEF Adv!RegisterFails, Adv!name, Adv!path, Adv!NameMeasured, Adv!NameReaders,
       Adv!Unset, Adv!NoCall,
       AdvancedTypeOK, NameLabels, MountLabels, OwnerLabels, SwapLabels, CallRecords
<1>3. CASE Adv!Undo
  BY <1>3 DEF Adv!Undo, Adv!Fresh, Adv!name, Adv!NameMeasured, Adv!NameReaders, Adv!Unset,
       Adv!NoCall, AdvancedTypeOK,
       NameLabels, MountLabels, OwnerLabels, SwapLabels, CallRecords
<1>4. CASE Adv!advanced_exit
  BY <1>4 DEF Adv!advanced_exit, Adv!Fresh, Adv!Free, Adv!NameMeasured, Adv!NameReaders,
       Adv!Unset, Adv!NoCall,
       AdvancedTypeOK, NameLabels, MountLabels, OwnerLabels, SwapLabels, CallRecords
<1>5. CASE Adv!zad2_init
  BY <1>5 DEF Adv!zad2_init, Adv!name, Adv!path, Adv!NameMeasured, Adv!NameReaders,
       Adv!Unset, Adv!NoCall,
       AdvancedTypeOK, NameLabels, MountLabels, OwnerLabels, SwapLabels, CallRecords
<1>6. CASE Adv!zad2_exit
  BY <1>6 DEF Adv!zad2_exit, Adv!Fresh, Adv!NameMeasured, Adv!NameReaders, Adv!Unset,
       Adv!NoCall, AdvancedTypeOK,
       NameLabels, MountLabels, OwnerLabels, SwapLabels, CallRecords
<1>7. ASSUME NEW p \in Callers, NEW pos \in TextLengths \cup {0}, Adv!ReadName(p, pos)
      PROVE  Adv!NameMeasured'
  BY <1>7 DEF Adv!ReadName, Adv!Call, Adv!Goto, Adv!inserted, Adv!name, Adv!path,
       Adv!NameMeasured, Adv!NameReaders, Adv!Unset,
       Adv!NoCall, AdvancedTypeOK, NameLabels, MountLabels, OwnerLabels, SwapLabels, CallRecords
<1>8. ASSUME NEW p \in Callers, Adv!CopyName04(p)
      PROVE  Adv!NameMeasured'
  BY <1>8 DEF Adv!CopyName04, Adv!Return, Adv!Goto, Adv!inserted, Adv!name, Adv!path,
       Adv!NameMeasured, Adv!NameReaders,
       Adv!Unset, Adv!NoCall, AdvancedTypeOK, NameLabels, MountLabels, OwnerLabels, SwapLabels,
       CallRecords
<1>9. ASSUME NEW p \in Callers, Adv!CopyName03(p)
      PROVE  Adv!NameMeasured'
  BY <1>9 DEF Adv!CopyName03, Adv!Goto, Adv!inserted, Adv!name, Adv!path, Adv!NameMeasured,
       Adv!NameReaders, Adv!Unset,
       Adv!NoCall, AdvancedTypeOK, NameLabels, MountLabels, OwnerLabels, SwapLabels, CallRecords
<1>10. ASSUME NEW p \in Callers, Adv!ReturnName(p)
       PROVE  Adv!NameMeasured'
  BY <1>10 DEF Adv!ReturnName, Adv!Return, Adv!Goto, Adv!inserted, Adv!name, Adv!path,
       Adv!NameMeasured, Adv!NameReaders,
       Adv!Unset, Adv!NoCall, AdvancedTypeOK, NameLabels, MountLabels, OwnerLabels, SwapLabels,
       CallRecords
<1>11. ASSUME NEW p \in Callers, Adv!MeasureName(p)
       PROVE  Adv!NameMeasured'
  BY <1>11 DEF Adv!MeasureName, Adv!Goto, Adv!inserted, Adv!path, Adv!NameMeasured,
       Adv!NameReaders, Adv!Unset, Adv!NoCall,
       AdvancedTypeOK, NameLabels, MountLabels, OwnerLabels, SwapLabels, CallRecords
<1>12. ASSUME NEW p \in Callers, NEW n \in TextLengths, Adv!CopyName(p, n)
       PROVE  Adv!NameMeasured'
  BY <1>12 DEF Adv!CopyName, Adv!Call, Adv!Goto, Adv!inserted, Adv!path, Adv!NameMeasured,
       Adv!NameReaders, Adv!Unset,
       Adv!NoCall, AdvancedTypeOK, NameLabels, MountLabels, OwnerLabels, SwapLabels, CallRecords
<1>13. ASSUME NEW p \in Callers, Adv!Allocate(p)
       PROVE  Adv!NameMeasured'
  BY <1>13 DEF Adv!Allocate, Adv!Call, Adv!Goto, Adv!inserted, Adv!name, Adv!NameMeasured,
       Adv!NameReaders, Adv!Unset,
       Adv!NoCall, AdvancedTypeOK, NameLabels, MountLabels, OwnerLabels, SwapLabels, CallRecords
<1>14. ASSUME NEW p \in Callers, Adv!LookupFails(p)
       PROVE  Adv!NameMeasured'
  BY <1>14 DEF Adv!LookupFails, Adv!Return, Adv!Goto, Adv!Free, Adv!inserted, Adv!name,
       Adv!NameMeasured, Adv!NameReaders,
       Adv!Unset, Adv!NoCall, AdvancedTypeOK, NameLabels, MountLabels, OwnerLabels, SwapLabels,
       CallRecords
<1>15. ASSUME NEW p \in Callers, NEW n \in TextLengths, Adv!Lookup(p, n)
       PROVE  Adv!NameMeasured'
  BY <1>15 DEF Adv!Lookup, Adv!Goto, Adv!inserted, Adv!name, Adv!NameMeasured,
       Adv!NameReaders, Adv!Unset, Adv!NoCall,
       AdvancedTypeOK, NameLabels, MountLabels, OwnerLabels, SwapLabels, CallRecords
<1>16. ASSUME NEW p \in Callers, Adv!FreeOld(p)
       PROVE  Adv!NameMeasured'
  BY <1>16 DEF Adv!FreeOld, Adv!Goto, Adv!Free, Adv!inserted, Adv!name, Adv!NameMeasured,
       Adv!NameReaders, Adv!Unset,
       Adv!NoCall, AdvancedTypeOK, NameLabels, MountLabels, OwnerLabels, SwapLabels, CallRecords
<1>17. ASSUME NEW p \in Callers, Adv!SetBuf(p)
       PROVE  Adv!NameMeasured'
  BY <1>17 DEF Adv!SetBuf, Adv!Goto, Adv!inserted, Adv!name, Adv!NameMeasured,
       Adv!NameReaders, Adv!Unset, Adv!NoCall,
       AdvancedTypeOK, NameLabels, MountLabels, OwnerLabels, SwapLabels, CallRecords
<1>18. ASSUME NEW p \in Callers, Adv!SetName(p)
       PROVE  Adv!NameMeasured'
  BY <1>18 DEF Adv!SetName, Adv!Goto, Adv!inserted, Adv!name, Adv!NameMeasured,
       Adv!NameReaders, Adv!Unset, Adv!NoCall,
       AdvancedTypeOK, NameLabels, MountLabels, OwnerLabels, SwapLabels, CallRecords
<1>19. ASSUME NEW p \in Callers, Adv!SetLen(p)
       PROVE  Adv!NameMeasured'
  BY <1>19 DEF Adv!SetLen, Adv!Return, Adv!Goto, Adv!inserted, Adv!name, Adv!NameMeasured,
       Adv!NameReaders, Adv!Unset,
       Adv!NoCall, AdvancedTypeOK, NameLabels, MountLabels, OwnerLabels, SwapLabels, CallRecords
<1>20. ASSUME NEW p \in Callers, Adv!ReadPath(p)
       PROVE  Adv!NameMeasured'
  BY <1>20 DEF Adv!ReadPath, Adv!Call, Adv!Goto, Adv!inserted, Adv!name, Adv!path,
       Adv!NameMeasured, Adv!NameReaders, Adv!Unset,
       Adv!NoCall, AdvancedTypeOK, NameLabels, MountLabels, OwnerLabels, SwapLabels, CallRecords
<1>21. ASSUME NEW p \in Callers, Adv!CopyPath(p)
       PROVE  Adv!NameMeasured'
  BY <1>21 DEF Adv!CopyPath, Adv!Return, Adv!Goto, Adv!inserted, Adv!name, Adv!path,
       Adv!NameMeasured, Adv!NameReaders,
       Adv!Unset, Adv!NoCall, AdvancedTypeOK, NameLabels, MountLabels, OwnerLabels, SwapLabels,
       CallRecords
<1>22. CASE UNCHANGED Adv!vars
  BY <1>22 DEF Adv!vars, Adv!inserted, Adv!name, Adv!path, Adv!NameMeasured,
       Adv!NameReaders, Adv!Unset, Adv!NoCall,
       AdvancedTypeOK, NameLabels, MountLabels, OwnerLabels, SwapLabels, CallRecords
<1> QED  BY AdvancedSteps, <1>1, <1>2, <1>3, <1>4, <1>5, <1>6, <1>7, <1>8, <1>9, <1>10,
     <1>11, <1>12, <1>13, <1>14, <1>15, <1>16, <1>17, <1>18, <1>19, <1>20, <1>21, <1>22

\* The buffers of writes, and that of the path.
LEMMA AdvancedApart ==
    ASSUME AdvancedBounds, AdvancedTypeOK, BuffersApart, [Adv!Next]_(Adv!vars)
    PROVE  BuffersApart'
<1>1. CASE Adv!Register
  BY <1>1 DEF Adv!Register, Adv!name, Adv!path, BuffersApart, Adv!NoCall, AdvancedTypeOK,
       NameLabels,
       MountLabels, OwnerLabels, SwapLabels, CallRecords
<1>2. CASE Adv!RegisterFails
  BY <1>2 DEF Adv!RegisterFails, Adv!name, Adv!path, BuffersApart, Adv!NoCall,
       AdvancedTypeOK, NameLabels,
       MountLabels, OwnerLabels, SwapLabels, CallRecords
<1>3. CASE Adv!Undo
  BY <1>3 DEF Adv!Undo, Adv!Fresh, Adv!name, BuffersApart, Adv!NoCall, AdvancedTypeOK,
       NameLabels,
       MountLabels, OwnerLabels, SwapLabels, CallRecords
<1>4. CASE Adv!advanced_exit
  BY <1>4 DEF Adv!advanced_exit, Adv!Fresh, Adv!Free, BuffersApart, Adv!NoCall,
       AdvancedTypeOK, NameLabels,
       MountLabels, OwnerLabels, SwapLabels, CallRecords
<1>5. CASE Adv!zad2_init
  BY <1>5 DEF Adv!zad2_init, Adv!name, Adv!path, BuffersApart, Adv!NoCall, AdvancedTypeOK,
       NameLabels,
       MountLabels, OwnerLabels, SwapLabels, CallRecords
<1>6. CASE Adv!zad2_exit
  BY <1>6 DEF Adv!zad2_exit, Adv!Fresh, BuffersApart, Adv!NoCall, AdvancedTypeOK,
       NameLabels,
       MountLabels, OwnerLabels, SwapLabels, CallRecords
<1>7. ASSUME NEW p \in Callers, NEW pos \in TextLengths \cup {0}, Adv!ReadName(p, pos)
      PROVE  BuffersApart'
  BY <1>7 DEF Adv!ReadName, Adv!Call, Adv!Goto, Adv!inserted, Adv!name, Adv!path,
       BuffersApart, Adv!NoCall,
       AdvancedTypeOK, NameLabels, MountLabels, OwnerLabels, SwapLabels, CallRecords
<1>8. ASSUME NEW p \in Callers, Adv!CopyName04(p)
      PROVE  BuffersApart'
  BY <1>8 DEF Adv!CopyName04, Adv!Return, Adv!Goto, Adv!inserted, Adv!name, Adv!path,
       BuffersApart, Adv!NoCall,
       AdvancedTypeOK, NameLabels, MountLabels, OwnerLabels, SwapLabels, CallRecords
<1>9. ASSUME NEW p \in Callers, Adv!CopyName03(p)
      PROVE  BuffersApart'
  BY <1>9 DEF Adv!CopyName03, Adv!Goto, Adv!inserted, Adv!name, Adv!path, BuffersApart,
       Adv!NoCall, AdvancedTypeOK,
       NameLabels, MountLabels, OwnerLabels, SwapLabels, CallRecords
<1>10. ASSUME NEW p \in Callers, Adv!ReturnName(p)
       PROVE  BuffersApart'
  BY <1>10 DEF Adv!ReturnName, Adv!Return, Adv!Goto, Adv!inserted, Adv!name, Adv!path,
       BuffersApart, Adv!NoCall,
       AdvancedTypeOK, NameLabels, MountLabels, OwnerLabels, SwapLabels, CallRecords
<1>11. ASSUME NEW p \in Callers, Adv!MeasureName(p)
       PROVE  BuffersApart'
  BY <1>11 DEF Adv!MeasureName, Adv!Goto, Adv!inserted, Adv!path, BuffersApart, Adv!NoCall,
       AdvancedTypeOK,
       NameLabels, MountLabels, OwnerLabels, SwapLabels, CallRecords
<1>12. ASSUME NEW p \in Callers, NEW n \in TextLengths, Adv!CopyName(p, n)
       PROVE  BuffersApart'
  BY <1>12 DEF Adv!CopyName, Adv!Call, Adv!Goto, Adv!inserted, Adv!path, BuffersApart,
       Adv!NoCall, AdvancedTypeOK,
       NameLabels, MountLabels, OwnerLabels, SwapLabels, CallRecords
<1>13. ASSUME NEW p \in Callers, Adv!Allocate(p)
       PROVE  BuffersApart'
  BY <1>13 DEF Adv!Allocate, Adv!Call, Adv!Goto, Adv!inserted, Adv!name, BuffersApart,
       Adv!NoCall, AdvancedTypeOK,
       NameLabels, MountLabels, OwnerLabels, SwapLabels, CallRecords
<1>14. ASSUME NEW p \in Callers, Adv!LookupFails(p)
       PROVE  BuffersApart'
  BY <1>14 DEF Adv!LookupFails, Adv!Return, Adv!Goto, Adv!Free, Adv!inserted, Adv!name,
       BuffersApart, Adv!NoCall,
       AdvancedTypeOK, NameLabels, MountLabels, OwnerLabels, SwapLabels, CallRecords
<1>15. ASSUME NEW p \in Callers, NEW n \in TextLengths, Adv!Lookup(p, n)
       PROVE  BuffersApart'
  BY <1>15 DEF Adv!Lookup, Adv!Goto, Adv!inserted, Adv!name, BuffersApart, Adv!NoCall,
       AdvancedTypeOK,
       NameLabels, MountLabels, OwnerLabels, SwapLabels, CallRecords
<1>16. ASSUME NEW p \in Callers, Adv!FreeOld(p)
       PROVE  BuffersApart'
  BY <1>16 DEF Adv!FreeOld, Adv!Goto, Adv!Free, Adv!inserted, Adv!name, BuffersApart,
       Adv!NoCall, AdvancedTypeOK,
       NameLabels, MountLabels, OwnerLabels, SwapLabels, CallRecords
<1>17. ASSUME NEW p \in Callers, Adv!SetBuf(p)
       PROVE  BuffersApart'
  BY <1>17 DEF Adv!SetBuf, Adv!Goto, Adv!inserted, Adv!name, BuffersApart, Adv!NoCall,
       AdvancedTypeOK,
       NameLabels, MountLabels, OwnerLabels, SwapLabels, CallRecords
<1>18. ASSUME NEW p \in Callers, Adv!SetName(p)
       PROVE  BuffersApart'
  BY <1>18 DEF Adv!SetName, Adv!Goto, Adv!inserted, Adv!name, BuffersApart, Adv!NoCall,
       AdvancedTypeOK,
       NameLabels, MountLabels, OwnerLabels, SwapLabels, CallRecords
<1>19. ASSUME NEW p \in Callers, Adv!SetLen(p)
       PROVE  BuffersApart'
  BY <1>19 DEF Adv!SetLen, Adv!Return, Adv!Goto, Adv!inserted, Adv!name, BuffersApart,
       Adv!NoCall, AdvancedTypeOK,
       NameLabels, MountLabels, OwnerLabels, SwapLabels, CallRecords
<1>20. ASSUME NEW p \in Callers, Adv!ReadPath(p)
       PROVE  BuffersApart'
  BY <1>20 DEF Adv!ReadPath, Adv!Call, Adv!Goto, Adv!inserted, Adv!name, Adv!path,
       BuffersApart, Adv!NoCall,
       AdvancedTypeOK, NameLabels, MountLabels, OwnerLabels, SwapLabels, CallRecords
<1>21. ASSUME NEW p \in Callers, Adv!CopyPath(p)
       PROVE  BuffersApart'
  BY <1>21 DEF Adv!CopyPath, Adv!Return, Adv!Goto, Adv!inserted, Adv!name, Adv!path,
       BuffersApart, Adv!NoCall,
       AdvancedTypeOK, NameLabels, MountLabels, OwnerLabels, SwapLabels, CallRecords
<1>22. CASE UNCHANGED Adv!vars
  BY <1>22 DEF Adv!vars, Adv!inserted, Adv!name, Adv!path, BuffersApart, Adv!NoCall,
       AdvancedTypeOK, NameLabels,
       MountLabels, OwnerLabels, SwapLabels, CallRecords
<1> QED  BY AdvancedSteps, <1>1, <1>2, <1>3, <1>4, <1>5, <1>6, <1>7, <1>8, <1>9, <1>10,
     <1>11, <1>12, <1>13, <1>14, <1>15, <1>16, <1>17, <1>18, <1>19, <1>20, <1>21, <1>22

\* The writes that own a buffer, the one that the path owns, and what they say together.
Owners    == {p \in Callers : place[p] \in OwnerLabels}
Published == IF \E p \in Callers : place[p] = "owning" THEN {} ELSE {pathname_buf} \ {NIL}
PathOwned == ~raced => /\ ~damaged
                       /\ live = {frame[p].buf : p \in Owners} \cup Published
                       /\ Adv!Swapping = {} => pathname = pathname_buf

\* That is the property's part about buffers; the others follow from the devices.
LEMMA OwnedIs == DevicesOrdered => (Adv!BuffersOwned <=> PathOwned)
BY DeviceCounts, AdvCount DEF DevicesOrdered, Adv!BuffersOwned, PathOwned, Owners,
     OwnerLabels, Published

\* The same of the state after a step.
LEMMA OwnedNext == DevicesOrdered' => (Adv!BuffersOwned' <=> PathOwned')
<1> SUFFICES ASSUME DevicesOrdered' PROVE Adv!BuffersOwned' <=> PathOwned'
  OBVIOUS
<1> QED  BY OwnedIs, PTL

\* A write's buffer is neither that of another write nor that of the path.
LEMMA OwnBuffers ==
    ASSUME AdvancedBounds, AdvancedTypeOK, BuffersApart, NEW p \in Owners
    PROVE  /\ frame[p].buf # NIL /\ frame[p].buf # pathname_buf
           /\ \A q \in Owners : q # p => frame[q].buf # frame[p].buf
<1>1. p \in Callers /\ frame[p].buf = <<p, calls[p]>> /\ calls[p] \in Nat
  BY DEF Owners, BuffersApart, AdvancedTypeOK
<1>2. frame[p].buf # NIL
  BY <1>1 DEF AdvancedBounds
<1>3. frame[p].buf # pathname_buf
  BY <1>1, <1>2 DEF BuffersApart, Owners
<1>4. ASSUME NEW q \in Owners, q # p
      PROVE  frame[q].buf # frame[p].buf
  BY <1>1, <1>4 DEF Owners, BuffersApart
<1> QED  BY <1>2, <1>3, <1>4

\* Without the device there is no path.
LEMMA AdvancedIdle ==
    ASSUME AdvancedBounds, AdvancedTypeOK, DevicesOrdered, MountIdle, Adv!BuffersOwned,
           [Adv!Next]_(Adv!vars)
    PROVE  MountIdle'
<1>1. CASE Adv!Register
  BY <1>1 DEF Adv!Register, Adv!name, Adv!path, MountIdle, AdvancedTypeOK, NameLabels,
       MountLabels,
       OwnerLabels, SwapLabels, CallRecords, DevicesOrdered
<1>2. CASE Adv!RegisterFails
  BY <1>2 DEF Adv!RegisterFails, Adv!name, Adv!path, MountIdle, AdvancedTypeOK, NameLabels,
       MountLabels,
       OwnerLabels, SwapLabels, CallRecords, DevicesOrdered
<1>3. CASE Adv!Undo
  BY <1>3 DEF Adv!Undo, Adv!Fresh, Adv!name, MountIdle, AdvancedTypeOK, NameLabels,
       MountLabels,
       OwnerLabels, SwapLabels, CallRecords, DevicesOrdered
<1>4. CASE Adv!advanced_exit
  <2> SUFFICES ASSUME ~raced PROVE live' = {}
    BY <1>4 DEF Adv!advanced_exit, Adv!Fresh, MountIdle, MountLabels, OwnerLabels,
         SwapLabels
  <2>1. \A q \in Callers : place[q] \in {"user", "dead"}
    BY <1>4 DEF Adv!advanced_exit
  <2>2. Adv!Swapping = {} /\ Owners = {} /\ Published = {pathname_buf} \ {NIL}
    BY <2>1 DEF Adv!Swapping, Owners, OwnerLabels, Published
  <2>3. live = {pathname_buf} \ {NIL} /\ pathname = pathname_buf
    BY <2>2, OwnedIs DEF PathOwned
  <2>4. IF pathname = NIL THEN UNCHANGED <<live, damaged>> ELSE Adv!Free(pathname_buf)
    BY <1>4 DEF Adv!advanced_exit
  <2> QED  BY <2>3, <2>4 DEF Adv!Free
<1>5. CASE Adv!zad2_init
  BY <1>5 DEF Adv!zad2_init, Adv!name, Adv!path, MountIdle, AdvancedTypeOK, NameLabels,
       MountLabels,
       OwnerLabels, SwapLabels, CallRecords, DevicesOrdered
<1>6. CASE Adv!zad2_exit
  BY <1>6 DEF Adv!zad2_exit, Adv!Fresh, MountIdle, AdvancedTypeOK, NameLabels, MountLabels,
       OwnerLabels, SwapLabels, CallRecords, DevicesOrdered
<1>7. ASSUME NEW p \in Callers, NEW pos \in TextLengths \cup {0}, Adv!ReadName(p, pos)
      PROVE  MountIdle'
  BY <1>7 DEF Adv!ReadName, Adv!Call, Adv!Goto, Adv!inserted, Adv!name, Adv!path, MountIdle,
       AdvancedTypeOK,
       NameLabels, MountLabels, OwnerLabels, SwapLabels, CallRecords
<1>8. ASSUME NEW p \in Callers, Adv!CopyName04(p)
      PROVE  MountIdle'
  BY <1>8 DEF Adv!CopyName04, Adv!Return, Adv!Goto, Adv!inserted, Adv!name, Adv!path,
       MountIdle, AdvancedTypeOK,
       NameLabels, MountLabels, OwnerLabels, SwapLabels, CallRecords
<1>9. ASSUME NEW p \in Callers, Adv!CopyName03(p)
      PROVE  MountIdle'
  BY <1>9 DEF Adv!CopyName03, Adv!Goto, Adv!inserted, Adv!name, Adv!path, MountIdle,
       AdvancedTypeOK, NameLabels,
       MountLabels, OwnerLabels, SwapLabels, CallRecords
<1>10. ASSUME NEW p \in Callers, Adv!ReturnName(p)
       PROVE  MountIdle'
  BY <1>10 DEF Adv!ReturnName, Adv!Return, Adv!Goto, Adv!inserted, Adv!name, Adv!path,
       MountIdle, AdvancedTypeOK,
       NameLabels, MountLabels, OwnerLabels, SwapLabels, CallRecords
<1>11. ASSUME NEW p \in Callers, Adv!MeasureName(p)
       PROVE  MountIdle'
  BY <1>11 DEF Adv!MeasureName, Adv!Goto, Adv!inserted, Adv!path, MountIdle, AdvancedTypeOK,
       NameLabels,
       MountLabels, OwnerLabels, SwapLabels, CallRecords
<1>12. ASSUME NEW p \in Callers, NEW n \in TextLengths, Adv!CopyName(p, n)
       PROVE  MountIdle'
  BY <1>12 DEF Adv!CopyName, Adv!Call, Adv!Goto, Adv!inserted, Adv!path, MountIdle,
       AdvancedTypeOK, NameLabels,
       MountLabels, OwnerLabels, SwapLabels, CallRecords
<1>13. ASSUME NEW p \in Callers, Adv!Allocate(p)
       PROVE  MountIdle'
  BY <1>13 DEF Adv!Allocate, Adv!Call, Adv!Goto, Adv!inserted, Adv!name, MountIdle,
       AdvancedTypeOK, NameLabels,
       MountLabels, OwnerLabels, SwapLabels, CallRecords
<1>14. ASSUME NEW p \in Callers, Adv!LookupFails(p)
       PROVE  MountIdle'
  BY <1>14 DEF Adv!LookupFails, Adv!Return, Adv!Goto, Adv!Free, Adv!inserted, Adv!name,
       MountIdle, AdvancedTypeOK,
       NameLabels, MountLabels, OwnerLabels, SwapLabels, CallRecords
<1>15. ASSUME NEW p \in Callers, NEW n \in TextLengths, Adv!Lookup(p, n)
       PROVE  MountIdle'
  BY <1>15 DEF Adv!Lookup, Adv!Goto, Adv!inserted, Adv!name, MountIdle, AdvancedTypeOK,
       NameLabels,
       MountLabels, OwnerLabels, SwapLabels, CallRecords
<1>16. ASSUME NEW p \in Callers, Adv!FreeOld(p)
       PROVE  MountIdle'
  BY <1>16 DEF Adv!FreeOld, Adv!Goto, Adv!Free, Adv!inserted, Adv!name, MountIdle,
       AdvancedTypeOK, NameLabels,
       MountLabels, OwnerLabels, SwapLabels, CallRecords
<1>17. ASSUME NEW p \in Callers, Adv!SetBuf(p)
       PROVE  MountIdle'
  BY <1>17 DEF Adv!SetBuf, Adv!Goto, Adv!inserted, Adv!name, MountIdle, AdvancedTypeOK,
       NameLabels,
       MountLabels, OwnerLabels, SwapLabels, CallRecords
<1>18. ASSUME NEW p \in Callers, Adv!SetName(p)
       PROVE  MountIdle'
  BY <1>18 DEF Adv!SetName, Adv!Goto, Adv!inserted, Adv!name, MountIdle, AdvancedTypeOK,
       NameLabels,
       MountLabels, OwnerLabels, SwapLabels, CallRecords
<1>19. ASSUME NEW p \in Callers, Adv!SetLen(p)
       PROVE  MountIdle'
  BY <1>19 DEF Adv!SetLen, Adv!Return, Adv!Goto, Adv!inserted, Adv!name, MountIdle,
       AdvancedTypeOK, NameLabels,
       MountLabels, OwnerLabels, SwapLabels, CallRecords
<1>20. ASSUME NEW p \in Callers, Adv!ReadPath(p)
       PROVE  MountIdle'
  BY <1>20 DEF Adv!ReadPath, Adv!Call, Adv!Goto, Adv!inserted, Adv!name, Adv!path,
       MountIdle, AdvancedTypeOK,
       NameLabels, MountLabels, OwnerLabels, SwapLabels, CallRecords
<1>21. ASSUME NEW p \in Callers, Adv!CopyPath(p)
       PROVE  MountIdle'
  BY <1>21 DEF Adv!CopyPath, Adv!Return, Adv!Goto, Adv!inserted, Adv!name, Adv!path,
       MountIdle, AdvancedTypeOK,
       NameLabels, MountLabels, OwnerLabels, SwapLabels, CallRecords
<1>22. CASE UNCHANGED Adv!vars
  BY <1>22 DEF Adv!vars, Adv!inserted, Adv!name, Adv!path, MountIdle, AdvancedTypeOK,
       NameLabels,
       MountLabels, OwnerLabels, SwapLabels, CallRecords
<1> QED  BY AdvancedSteps, <1>1, <1>2, <1>3, <1>4, <1>5, <1>6, <1>7, <1>8, <1>9, <1>10,
     <1>11, <1>12, <1>13, <1>14, <1>15, <1>16, <1>17, <1>18, <1>19, <1>20, <1>21, <1>22

\* One write at a time swaps.
LEMMA AdvancedSwaps ==
    ASSUME AdvancedBounds, AdvancedTypeOK, DevicesOrdered, MountIdle, BuffersApart, Swaps,
           [Adv!Next]_(Adv!vars)
    PROVE  Swaps'
<1>1. CASE Adv!Register
  BY <1>1 DEF Adv!Register, Adv!name, Adv!path, Swaps, Adv!Swapping, Adv!NoCall,
       AdvancedTypeOK, NameLabels,
       MountLabels, OwnerLabels, SwapLabels, CallRecords
<1>2. CASE Adv!RegisterFails
  BY <1>2 DEF Adv!RegisterFails, Adv!name, Adv!path, Swaps, Adv!Swapping, Adv!NoCall,
       AdvancedTypeOK,
       NameLabels, MountLabels, OwnerLabels, SwapLabels, CallRecords
<1>3. CASE Adv!Undo
  BY <1>3 DEF Adv!Undo, Adv!Fresh, Adv!name, Swaps, Adv!Swapping, Adv!NoCall,
       AdvancedTypeOK, NameLabels,
       MountLabels, OwnerLabels, SwapLabels, CallRecords, MountIdle, DevicesOrdered
<1>4. CASE Adv!advanced_exit
  BY <1>4 DEF Adv!advanced_exit, Adv!Fresh, Adv!Free, Swaps, Adv!Swapping, Adv!NoCall,
       AdvancedTypeOK,
       NameLabels, MountLabels, OwnerLabels, SwapLabels, CallRecords
<1>5. CASE Adv!zad2_init
  BY <1>5 DEF Adv!zad2_init, Adv!name, Adv!path, Swaps, Adv!Swapping, Adv!NoCall,
       AdvancedTypeOK, NameLabels,
       MountLabels, OwnerLabels, SwapLabels, CallRecords
<1>6. CASE Adv!zad2_exit
  BY <1>6 DEF Adv!zad2_exit, Adv!Fresh, Swaps, Adv!Swapping, Adv!NoCall, AdvancedTypeOK,
       NameLabels,
       MountLabels, OwnerLabels, SwapLabels, CallRecords, MountIdle, DevicesOrdered
<1>7. ASSUME NEW p \in Callers, NEW pos \in TextLengths \cup {0}, Adv!ReadName(p, pos)
      PROVE  Swaps'
  BY <1>7 DEF Adv!ReadName, Adv!Call, Adv!Goto, Adv!inserted, Adv!name, Adv!path, Swaps,
       Adv!Swapping, Adv!NoCall,
       AdvancedTypeOK, NameLabels, MountLabels, OwnerLabels, SwapLabels, CallRecords
<1>8. ASSUME NEW p \in Callers, Adv!CopyName04(p)
      PROVE  Swaps'
  BY <1>8 DEF Adv!CopyName04, Adv!Return, Adv!Goto, Adv!inserted, Adv!name, Adv!path, Swaps,
       Adv!Swapping, Adv!NoCall,
       AdvancedTypeOK, NameLabels, MountLabels, OwnerLabels, SwapLabels, CallRecords
<1>9. ASSUME NEW p \in Callers, Adv!CopyName03(p)
      PROVE  Swaps'
  BY <1>9 DEF Adv!CopyName03, Adv!Goto, Adv!inserted, Adv!name, Adv!path, Swaps,
       Adv!Swapping, Adv!NoCall,
       AdvancedTypeOK, NameLabels, MountLabels, OwnerLabels, SwapLabels, CallRecords
<1>10. ASSUME NEW p \in Callers, Adv!ReturnName(p)
       PROVE  Swaps'
  BY <1>10 DEF Adv!ReturnName, Adv!Return, Adv!Goto, Adv!inserted, Adv!name, Adv!path,
       Swaps, Adv!Swapping, Adv!NoCall,
       AdvancedTypeOK, NameLabels, MountLabels, OwnerLabels, SwapLabels, CallRecords
<1>11. ASSUME NEW p \in Callers, Adv!MeasureName(p)
       PROVE  Swaps'
  BY <1>11 DEF Adv!MeasureName, Adv!Goto, Adv!inserted, Adv!path, Swaps, Adv!Swapping,
       Adv!NoCall, AdvancedTypeOK,
       NameLabels, MountLabels, OwnerLabels, SwapLabels, CallRecords
<1>12. ASSUME NEW p \in Callers, NEW n \in TextLengths, Adv!CopyName(p, n)
       PROVE  Swaps'
  BY <1>12 DEF Adv!CopyName, Adv!Call, Adv!Goto, Adv!inserted, Adv!path, Swaps,
       Adv!Swapping, Adv!NoCall,
       AdvancedTypeOK, NameLabels, MountLabels, OwnerLabels, SwapLabels, CallRecords
<1>13. ASSUME NEW p \in Callers, Adv!Allocate(p)
       PROVE  Swaps'
  BY <1>13 DEF Adv!Allocate, Adv!Call, Adv!Goto, Adv!inserted, Adv!name, Swaps,
       Adv!Swapping, Adv!NoCall,
       AdvancedTypeOK, NameLabels, MountLabels, OwnerLabels, SwapLabels, CallRecords
<1>14. ASSUME NEW p \in Callers, Adv!LookupFails(p)
       PROVE  Swaps'
  BY <1>14 DEF Adv!LookupFails, Adv!Return, Adv!Goto, Adv!Free, Adv!inserted, Adv!name,
       Swaps, Adv!Swapping, Adv!NoCall,
       AdvancedTypeOK, NameLabels, MountLabels, OwnerLabels, SwapLabels, CallRecords
<1>15. ASSUME NEW p \in Callers, NEW n \in TextLengths, Adv!Lookup(p, n)
       PROVE  Swaps'
  BY <1>15 DEF Adv!Lookup, Adv!Goto, Adv!inserted, Adv!name, Swaps, Adv!Swapping,
       Adv!NoCall, AdvancedTypeOK,
       NameLabels, MountLabels, OwnerLabels, SwapLabels, CallRecords
<1>16. ASSUME NEW p \in Callers, Adv!FreeOld(p)
       PROVE  Swaps'
  BY <1>16 DEF Adv!FreeOld, Adv!Goto, Adv!Free, Adv!inserted, Adv!name, Swaps, Adv!Swapping,
       Adv!NoCall, AdvancedTypeOK,
       NameLabels, MountLabels, OwnerLabels, SwapLabels, CallRecords
<1>17. ASSUME NEW p \in Callers, Adv!SetBuf(p)
       PROVE  Swaps'
  BY <1>17 DEF Adv!SetBuf, Adv!Goto, Adv!inserted, Adv!name, Swaps, Adv!Swapping,
       Adv!NoCall, AdvancedTypeOK,
       NameLabels, MountLabels, OwnerLabels, SwapLabels, CallRecords
<1>18. ASSUME NEW p \in Callers, Adv!SetName(p)
       PROVE  Swaps'
  BY <1>18 DEF Adv!SetName, Adv!Goto, Adv!inserted, Adv!name, Swaps, Adv!Swapping,
       Adv!NoCall, AdvancedTypeOK,
       NameLabels, MountLabels, OwnerLabels, SwapLabels, CallRecords
<1>19. ASSUME NEW p \in Callers, Adv!SetLen(p)
       PROVE  Swaps'
  BY <1>19 DEF Adv!SetLen, Adv!Return, Adv!Goto, Adv!inserted, Adv!name, Swaps,
       Adv!Swapping, Adv!NoCall,
       AdvancedTypeOK, NameLabels, MountLabels, OwnerLabels, SwapLabels, CallRecords
<1>20. ASSUME NEW p \in Callers, Adv!ReadPath(p)
       PROVE  Swaps'
  BY <1>20 DEF Adv!ReadPath, Adv!Call, Adv!Goto, Adv!inserted, Adv!name, Adv!path, Swaps,
       Adv!Swapping, Adv!NoCall,
       AdvancedTypeOK, NameLabels, MountLabels, OwnerLabels, SwapLabels, CallRecords
<1>21. ASSUME NEW p \in Callers, Adv!CopyPath(p)
       PROVE  Swaps'
  BY <1>21 DEF Adv!CopyPath, Adv!Return, Adv!Goto, Adv!inserted, Adv!name, Adv!path, Swaps,
       Adv!Swapping, Adv!NoCall,
       AdvancedTypeOK, NameLabels, MountLabels, OwnerLabels, SwapLabels, CallRecords
<1>22. CASE UNCHANGED Adv!vars
  BY <1>22 DEF Adv!vars, Adv!inserted, Adv!name, Adv!path, Swaps, Adv!Swapping, Adv!NoCall,
       AdvancedTypeOK,
       NameLabels, MountLabels, OwnerLabels, SwapLabels, CallRecords
<1> QED  BY AdvancedSteps, <1>1, <1>2, <1>3, <1>4, <1>5, <1>6, <1>7, <1>8, <1>9, <1>10,
     <1>11, <1>12, <1>13, <1>14, <1>15, <1>16, <1>17, <1>18, <1>19, <1>20, <1>21, <1>22

\* A read that no write has met.
LEMMA AdvancedUndisturbed ==
    ASSUME AdvancedBounds, AdvancedTypeOK, DevicesOrdered, MountIdle, BuffersApart,
           ReadsUnmet, [Adv!Next]_(Adv!vars)
    PROVE  ReadsUnmet'
<1>1. CASE Adv!Register
  BY <1>1 DEF Adv!Register, Adv!name, Adv!path, ReadsUnmet, Adv!Readers, Adv!Swapping,
       Adv!NoCall, AdvancedTypeOK,
       NameLabels, MountLabels, OwnerLabels, SwapLabels, CallRecords
<1>2. CASE Adv!RegisterFails
  BY <1>2 DEF Adv!RegisterFails, Adv!name, Adv!path, ReadsUnmet, Adv!Readers, Adv!Swapping,
       Adv!NoCall,
       AdvancedTypeOK, NameLabels, MountLabels, OwnerLabels, SwapLabels, CallRecords
<1>3. CASE Adv!Undo
  BY <1>3 DEF Adv!Undo, Adv!Fresh, Adv!name, ReadsUnmet, Adv!Readers, Adv!Swapping,
       Adv!NoCall, AdvancedTypeOK,
       NameLabels, MountLabels, OwnerLabels, SwapLabels, CallRecords, MountIdle,
       DevicesOrdered
<1>4. CASE Adv!advanced_exit
  BY <1>4 DEF Adv!advanced_exit, Adv!Fresh, Adv!Free, ReadsUnmet, Adv!Readers, Adv!Swapping,
       Adv!NoCall,
       AdvancedTypeOK, NameLabels, MountLabels, OwnerLabels, SwapLabels, CallRecords
<1>5. CASE Adv!zad2_init
  BY <1>5 DEF Adv!zad2_init, Adv!name, Adv!path, ReadsUnmet, Adv!Readers, Adv!Swapping,
       Adv!NoCall, AdvancedTypeOK,
       NameLabels, MountLabels, OwnerLabels, SwapLabels, CallRecords
<1>6. CASE Adv!zad2_exit
  BY <1>6 DEF Adv!zad2_exit, Adv!Fresh, ReadsUnmet, Adv!Readers, Adv!Swapping, Adv!NoCall,
       AdvancedTypeOK,
       NameLabels, MountLabels, OwnerLabels, SwapLabels, CallRecords, MountIdle,
       DevicesOrdered
<1>7. ASSUME NEW p \in Callers, NEW pos \in TextLengths \cup {0}, Adv!ReadName(p, pos)
      PROVE  ReadsUnmet'
  BY <1>7 DEF Adv!ReadName, Adv!Call, Adv!Goto, Adv!inserted, Adv!name, Adv!path,
       ReadsUnmet, Adv!Readers, Adv!Swapping,
       Adv!NoCall, AdvancedTypeOK, NameLabels, MountLabels, OwnerLabels, SwapLabels, CallRecords
<1>8. ASSUME NEW p \in Callers, Adv!CopyName04(p)
      PROVE  ReadsUnmet'
  BY <1>8 DEF Adv!CopyName04, Adv!Return, Adv!Goto, Adv!inserted, Adv!name, Adv!path,
       ReadsUnmet, Adv!Readers, Adv!Swapping,
       Adv!NoCall, AdvancedTypeOK, NameLabels, MountLabels, OwnerLabels, SwapLabels, CallRecords
<1>9. ASSUME NEW p \in Callers, Adv!CopyName03(p)
      PROVE  ReadsUnmet'
  BY <1>9 DEF Adv!CopyName03, Adv!Goto, Adv!inserted, Adv!name, Adv!path, ReadsUnmet,
       Adv!Readers, Adv!Swapping, Adv!NoCall,
       AdvancedTypeOK, NameLabels, MountLabels, OwnerLabels, SwapLabels, CallRecords
<1>10. ASSUME NEW p \in Callers, Adv!ReturnName(p)
       PROVE  ReadsUnmet'
  BY <1>10 DEF Adv!ReturnName, Adv!Return, Adv!Goto, Adv!inserted, Adv!name, Adv!path,
       ReadsUnmet, Adv!Readers,
       Adv!Swapping, Adv!NoCall, AdvancedTypeOK, NameLabels, MountLabels, OwnerLabels, SwapLabels,
       CallRecords
<1>11. ASSUME NEW p \in Callers, Adv!MeasureName(p)
       PROVE  ReadsUnmet'
  BY <1>11 DEF Adv!MeasureName, Adv!Goto, Adv!inserted, Adv!path, ReadsUnmet, Adv!Readers,
       Adv!Swapping, Adv!NoCall,
       AdvancedTypeOK, NameLabels, MountLabels, OwnerLabels, SwapLabels, CallRecords
<1>12. ASSUME NEW p \in Callers, NEW n \in TextLengths, Adv!CopyName(p, n)
       PROVE  ReadsUnmet'
  BY <1>12 DEF Adv!CopyName, Adv!Call, Adv!Goto, Adv!inserted, Adv!path, ReadsUnmet,
       Adv!Readers, Adv!Swapping, Adv!NoCall,
       AdvancedTypeOK, NameLabels, MountLabels, OwnerLabels, SwapLabels, CallRecords
<1>13. ASSUME NEW p \in Callers, Adv!Allocate(p)
       PROVE  ReadsUnmet'
  BY <1>13 DEF Adv!Allocate, Adv!Call, Adv!Goto, Adv!inserted, Adv!name, ReadsUnmet,
       Adv!Readers, Adv!Swapping, Adv!NoCall,
       AdvancedTypeOK, NameLabels, MountLabels, OwnerLabels, SwapLabels, CallRecords
<1>14. ASSUME NEW p \in Callers, Adv!LookupFails(p)
       PROVE  ReadsUnmet'
  BY <1>14 DEF Adv!LookupFails, Adv!Return, Adv!Goto, Adv!Free, Adv!inserted, Adv!name,
       ReadsUnmet, Adv!Readers,
       Adv!Swapping, Adv!NoCall, AdvancedTypeOK, NameLabels, MountLabels, OwnerLabels, SwapLabels,
       CallRecords
<1>15. ASSUME NEW p \in Callers, NEW n \in TextLengths, Adv!Lookup(p, n)
       PROVE  ReadsUnmet'
  BY <1>15 DEF Adv!Lookup, Adv!Goto, Adv!inserted, Adv!name, ReadsUnmet, Adv!Readers,
       Adv!Swapping, Adv!NoCall,
       AdvancedTypeOK, NameLabels, MountLabels, OwnerLabels, SwapLabels, CallRecords
<1>16. ASSUME NEW p \in Callers, Adv!FreeOld(p)
       PROVE  ReadsUnmet'
  BY <1>16 DEF Adv!FreeOld, Adv!Goto, Adv!Free, Adv!inserted, Adv!name, ReadsUnmet,
       Adv!Readers, Adv!Swapping, Adv!NoCall,
       AdvancedTypeOK, NameLabels, MountLabels, OwnerLabels, SwapLabels, CallRecords
<1>17. ASSUME NEW p \in Callers, Adv!SetBuf(p)
       PROVE  ReadsUnmet'
  BY <1>17 DEF Adv!SetBuf, Adv!Goto, Adv!inserted, Adv!name, ReadsUnmet, Adv!Readers,
       Adv!Swapping, Adv!NoCall,
       AdvancedTypeOK, NameLabels, MountLabels, OwnerLabels, SwapLabels, CallRecords
<1>18. ASSUME NEW p \in Callers, Adv!SetName(p)
       PROVE  ReadsUnmet'
  BY <1>18 DEF Adv!SetName, Adv!Goto, Adv!inserted, Adv!name, ReadsUnmet, Adv!Readers,
       Adv!Swapping, Adv!NoCall,
       AdvancedTypeOK, NameLabels, MountLabels, OwnerLabels, SwapLabels, CallRecords
<1>19. ASSUME NEW p \in Callers, Adv!SetLen(p)
       PROVE  ReadsUnmet'
  BY <1>19 DEF Adv!SetLen, Adv!Return, Adv!Goto, Adv!inserted, Adv!name, ReadsUnmet,
       Adv!Readers, Adv!Swapping, Adv!NoCall,
       AdvancedTypeOK, NameLabels, MountLabels, OwnerLabels, SwapLabels, CallRecords
<1>20. ASSUME NEW p \in Callers, Adv!ReadPath(p)
       PROVE  ReadsUnmet'
  BY <1>20 DEF Adv!ReadPath, Adv!Call, Adv!Goto, Adv!inserted, Adv!name, Adv!path,
       ReadsUnmet, Adv!Readers, Adv!Swapping,
       Adv!NoCall, AdvancedTypeOK, NameLabels, MountLabels, OwnerLabels, SwapLabels, CallRecords
<1>21. ASSUME NEW p \in Callers, Adv!CopyPath(p)
       PROVE  ReadsUnmet'
  BY <1>21 DEF Adv!CopyPath, Adv!Return, Adv!Goto, Adv!inserted, Adv!name, Adv!path,
       ReadsUnmet, Adv!Readers, Adv!Swapping,
       Adv!NoCall, AdvancedTypeOK, NameLabels, MountLabels, OwnerLabels, SwapLabels, CallRecords
<1>22. CASE UNCHANGED Adv!vars
  BY <1>22 DEF Adv!vars, Adv!inserted, Adv!name, Adv!path, ReadsUnmet, Adv!Readers,
       Adv!Swapping, Adv!NoCall,
       AdvancedTypeOK, NameLabels, MountLabels, OwnerLabels, SwapLabels, CallRecords
<1> QED  BY AdvancedSteps, <1>1, <1>2, <1>3, <1>4, <1>5, <1>6, <1>7, <1>8, <1>9, <1>10,
     <1>11, <1>12, <1>13, <1>14, <1>15, <1>16, <1>17, <1>18, <1>19, <1>20, <1>21, <1>22

\* Whose a buffer is.
LEMMA AdvancedOwned ==
    ASSUME AdvancedBounds, AdvancedTypeOK, DevicesOrdered, MountIdle, BuffersApart, Swaps,
           PathOwned, [Adv!Next]_(Adv!vars)
    PROVE  PathOwned'
<1>1. CASE Adv!Register
  BY <1>1 DEF Adv!Register, Adv!name, Adv!path, PathOwned, Owners, Published, Adv!Swapping,
       Adv!NoCall,
       AdvancedTypeOK, NameLabels, MountLabels, OwnerLabels, SwapLabels, CallRecords
<1>2. CASE Adv!RegisterFails
  BY <1>2 DEF Adv!RegisterFails, Adv!name, Adv!path, PathOwned, Owners, Published,
       Adv!Swapping, Adv!NoCall,
       AdvancedTypeOK, NameLabels, MountLabels, OwnerLabels, SwapLabels, CallRecords
<1>3. CASE Adv!Undo
  <2>1. "mountderef" \notin registered
    BY <1>3 DEF Adv!Undo, DevicesOrdered
  <2>2. \A q \in Callers : place[q] \notin MountLabels /\ place'[q] \notin MountLabels
    BY <1>3, <2>1 DEF Adv!Undo, MountIdle, AdvancedTypeOK, MountLabels, OwnerLabels,
         SwapLabels
  <2>3. /\ pathname' = NIL /\ pathname_buf' = NIL /\ UNCHANGED <<live, raced, damaged>>
        /\ ~raced => live = {}
    BY <1>3, <2>1 DEF Adv!Undo, MountIdle, Adv!Fresh
  <2>4. Owners' = {} /\ Adv!Swapping' = {}
    BY <2>2 DEF Owners, Adv!Swapping, MountLabels, SwapLabels
  <2>5. Published' = {}
    BY <2>3, <2>4 DEF Published
  <2> QED  BY <2>3, <2>4, <2>5 DEF PathOwned
<1>4. CASE Adv!advanced_exit
  BY <1>4 DEF Adv!advanced_exit, Adv!Fresh, Adv!Free, PathOwned, Owners, Published,
       Adv!Swapping, Adv!NoCall,
       AdvancedTypeOK, NameLabels, MountLabels, OwnerLabels, SwapLabels, CallRecords
<1>5. CASE Adv!zad2_init
  BY <1>5 DEF Adv!zad2_init, Adv!name, Adv!path, PathOwned, Owners, Published, Adv!Swapping,
       Adv!NoCall,
       AdvancedTypeOK, NameLabels, MountLabels, OwnerLabels, SwapLabels, CallRecords
<1>6. CASE Adv!zad2_exit
  <2>1. "mountderef" \notin registered
    BY <1>6 DEF Adv!zad2_exit, DevicesOrdered
  <2>2. \A q \in Callers : place[q] \notin MountLabels /\ place'[q] \notin MountLabels
    BY <1>6, <2>1 DEF Adv!zad2_exit, MountIdle, AdvancedTypeOK, MountLabels, OwnerLabels,
         SwapLabels
  <2>3. /\ pathname' = NIL /\ pathname_buf' = NIL /\ UNCHANGED <<live, raced, damaged>>
        /\ ~raced => live = {}
    BY <1>6, <2>1 DEF Adv!zad2_exit, MountIdle, Adv!Fresh
  <2>4. Owners' = {} /\ Adv!Swapping' = {}
    BY <2>2 DEF Owners, Adv!Swapping, MountLabels, SwapLabels
  <2>5. Published' = {}
    BY <2>3, <2>4 DEF Published
  <2> QED  BY <2>3, <2>4, <2>5 DEF PathOwned
<1>7. ASSUME NEW p \in Callers, NEW pos \in TextLengths \cup {0}, Adv!ReadName(p, pos)
      PROVE  PathOwned'
  BY <1>7 DEF Adv!ReadName, Adv!Call, Adv!Goto, Adv!inserted, Adv!name, Adv!path, PathOwned,
       Owners, Published,
       Adv!Swapping, Adv!NoCall, AdvancedTypeOK, NameLabels, MountLabels, OwnerLabels, SwapLabels,
       CallRecords
<1>8. ASSUME NEW p \in Callers, Adv!CopyName04(p)
      PROVE  PathOwned'
  BY <1>8 DEF Adv!CopyName04, Adv!Return, Adv!Goto, Adv!inserted, Adv!name, Adv!path,
       PathOwned, Owners, Published,
       Adv!Swapping, Adv!NoCall, AdvancedTypeOK, NameLabels, MountLabels, OwnerLabels, SwapLabels,
       CallRecords
<1>9. ASSUME NEW p \in Callers, Adv!CopyName03(p)
      PROVE  PathOwned'
  BY <1>9 DEF Adv!CopyName03, Adv!Goto, Adv!inserted, Adv!name, Adv!path, PathOwned, Owners,
       Published,
       Adv!Swapping, Adv!NoCall, AdvancedTypeOK, NameLabels, MountLabels, OwnerLabels, SwapLabels,
       CallRecords
<1>10. ASSUME NEW p \in Callers, Adv!ReturnName(p)
       PROVE  PathOwned'
  BY <1>10 DEF Adv!ReturnName, Adv!Return, Adv!Goto, Adv!inserted, Adv!name, Adv!path,
       PathOwned, Owners, Published,
       Adv!Swapping, Adv!NoCall, AdvancedTypeOK, NameLabels, MountLabels, OwnerLabels, SwapLabels,
       CallRecords
<1>11. ASSUME NEW p \in Callers, Adv!MeasureName(p)
       PROVE  PathOwned'
  BY <1>11 DEF Adv!MeasureName, Adv!Goto, Adv!inserted, Adv!path, PathOwned, Owners,
       Published, Adv!Swapping,
       Adv!NoCall, AdvancedTypeOK, NameLabels, MountLabels, OwnerLabels, SwapLabels, CallRecords
<1>12. ASSUME NEW p \in Callers, NEW n \in TextLengths, Adv!CopyName(p, n)
       PROVE  PathOwned'
  BY <1>12 DEF Adv!CopyName, Adv!Call, Adv!Goto, Adv!inserted, Adv!path, PathOwned, Owners,
       Published, Adv!Swapping,
       Adv!NoCall, AdvancedTypeOK, NameLabels, MountLabels, OwnerLabels, SwapLabels, CallRecords
<1>13. ASSUME NEW p \in Callers, Adv!Allocate(p)
       PROVE  PathOwned'
  BY <1>13 DEF Adv!Allocate, Adv!Call, Adv!Goto, Adv!inserted, Adv!name, PathOwned, Owners,
       Published, Adv!Swapping,
       Adv!NoCall, AdvancedTypeOK, NameLabels, MountLabels, OwnerLabels, SwapLabels, CallRecords
<1>14. ASSUME NEW p \in Callers, Adv!LookupFails(p)
       PROVE  PathOwned'
  <2> SUFFICES ASSUME ~raced PROVE PathOwned'
    BY <1>14 DEF Adv!LookupFails, PathOwned
  <2>1. /\ place[p] = "looking_up" /\ place' = [place EXCEPT ![p] = "user"]
        /\ frame' = [frame EXCEPT ![p] = Adv!NoCall] /\ UNCHANGED <<pathname, pathname_buf, raced>>
        /\ live' = live \ {frame[p].buf}
        /\ damaged' = (damaged \/ (frame[p].buf # NIL /\ frame[p].buf \notin live))
    BY <1>14 DEF Adv!LookupFails, Adv!Return, Adv!Goto, Adv!Free
  <2>2. p \in Owners /\ Owners' = Owners \ {p} /\ Adv!Swapping' = Adv!Swapping
    BY <2>1 DEF Owners, OwnerLabels, Adv!Swapping, AdvancedTypeOK
  <2>3. \A q \in Owners' : frame'[q].buf = frame[q].buf /\ frame[q].buf # frame[p].buf
    BY <2>1, <2>2, OwnBuffers DEF AdvancedTypeOK, Owners
  <2>4. Published' = Published
    BY <2>1 DEF Published, AdvancedTypeOK
  <2>5. frame[p].buf \notin Published
    BY <2>2, OwnBuffers DEF Published
  <2>6. live' = {frame'[q].buf : q \in Owners'} \cup Published'
    BY <2>1, <2>2, <2>3, <2>4, <2>5 DEF PathOwned
  <2> QED  BY <2>1, <2>2, <2>6 DEF PathOwned
<1>15. ASSUME NEW p \in Callers, NEW n \in TextLengths, Adv!Lookup(p, n)
       PROVE  PathOwned'
  BY <1>15 DEF Adv!Lookup, Adv!Goto, Adv!inserted, Adv!name, PathOwned, Owners, Published,
       Adv!Swapping, Adv!NoCall,
       AdvancedTypeOK, NameLabels, MountLabels, OwnerLabels, SwapLabels, CallRecords
<1>16. ASSUME NEW p \in Callers, Adv!FreeOld(p)
       PROVE  PathOwned'
  <2> SUFFICES ASSUME ~raced PROVE PathOwned'
    BY <1>16 DEF Adv!FreeOld, PathOwned
  <2>1. /\ place[p] = "freeing" /\ place' = [place EXCEPT ![p] = "owning"]
        /\ UNCHANGED <<frame, pathname, pathname_buf, raced>>
        /\ live' = live \ {pathname_buf}
        /\ damaged' = (damaged \/ (pathname_buf # NIL /\ pathname_buf \notin live))
    BY <1>16 DEF Adv!FreeOld, Adv!Goto, Adv!Free
  <2>2. Owners' = Owners /\ p \in Adv!Swapping /\ p \in Adv!Swapping' /\ place'[p] = "owning"
    BY <2>1 DEF Owners, OwnerLabels, Adv!Swapping, AdvancedTypeOK
  <2>3. \A q \in Callers : place[q] # "owning"
    BY <2>1, <2>2 DEF Swaps, Adv!Swapping
  <2>4. Published = {pathname_buf} \ {NIL} /\ Published' = {}
    BY <2>2, <2>3 DEF Published
  <2>5. \A q \in Owners : frame[q].buf # pathname_buf
    BY OwnBuffers
  <2>6. live' = {frame[q].buf : q \in Owners}
    BY <2>1, <2>4, <2>5, OwnBuffers DEF PathOwned
  <2>7. Adv!Swapping' # {} /\ ~damaged'
    BY <2>1, <2>2, <2>4 DEF PathOwned
  <2> QED  BY <2>1, <2>2, <2>4, <2>6, <2>7 DEF PathOwned
<1>17. ASSUME NEW p \in Callers, Adv!SetBuf(p)
       PROVE  PathOwned'
  <2> SUFFICES ASSUME ~raced PROVE PathOwned'
    BY <1>17 DEF Adv!SetBuf, PathOwned
  <2>1. /\ place[p] = "owning" /\ place' = [place EXCEPT ![p] = "naming"]
        /\ pathname_buf' = frame[p].buf /\ UNCHANGED <<frame, pathname, live, raced, damaged>>
    BY <1>17 DEF Adv!SetBuf, Adv!Goto
  <2>2. p \in Owners /\ Owners' = Owners \ {p} /\ p \in Adv!Swapping /\ p \in Adv!Swapping'
    BY <2>1 DEF Owners, OwnerLabels, Adv!Swapping, AdvancedTypeOK
  <2>3. \A q \in Callers : place'[q] # "owning"
    BY <2>1, <2>2 DEF Swaps, Adv!Swapping, AdvancedTypeOK
  <2>4. Published = {} /\ Published' = {frame[p].buf}
    BY <2>1, <2>2, <2>3, OwnBuffers DEF Published
  <2>5. live' = {frame[q].buf : q \in Owners'} \cup Published'
    BY <2>1, <2>2, <2>4 DEF PathOwned
  <2> QED  BY <2>1, <2>2, <2>5 DEF PathOwned
<1>18. ASSUME NEW p \in Callers, Adv!SetName(p)
       PROVE  PathOwned'
  BY <1>18 DEF Adv!SetName, Adv!Goto, Adv!inserted, Adv!name, PathOwned, Owners, Published,
       Adv!Swapping,
       Adv!NoCall, AdvancedTypeOK, NameLabels, MountLabels, OwnerLabels, SwapLabels, CallRecords
<1>19. ASSUME NEW p \in Callers, Adv!SetLen(p)
       PROVE  PathOwned'
  <2> SUFFICES ASSUME ~raced PROVE PathOwned'
    BY <1>19 DEF Adv!SetLen, PathOwned
  <2>1. /\ place[p] = "counting" /\ place' = [place EXCEPT ![p] = "user"]
        /\ frame' = [frame EXCEPT ![p] = Adv!NoCall]
        /\ UNCHANGED <<pathname, pathname_buf, live, raced, damaged>>
    BY <1>19 DEF Adv!SetLen, Adv!Return, Adv!Goto
  <2>2. Owners' = Owners /\ p \notin Owners
    BY <2>1 DEF Owners, OwnerLabels, AdvancedTypeOK
  <2>3. \A q \in Owners : frame'[q].buf = frame[q].buf
    BY <2>1, <2>2 DEF AdvancedTypeOK, Owners
  <2>4. Published' = Published
    BY <2>1 DEF Published, AdvancedTypeOK
  <2>5. pathname = pathname_buf
    BY <2>1 DEF Swaps
  <2>6. live' = {frame'[q].buf : q \in Owners'} \cup Published'
    BY <2>1, <2>2, <2>3, <2>4 DEF PathOwned
  <2> QED  BY <2>1, <2>5, <2>6 DEF PathOwned
<1>20. ASSUME NEW p \in Callers, Adv!ReadPath(p)
       PROVE  PathOwned'
  BY <1>20 DEF Adv!ReadPath, Adv!Call, Adv!Goto, Adv!inserted, Adv!name, Adv!path,
       PathOwned, Owners, Published,
       Adv!Swapping, Adv!NoCall, AdvancedTypeOK, NameLabels, MountLabels, OwnerLabels, SwapLabels,
       CallRecords
<1>21. ASSUME NEW p \in Callers, Adv!CopyPath(p)
       PROVE  PathOwned'
  BY <1>21 DEF Adv!CopyPath, Adv!Return, Adv!Goto, Adv!inserted, Adv!name, Adv!path,
       PathOwned, Owners, Published,
       Adv!Swapping, Adv!NoCall, AdvancedTypeOK, NameLabels, MountLabels, OwnerLabels, SwapLabels,
       CallRecords
<1>22. CASE UNCHANGED Adv!vars
  BY <1>22 DEF Adv!vars, Adv!inserted, Adv!name, Adv!path, PathOwned, Owners, Published,
       Adv!Swapping, Adv!NoCall,
       AdvancedTypeOK, NameLabels, MountLabels, OwnerLabels, SwapLabels, CallRecords
<1> QED  BY AdvancedSteps, <1>1, <1>2, <1>3, <1>4, <1>5, <1>6, <1>7, <1>8, <1>9, <1>10,
     <1>11, <1>12, <1>13, <1>14, <1>15, <1>16, <1>17, <1>18, <1>19, <1>20, <1>21, <1>22

\* What a read copies from is there.
LEMMA ReadersSafe == PathOwned /\ ReadsUnmet => Adv!ReadsLiveBuffer
<1> SUFFICES ASSUME PathOwned, ReadsUnmet, NEW p \in Adv!Readers, ~frame[p].overtaken, ~raced
             PROVE  pathname \in live
  BY DEF Adv!ReadsLiveBuffer
<1>1. Adv!Swapping = {} /\ pathname # NIL /\ pathname = pathname_buf
  BY DEF ReadsUnmet, PathOwned
<1>2. \A q \in Callers : place[q] # "owning"
  BY <1>1 DEF Adv!Swapping
<1> QED  BY <1>1, <1>2 DEF PathOwned, Published

\* It holds when the module is to be loaded, ...
LEMMA AdvancedBegins == Adv!Init => AdvancedInv
<1> SUFFICES ASSUME Adv!Init PROVE AdvancedInv
  OBVIOUS
<1>1. Adv!NoCall \in CallRecords
  BY DEF Adv!NoCall, CallRecords
<1>2. AdvancedTypeOK
  <2>1. place \in [Callers -> NameLabels \cup MountLabels \cup {"user", "dead"}]
    BY DEF Adv!Init
  <2>2. frame \in [Callers -> CallRecords] /\ calls \in [Callers -> Nat]
    BY <1>1 DEF Adv!Init
  <2>3. process_name \in Int /\ process_name_len \in Int
    BY DEF Adv!Init, Adv!Unset
  <2>4. raced \in BOOLEAN /\ damaged \in BOOLEAN
    BY Zenon DEF Adv!Init
  <2> QED  BY <2>1, <2>2, <2>3, <2>4, Zenon DEF AdvancedTypeOK
<1>3. /\ \A p \in Callers : place[p] = "user"
      /\ pathname = NIL /\ pathname_buf = NIL /\ live = {} /\ module = "out"
  BY DEF Adv!Init
<1>4. DevicesOrdered /\ MountIdle
  BY <1>3 DEF Adv!Init, DevicesOrdered, MountIdle, MountLabels, OwnerLabels, SwapLabels
<1>5. BuffersApart /\ Swaps /\ ReadsUnmet
  BY <1>3 DEF BuffersApart, Swaps, ReadsUnmet, Adv!Swapping, Adv!Readers, OwnerLabels,
       SwapLabels
<1>6. Adv!NameMeasured
  BY <1>3 DEF Adv!Init, Adv!NameMeasured, Adv!NameReaders
<1>7. PathOwned
  <2>1. Owners = {} /\ Published = {}
    BY <1>3 DEF Owners, OwnerLabels, Published
  <2> QED  BY <1>3, <2>1 DEF Adv!Init, PathOwned
<1> QED  BY <1>2, <1>4, <1>5, <1>6, <1>7, OwnedIs, ReadersSafe DEF AdvancedInv

\* ... and every step keeps it.
LEMMA AdvancedGoesOn == AdvancedInv /\ [Adv!Next]_(Adv!vars) => AdvancedInv'
<1> SUFFICES ASSUME AdvancedInv, [Adv!Next]_(Adv!vars) PROVE AdvancedInv'
  OBVIOUS
<1>1. PathOwned
  BY OwnedIs DEF AdvancedInv
<1>2. AdvancedTypeOK' /\ DevicesOrdered' /\ MountIdle' /\ Adv!NameMeasured'
  BY ProgramBounds, AdvancedTypes, AdvancedDevices, AdvancedIdle, AdvancedNames DEF AdvancedInv
<1>3. BuffersApart' /\ Swaps' /\ ReadsUnmet' /\ PathOwned'
  BY <1>1, ProgramBounds, AdvancedApart, AdvancedSwaps, AdvancedUndisturbed, AdvancedOwned DEF
       AdvancedInv
<1>4. Adv!BuffersOwned'
  BY <1>2, <1>3, OwnedNext
<1>5. Adv!ReadsLiveBuffer'
  BY <1>3, ReadersSafe, PTL
<1> QED  BY <1>2, <1>3, <1>4, <1>5 DEF AdvancedInv

\* Of both editions, for any processes and any names and paths: the length kept is that of
\* the name, each buffer has one owner, and a read copies from a live one.
THEOREM AdvancedSafe == Adv!Spec => []AdvancedInv
BY AdvancedBegins, AdvancedGoesOn, PTL DEF Adv!Spec
-----------------------------------------------------------------------------
(***************************************************************************)
(* cw04/debug and cw05/debug: /dev/broken, broken and repaired.            *)
(***************************************************************************)
\* The slots that are its variables, but for those above.
version       == x4
buf1          == x6
buf2          == x7
numbers_count == x8
counts        == x9
memory        == x10
done          == x11
counted       == x12
wrote         == x13
quiet         == x14
USE DEF version, buf1, buf2, numbers_count, counts, memory, done, counted, wrote, quiet

BrokenLabels == {"user", "counting", "storing", "filled", "parsing", "filling",
                 "formatted", "dead"}
Repaired     == {"debug1", "debug2", "debug3", "debug4"}
BrokenCalls  == [count : {"read", "write"}, old : Nat, pid : Nat]
BrokenTexts  == ({"raw"} \X Nat) \cup ({"name"} \X Nat) \cup {<<"spoilt", 0>>}
\* Each process is where its version of the module has been written.
BrokenTypeOK == /\ version \in Broken!Oops \cup Repaired
                /\ buf1 \in BrokenTexts /\ numbers_count \in Int
                /\ counts \in [{"read", "write"} -> Nat]
                /\ done \in [{"read", "write"} -> Nat]
                /\ place \in [Callers -> BrokenLabels] /\ frame \in [Callers -> BrokenCalls]
                /\ memory \subseteq Callers /\ quiet \subseteq Callers
                /\ wrote \in [last : Nat, together : BOOLEAN]
                /\ \A p \in Callers :
                      /\ place[p] \in {"parsing", "filling", "formatted"} => version \in Broken!Naming
                      /\ place[p] = "filled" => version \notin Broken!Naming
                      /\ place[p] = "dead" => version \in Broken!Oops \cup {"debug4"}

\* Who parses or looks for a name is the only one, and buf1 is as it was written, unless
\* two have met.
OneAtATime ==
    ~wrote.together =>
        /\ \A p, q \in Broken!Writers : p = q
        /\ \A p \in Broken!Writers :
              /\ place[p] = "parsing" => buf1 = <<"raw", wrote.last>>
              /\ place[p] = "filling" => frame[p].pid = wrote.last /\ wrote.last > 0
\* A read is undisturbed only while nobody writes.
QuietIdle == quiet # {} => Broken!Writers = {}

\* A counter is never above the calls that are over, those that still add to it counted.
Storing(c) == {p \in Callers : place[p] = "storing" /\ frame[p].count = c}
Kept == \A c \in {"read", "write"} :
           /\ counts[c] + Cardinality(Storing(c)) <= done[c]
           /\ \A p \in Storing(c) : frame[p].old + Cardinality(Storing(c)) <= done[c]

\* Who has memory, who has died.
MemoryKept ==
    /\ memory = {p \in Callers : place[p] = "filled"}
                \cup (IF version \in Broken!Oops \ {"oops3"} THEN Broken!Dead ELSE {})
    /\ version \in {"debug1", "debug2", "debug3"} => Broken!Dead = {}

\* When nobody writes, and nobody has died in it, buf1 has the last number's name.
NamesAtRest ==
    Broken!Writers = {} /\ Broken!Dead = {} =>
        /\ buf1[1] = "raw" => buf1[2] = 0
        /\ ~wrote.together =>
              IF wrote.last > 0 THEN buf1 = <<"name", wrote.last>>
              ELSE buf1 = <<"raw", 0>> \/ (version = "oops3" /\ buf1 = <<"spoilt", 0>>)
\* A read that nobody wrote under has its answer; the count is of the text.
QuietAnswers  == \A p \in quiet : buf2 = buf1
DigitsCounted == counted # <<>> => numbers_count - Broken!DigitsOf(counted[1]) \in {-1, 0, 1}

BrokenParts == /\ BrokenTypeOK /\ OneAtATime /\ QuietIdle /\ Kept /\ MemoryKept
               /\ NamesAtRest /\ QuietAnswers /\ DigitsCounted
BrokenInv   == BrokenParts /\ Broken!AnswersRight /\ Broken!CallsCounted

\* The steps of the callers.
LEMMA BrokenSteps ==
    ASSUME [Broken!BrokenNext]_(Broken!brokenVars)
    PROVE  \/ \E p \in Callers :
                 \/ Broken!LoadCount(p) \/ Broken!StoreCount(p) \/ Broken!Fill(p) \/ Broken!CopyText(p)
                 \/ \E n \in Numbers : Broken!CopyIn(p, n)
                 \/ Broken!Parse(p) \/ Broken!fill_buffer_with_process_name(p) \/ Broken!Format(p) \/ Broken!CopyOut(p)
                 \/ \E t \in Broken!Texts, c \in Broken!Chars : Broken!Count(p, t, c)
                 \/ Broken!CountFails(p) \/ Broken!NoBuffer(p)
           \/ UNCHANGED Broken!brokenVars
BY DEF Broken!BrokenNext

\* The records of a call.
LEMMA BrokenFields ==
    ASSUME NEW r \in BrokenCalls
    PROVE  /\ \A k \in Nat : [r EXCEPT !.old = k] \in BrokenCalls
           /\ \A k \in Nat : [r EXCEPT !.pid = k] \in BrokenCalls
           /\ \A k \in Nat : [r EXCEPT !.pid = k, !.count = "write"] \in BrokenCalls
           /\ [r EXCEPT !.count = "write"] \in BrokenCalls
           /\ Broken!NoCall \in BrokenCalls
BY DEF BrokenCalls, Broken!NoCall

\* What a text begins with, and what is left of it as a number.
LEMMA BrokenNumber ==
    ASSUME buf1 \in BrokenTexts
    PROVE  Broken!Number \in Nat /\ (buf1[1] = "raw" => buf1 = <<"raw", buf1[2]>> /\ buf1[2] \in Nat)
BY DEF BrokenTexts, Broken!Number

\* A set of numbers has a least one.
LEMMA LeastPlace ==
    ASSUME NEW S \in SUBSET Nat, S # {}
    PROVE  \E i \in S : \A j \in S : i <= j
<1> DEFINE R == {ss \in Nat \X Nat : ss[1] < ss[2]}
<1>1. IsWellFoundedOn(R, Nat)
  BY NatLessThanWellFounded, Zenon DEF OpToRel
<1> HIDE DEF R
<1>2. PICK i \in S : \A j \in S : ~(<<j, i>> \in R)
  BY <1>1, WFMin, Zenon
<1>3. ASSUME NEW j \in S PROVE i <= j
  <2>1. i \in Nat /\ j \in Nat /\ ~(j < i)
    <3>1. ~(<<j, i>> \in R) /\ <<j, i>> \in Nat \X Nat
      BY <1>2, <1>3
    <3> QED  BY <3>1 DEF R
  <2> QED  BY <2>1
<1> QED  BY <1>3

\* One more element makes a finite set larger by one at most.
LEMMA OneMore ==
    ASSUME NEW S, IsFiniteSet(S), NEW x, NEW R, R \subseteq S \cup {x}
    PROVE  IsFiniteSet(R) /\ Cardinality(R) \in Nat /\ Cardinality(R) <= Cardinality(S) + 1
<1>1. IsFiniteSet(S \cup {x}) /\ Cardinality(S \cup {x}) <= Cardinality(S) + 1
  <2>1. IsFiniteSet(S \cup {x})
    BY FS_AddElement
  <2>2. Cardinality(S \cup {x}) = IF x \in S THEN Cardinality(S) ELSE Cardinality(S) + 1
    BY FS_AddElement
  <2>3. Cardinality(S) \in Nat
    BY FS_CardinalityType
  <2> QED  BY <2>1, <2>2, <2>3
<1>2. IsFiniteSet(R) /\ Cardinality(R) <= Cardinality(S \cup {x})
  BY <1>1, FS_Subset
<1> QED  BY <1>1, <1>2, FS_CardinalityType

\* Sets are counted there as here.
LEMMA BrokenCount == \A S : Broken!Cardinality(S) = Cardinality(S)
BY DEF Cardinality, Broken!Cardinality, IsFiniteSet, Broken!IsFiniteSet

\* What counting goes through: the text up to its 0, or what is behind it.
LEMMA CountIsRight ==
    ASSUME BrokenBounds, NEW t \in Broken!Texts, NEW c \in Broken!Chars
    PROVE  /\ Broken!count_numbers(t \o <<c, "zero">>) \in Int
           /\ Broken!count_numbers(t \o <<c, "zero">>) - Broken!DigitsOf(t) \in {-1, 0, 1}
<1> DEFINE s == t \o <<c, "zero">>
           FirstZero(i) == i \in DOMAIN s /\ s[i] = "zero" /\ \A j \in 1 .. i - 1 : s[j] # "zero"
<1>1. PICK n \in 1 .. MaxLen : t \in [1 .. n -> Broken!Chars]
  BY DEF Broken!Texts
<1>2. n \in Nat /\ t \in Seq(Broken!Chars) /\ Len(t) = n
  BY <1>1 DEF BrokenBounds
<1>3. /\ DOMAIN s = 1 .. n + 2 /\ \A i \in 1 .. n : s[i] = t[i]
      /\ s[n + 1] = c /\ s[n + 2] = "zero"
  BY <1>2 DEF Broken!Chars
<1> HIDE DEF s
<1>4. \E i : FirstZero(i)
  <2> DEFINE Z == {i \in 1 .. n + 2 : s[i] = "zero"}
  <2>1. Z \in SUBSET Nat /\ n + 2 \in Z
    BY <1>2, <1>3
  <2>2. PICK i \in Z : \A j \in Z : i <= j
    BY <2>1, LeastPlace, Zenon
  <2>3. ASSUME NEW j \in 1 .. i - 1 PROVE s[j] # "zero"
    BY <2>2, <1>2
  <2> QED  BY <2>2, <2>3, <1>3
<1> DEFINE end == CHOOSE i \in DOMAIN s : s[i] = "zero" /\ \A j \in 1 .. i - 1 : s[j] # "zero"
<1>5. FirstZero(end)
  BY <1>4
<1> HIDE DEF end
<1> DEFINE A == {i \in 2 .. end : s[i] = "digit"}
           B == {i \in DOMAIN t : t[i] = "digit" /\ \A j \in 1 .. i : t[j] # "zero"}
<1>6. end \in 1 .. n + 2 /\ s[end] = "zero" /\ \A j \in 1 .. end - 1 : s[j] # "zero"
  BY <1>3, <1>5
<1>7. A \subseteq B \cup {n + 1}
  <2> SUFFICES ASSUME NEW i \in A, i # n + 1 PROVE i \in B
    OBVIOUS
  <2>1. i \in 2 .. end /\ s[i] = "digit" /\ i # end /\ i # n + 2
    BY <1>3, <1>6
  <2>2. i \in 1 .. n /\ t[i] = "digit"
    BY <2>1, <1>3, <1>6, <1>2
  <2>3. ASSUME NEW j \in 1 .. i PROVE t[j] # "zero"
    <3>1. j \in 1 .. n /\ j \in 1 .. end - 1
      BY <2>1, <2>2, <1>6, <1>2
    <3> QED  BY <3>1, <1>3, <1>6
  <2> QED  BY <2>2, <2>3, <1>1
<1>8. B \subseteq A \cup {1}
  <2> SUFFICES ASSUME NEW i \in B, i # 1 PROVE i \in A
    OBVIOUS
  <2>1. i \in 1 .. n /\ t[i] = "digit" /\ \A j \in 1 .. i : t[j] # "zero"
    BY <1>1
  <2>2. s[i] = "digit" /\ i >= 2
    BY <2>1, <1>3
  <2>3. CASE end < i
    <3>1. end \in 1 .. n /\ end \in 1 .. i
      BY <2>1, <2>3, <1>6, <1>2
    <3> QED  BY <3>1, <2>1, <1>3, <1>6
  <2> QED  BY <2>1, <2>2, <2>3, <1>6, <1>2
<1>9. IsFiniteSet(B) /\ IsFiniteSet(A)
  <2>1. IsFiniteSet(1 .. n) /\ B \subseteq 1 .. n /\ IsFiniteSet(2 .. end)
    BY <1>1, <1>2, <1>6, FS_Interval
  <2> QED  BY <2>1, FS_Subset
<1> HIDE DEF A, B
<1>10. /\ Cardinality(A) \in Nat /\ Cardinality(B) \in Nat
       /\ Cardinality(A) <= Cardinality(B) + 1 /\ Cardinality(B) <= Cardinality(A) + 1
  BY <1>7, <1>8, <1>9, OneMore
<1>11. Broken!count_numbers(s) = Cardinality(A) /\ Broken!DigitsOf(t) = Cardinality(B)
  BY BrokenCount DEF Broken!count_numbers, Broken!DigitsOf, A, B, end
<1> QED  BY <1>10, <1>11 DEF s

\* The types are kept.
LEMMA BrokenTypes ==
    ASSUME BrokenBounds, BrokenTypeOK, [Broken!BrokenNext]_(Broken!brokenVars)
    PROVE  BrokenTypeOK'
<1>1. ASSUME NEW p \in Callers, Broken!LoadCount(p)
      PROVE  BrokenTypeOK'
  <2>1. counts[frame[p].count] \in Nat /\ frame[p].count \in {"read", "write"}
    BY DEF BrokenTypeOK, BrokenCalls
  <2>2. [frame[p] EXCEPT !.old = counts[frame[p].count]] \in BrokenCalls
    BY <2>1, BrokenFields DEF BrokenTypeOK
  <2>3. frame' \in [Callers -> BrokenCalls] /\ done' \in [{"read", "write"} -> Nat]
    BY <1>1, <2>1, <2>2 DEF Broken!LoadCount, BrokenTypeOK
  <2> QED  BY <1>1, <2>3 DEF Broken!LoadCount, Broken!Goto, Broken!shared, BrokenTypeOK,
       BrokenLabels, Broken!Naming,
       Broken!Digits, Broken!Oops, Repaired
<1>2. ASSUME NEW p \in Callers, Broken!StoreCount(p)
      PROVE  BrokenTypeOK'
  <2>1. counts' \in [{"read", "write"} -> Nat]
    BY <1>2 DEF Broken!StoreCount, BrokenTypeOK, BrokenCalls
  <2>2. frame' \in [Callers -> BrokenCalls]
    BY <1>2 DEF Broken!StoreCount, BrokenTypeOK, BrokenCalls, Broken!NoCall
  <2> QED  BY <1>2, <2>1, <2>2 DEF Broken!StoreCount, Broken!Goto, Broken!shared,
       Broken!history, BrokenTypeOK,
       BrokenLabels, Broken!Naming, Broken!Digits, Broken!Oops, Repaired
<1>3. ASSUME NEW p \in Callers, Broken!Fill(p)
      PROVE  BrokenTypeOK'
  BY <1>3 DEF Broken!Fill, Broken!Call, Broken!Goto, Broken!Filled, Broken!history,
       BrokenTypeOK, BrokenLabels, Broken!Naming, Broken!Digits,
       Broken!Oops, Repaired
<1>4. ASSUME NEW p \in Callers, Broken!CopyText(p)
      PROVE  BrokenTypeOK'
  BY <1>4 DEF Broken!CopyText, Broken!Goto, Broken!Copied, Broken!history, BrokenTypeOK,
       BrokenLabels, Broken!Naming, Broken!Digits,
       Broken!Oops, Repaired
<1>5. ASSUME NEW p \in Callers, NEW n \in Numbers, Broken!CopyIn(p, n)
      PROVE  BrokenTypeOK'
  <2>1. buf1' \in BrokenTexts /\ wrote' \in [last : Nat, together : BOOLEAN]
    BY <1>5 DEF Broken!CopyIn, BrokenTypeOK, BrokenTexts, BrokenBounds
  <2> QED  BY <1>5, <2>1 DEF Broken!CopyIn, Broken!Call, Broken!Goto, BrokenTypeOK,
       BrokenLabels, Broken!Naming, Broken!Digits,
       Broken!Oops, Repaired
<1>6. ASSUME NEW p \in Callers, Broken!Parse(p)
      PROVE  BrokenTypeOK'
  <2>1. Broken!Number \in Nat
    BY BrokenNumber DEF BrokenTypeOK
  <2>2. frame' \in [Callers -> BrokenCalls]
    BY <1>6, <2>1, BrokenFields DEF Broken!Parse, BrokenTypeOK
  <2>3. buf1' \in BrokenTexts
    BY <1>6 DEF Broken!Parse, BrokenTypeOK, BrokenTexts
  <2> QED  BY <1>6, <2>2, <2>3 DEF Broken!Parse, Broken!Goto, Broken!history, BrokenTypeOK,
       BrokenLabels, Broken!Naming,
       Broken!Digits, Broken!Oops, Repaired
<1>7. ASSUME NEW p \in Callers, Broken!fill_buffer_with_process_name(p)
      PROVE  BrokenTypeOK'
  <2>1. frame' \in [Callers -> BrokenCalls]
    BY <1>7, BrokenFields DEF Broken!fill_buffer_with_process_name, BrokenTypeOK
  <2>2. buf1' \in BrokenTexts
    BY <1>7 DEF Broken!fill_buffer_with_process_name, BrokenTypeOK, BrokenTexts, BrokenCalls
  <2> QED  BY <1>7, <2>1, <2>2 DEF Broken!fill_buffer_with_process_name, Broken!Goto,
       Broken!history,
       BrokenTypeOK, BrokenLabels, Broken!Naming, Broken!Digits, Broken!Oops, Repaired
<1>8. ASSUME NEW p \in Callers, Broken!Format(p)
      PROVE  BrokenTypeOK'
  BY <1>8 DEF Broken!Format, Broken!Call, Broken!Goto, BrokenTypeOK, BrokenLabels,
       Broken!Naming, Broken!Digits, Broken!Oops, Repaired
<1>9. ASSUME NEW p \in Callers, Broken!CopyOut(p)
      PROVE  BrokenTypeOK'
  BY <1>9 DEF Broken!CopyOut, Broken!Goto, Broken!shared, BrokenTypeOK, BrokenLabels,
       Broken!Naming, Broken!Digits, Broken!Oops,
       Repaired
<1>10. ASSUME NEW p \in Callers, NEW t \in Broken!Texts, NEW c \in Broken!Chars, Broken!Count(p, t, c)
       PROVE  BrokenTypeOK'
  <2>1. frame' \in [Callers -> BrokenCalls]
    BY <1>10, BrokenFields DEF Broken!Count, BrokenTypeOK
  <2>2. numbers_count' \in Int
    BY <1>10, CountIsRight DEF Broken!Count
  <2> QED  BY <1>10, <2>1, <2>2 DEF Broken!Count, Broken!Call, Broken!Goto, BrokenTypeOK,
       BrokenLabels, Broken!Naming,
       Broken!Digits, Broken!Oops, Repaired
<1>11. ASSUME NEW p \in Callers, Broken!CountFails(p)
       PROVE  BrokenTypeOK'
  <2>1. frame' \in [Callers -> BrokenCalls]
    BY <1>11, BrokenFields DEF Broken!CountFails, BrokenTypeOK
  <2> QED  BY <1>11, <2>1 DEF Broken!CountFails, Broken!Call, Broken!Goto, Broken!shared,
       Broken!history, BrokenTypeOK,
       BrokenLabels, Broken!Naming, Broken!Digits, Broken!Oops, Repaired
<1>12. ASSUME NEW p \in Callers, Broken!NoBuffer(p)
       PROVE  BrokenTypeOK'
  BY <1>12 DEF Broken!NoBuffer, Broken!Call, Broken!Goto, Broken!history, BrokenTypeOK,
       BrokenLabels, Broken!Naming, Broken!Digits,
       Broken!Oops, Repaired
<1>13. CASE UNCHANGED Broken!brokenVars
  BY <1>13 DEF Broken!brokenVars, Broken!shared, Broken!history, BrokenTypeOK, BrokenLabels,
       Broken!Naming, Broken!Digits,
       Broken!Oops, Repaired
<1> QED  BY BrokenSteps, <1>1, <1>2, <1>3, <1>4, <1>5, <1>6, <1>7, <1>8, <1>9, <1>10, <1>11,
     <1>12, <1>13

\* Who writes alone is alone.
LEMMA OneStays ==
    ASSUME BrokenBounds, BrokenTypeOK, OneAtATime, [Broken!BrokenNext]_(Broken!brokenVars)
    PROVE  OneAtATime'
<1>1. ASSUME NEW p \in Callers, Broken!LoadCount(p)
      PROVE  OneAtATime'
  BY <1>1 DEF Broken!LoadCount, Broken!Goto, Broken!shared, OneAtATime, Broken!Writers,
       BrokenTypeOK, BrokenLabels
<1>2. ASSUME NEW p \in Callers, Broken!StoreCount(p)
      PROVE  OneAtATime'
  BY <1>2 DEF Broken!StoreCount, Broken!Goto, Broken!shared, Broken!history, Broken!NoCall,
       OneAtATime, Broken!Writers, BrokenTypeOK,
       BrokenLabels
<1>3. ASSUME NEW p \in Callers, Broken!Fill(p)
      PROVE  OneAtATime'
  BY <1>3 DEF Broken!Fill, Broken!Call, Broken!Goto, Broken!Filled, Broken!history,
       OneAtATime, Broken!Writers, BrokenTypeOK,
       BrokenLabels
<1>4. ASSUME NEW p \in Callers, Broken!CopyText(p)
      PROVE  OneAtATime'
  BY <1>4 DEF Broken!CopyText, Broken!Goto, Broken!Copied, Broken!history, OneAtATime,
       Broken!Writers, BrokenTypeOK,
       BrokenLabels
<1>5. ASSUME NEW p \in Callers, NEW n \in Numbers, Broken!CopyIn(p, n)
      PROVE  OneAtATime'
  BY <1>5 DEF Broken!CopyIn, Broken!Call, Broken!Goto, OneAtATime, Broken!Writers,
       BrokenTypeOK, BrokenLabels
<1>6. ASSUME NEW p \in Callers, Broken!Parse(p)
      PROVE  OneAtATime'
  <2>1. CASE wrote.together
    BY <1>6, <2>1 DEF Broken!Parse, Broken!history, OneAtATime
  <2>2. CASE ~wrote.together
    <3>1. p \in Broken!Writers /\ place[p] = "parsing" /\ buf1 = <<"raw", wrote.last>> /\ wrote.last \in Nat
      BY <1>6, <2>2 DEF Broken!Parse, Broken!Goto, OneAtATime, Broken!Writers, BrokenTypeOK
    <3>2. Broken!Number = wrote.last
      BY <3>1 DEF Broken!Number
    <3>3. /\ place' = [place EXCEPT ![p] = IF Broken!Number < 1 THEN "counting" ELSE "filling"]
          /\ wrote' = wrote /\ frame'[p].pid = Broken!Number
      BY <1>6 DEF Broken!Parse, Broken!Goto, Broken!history, BrokenTypeOK, BrokenCalls
    <3>4. \A q \in Broken!Writers' : q = p
      BY <1>6, <2>2, <3>1, <3>3 DEF OneAtATime, Broken!Writers, BrokenTypeOK
    <3>5. place'[p] = "filling" => wrote.last > 0
      BY <3>1, <3>2, <3>3 DEF BrokenTypeOK
    <3>6. place'[p] # "parsing"
      BY <3>1, <3>3 DEF BrokenTypeOK
    <3> QED  BY <3>2, <3>3, <3>4, <3>5, <3>6 DEF OneAtATime
  <2> QED  BY <2>1, <2>2
<1>7. ASSUME NEW p \in Callers, Broken!fill_buffer_with_process_name(p)
      PROVE  OneAtATime'
  <2>1. place[p] = "filling" /\ Broken!Writers' = Broken!Writers \ {p} /\ wrote' = wrote
    BY <1>7 DEF Broken!fill_buffer_with_process_name, Broken!Goto, Broken!history,
         Broken!Writers, BrokenTypeOK
  <2>2. p \in Broken!Writers
    BY <2>1 DEF Broken!Writers
  <2> QED  BY <2>1, <2>2 DEF OneAtATime
<1>8. ASSUME NEW p \in Callers, Broken!Format(p)
      PROVE  OneAtATime'
  BY <1>8 DEF Broken!Format, Broken!Call, Broken!Goto, OneAtATime, Broken!Writers,
       BrokenTypeOK, BrokenLabels
<1>9. ASSUME NEW p \in Callers, Broken!CopyOut(p)
      PROVE  OneAtATime'
  BY <1>9 DEF Broken!CopyOut, Broken!Goto, Broken!shared, OneAtATime, Broken!Writers,
       BrokenTypeOK, BrokenLabels
<1>10. ASSUME NEW p \in Callers, NEW t \in Broken!Texts, NEW c \in Broken!Chars, Broken!Count(p, t, c)
       PROVE  OneAtATime'
  BY <1>10 DEF Broken!Count, Broken!Call, Broken!Goto, OneAtATime, Broken!Writers,
       BrokenTypeOK, BrokenLabels
<1>11. ASSUME NEW p \in Callers, Broken!CountFails(p)
       PROVE  OneAtATime'
  BY <1>11 DEF Broken!CountFails, Broken!Call, Broken!Goto, Broken!shared, Broken!history,
       OneAtATime, Broken!Writers, BrokenTypeOK,
       BrokenLabels
<1>12. ASSUME NEW p \in Callers, Broken!NoBuffer(p)
       PROVE  OneAtATime'
  BY <1>12 DEF Broken!NoBuffer, Broken!Call, Broken!Goto, Broken!history, OneAtATime,
       Broken!Writers, BrokenTypeOK,
       BrokenLabels
<1>13. CASE UNCHANGED Broken!brokenVars
  BY <1>13 DEF Broken!brokenVars, Broken!shared, Broken!history, OneAtATime, Broken!Writers,
       BrokenTypeOK, BrokenLabels
<1> QED  BY BrokenSteps, <1>1, <1>2, <1>3, <1>4, <1>5, <1>6, <1>7, <1>8, <1>9, <1>10, <1>11,
     <1>12, <1>13

\* Reads are undisturbed only while nobody writes.
LEMMA QuietStays ==
    ASSUME BrokenBounds, BrokenTypeOK, QuietIdle, [Broken!BrokenNext]_(Broken!brokenVars)
    PROVE  QuietIdle'
<1>1. ASSUME NEW p \in Callers, Broken!LoadCount(p)
      PROVE  QuietIdle'
  BY <1>1 DEF Broken!LoadCount, Broken!Goto, Broken!shared, QuietIdle, Broken!Writers,
       BrokenTypeOK, BrokenLabels
<1>2. ASSUME NEW p \in Callers, Broken!StoreCount(p)
      PROVE  QuietIdle'
  BY <1>2 DEF Broken!StoreCount, Broken!Goto, Broken!shared, Broken!history, Broken!NoCall,
       QuietIdle, Broken!Writers, BrokenTypeOK,
       BrokenLabels
<1>3. ASSUME NEW p \in Callers, Broken!Fill(p)
      PROVE  QuietIdle'
  BY <1>3 DEF Broken!Fill, Broken!Call, Broken!Goto, Broken!Filled, Broken!history,
       QuietIdle, Broken!Writers, BrokenTypeOK,
       BrokenLabels
<1>4. ASSUME NEW p \in Callers, Broken!CopyText(p)
      PROVE  QuietIdle'
  BY <1>4 DEF Broken!CopyText, Broken!Goto, Broken!Copied, Broken!history, QuietIdle,
       Broken!Writers, BrokenTypeOK,
       BrokenLabels
<1>5. ASSUME NEW p \in Callers, NEW n \in Numbers, Broken!CopyIn(p, n)
      PROVE  QuietIdle'
  BY <1>5 DEF Broken!CopyIn, Broken!Call, Broken!Goto, QuietIdle, Broken!Writers,
       BrokenTypeOK, BrokenLabels
<1>6. ASSUME NEW p \in Callers, Broken!Parse(p)
      PROVE  QuietIdle'
  BY <1>6 DEF Broken!Parse, Broken!Goto, Broken!Number, Broken!history, QuietIdle,
       Broken!Writers, BrokenTypeOK, BrokenLabels
<1>7. ASSUME NEW p \in Callers, Broken!fill_buffer_with_process_name(p)
      PROVE  QuietIdle'
  BY <1>7 DEF Broken!fill_buffer_with_process_name, Broken!Goto, Broken!history, QuietIdle,
       Broken!Writers,
       BrokenTypeOK, BrokenLabels
<1>8. ASSUME NEW p \in Callers, Broken!Format(p)
      PROVE  QuietIdle'
  BY <1>8 DEF Broken!Format, Broken!Call, Broken!Goto, QuietIdle, Broken!Writers,
       BrokenTypeOK, BrokenLabels
<1>9. ASSUME NEW p \in Callers, Broken!CopyOut(p)
      PROVE  QuietIdle'
  BY <1>9 DEF Broken!CopyOut, Broken!Goto, Broken!shared, QuietIdle, Broken!Writers,
       BrokenTypeOK, BrokenLabels
<1>10. ASSUME NEW p \in Callers, NEW t \in Broken!Texts, NEW c \in Broken!Chars, Broken!Count(p, t, c)
       PROVE  QuietIdle'
  BY <1>10 DEF Broken!Count, Broken!Call, Broken!Goto, QuietIdle, Broken!Writers,
       BrokenTypeOK, BrokenLabels
<1>11. ASSUME NEW p \in Callers, Broken!CountFails(p)
       PROVE  QuietIdle'
  BY <1>11 DEF Broken!CountFails, Broken!Call, Broken!Goto, Broken!shared, Broken!history,
       QuietIdle, Broken!Writers, BrokenTypeOK,
       BrokenLabels
<1>12. ASSUME NEW p \in Callers, Broken!NoBuffer(p)
       PROVE  QuietIdle'
  BY <1>12 DEF Broken!NoBuffer, Broken!Call, Broken!Goto, Broken!history, QuietIdle,
       Broken!Writers, BrokenTypeOK, BrokenLabels
<1>13. CASE UNCHANGED Broken!brokenVars
  BY <1>13 DEF Broken!brokenVars, Broken!shared, Broken!history, QuietIdle, Broken!Writers,
       BrokenTypeOK, BrokenLabels
<1> QED  BY BrokenSteps, <1>1, <1>2, <1>3, <1>4, <1>5, <1>6, <1>7, <1>8, <1>9, <1>10, <1>11,
     <1>12, <1>13

\* What they have formatted is in buf2.
LEMMA AnswersStay ==
    ASSUME BrokenBounds, BrokenTypeOK, QuietIdle, QuietAnswers,
           [Broken!BrokenNext]_(Broken!brokenVars)
    PROVE  QuietAnswers'
<1>1. ASSUME NEW p \in Callers, Broken!LoadCount(p)
      PROVE  QuietAnswers'
  BY <1>1 DEF Broken!LoadCount, Broken!Goto, Broken!shared, QuietIdle, QuietAnswers,
       Broken!Writers, BrokenTypeOK,
       BrokenLabels
<1>2. ASSUME NEW p \in Callers, Broken!StoreCount(p)
      PROVE  QuietAnswers'
  BY <1>2 DEF Broken!StoreCount, Broken!Goto, Broken!shared, Broken!history, Broken!NoCall,
       QuietIdle, QuietAnswers, Broken!Writers,
       BrokenTypeOK, BrokenLabels
<1>3. ASSUME NEW p \in Callers, Broken!Fill(p)
      PROVE  QuietAnswers'
  BY <1>3 DEF Broken!Fill, Broken!Call, Broken!Goto, Broken!Filled, Broken!history,
       QuietIdle, QuietAnswers, Broken!Writers,
       BrokenTypeOK, BrokenLabels
<1>4. ASSUME NEW p \in Callers, Broken!CopyText(p)
      PROVE  QuietAnswers'
  BY <1>4 DEF Broken!CopyText, Broken!Goto, Broken!Copied, Broken!history, QuietIdle,
       QuietAnswers, Broken!Writers,
       BrokenTypeOK, BrokenLabels
<1>5. ASSUME NEW p \in Callers, NEW n \in Numbers, Broken!CopyIn(p, n)
      PROVE  QuietAnswers'
  BY <1>5 DEF Broken!CopyIn, Broken!Call, Broken!Goto, QuietIdle, QuietAnswers,
       Broken!Writers, BrokenTypeOK,
       BrokenLabels
<1>6. ASSUME NEW p \in Callers, Broken!Parse(p)
      PROVE  QuietAnswers'
  BY <1>6 DEF Broken!Parse, Broken!Goto, Broken!Number, Broken!history, QuietIdle,
       QuietAnswers, Broken!Writers, BrokenTypeOK,
       BrokenLabels
<1>7. ASSUME NEW p \in Callers, Broken!fill_buffer_with_process_name(p)
      PROVE  QuietAnswers'
  BY <1>7 DEF Broken!fill_buffer_with_process_name, Broken!Goto, Broken!history, QuietIdle,
       QuietAnswers,
       Broken!Writers, BrokenTypeOK, BrokenLabels
<1>8. ASSUME NEW p \in Callers, Broken!Format(p)
      PROVE  QuietAnswers'
  BY <1>8 DEF Broken!Format, Broken!Call, Broken!Goto, QuietIdle, QuietAnswers,
       Broken!Writers, BrokenTypeOK,
       BrokenLabels
<1>9. ASSUME NEW p \in Callers, Broken!CopyOut(p)
      PROVE  QuietAnswers'
  BY <1>9 DEF Broken!CopyOut, Broken!Goto, Broken!shared, QuietIdle, QuietAnswers,
       Broken!Writers, BrokenTypeOK,
       BrokenLabels
<1>10. ASSUME NEW p \in Callers, NEW t \in Broken!Texts, NEW c \in Broken!Chars, Broken!Count(p, t, c)
       PROVE  QuietAnswers'
  BY <1>10 DEF Broken!Count, Broken!Call, Broken!Goto, QuietIdle, QuietAnswers,
       Broken!Writers, BrokenTypeOK,
       BrokenLabels
<1>11. ASSUME NEW p \in Callers, Broken!CountFails(p)
       PROVE  QuietAnswers'
  BY <1>11 DEF Broken!CountFails, Broken!Call, Broken!Goto, Broken!shared, Broken!history,
       QuietIdle, QuietAnswers, Broken!Writers,
       BrokenTypeOK, BrokenLabels
<1>12. ASSUME NEW p \in Callers, Broken!NoBuffer(p)
       PROVE  QuietAnswers'
  BY <1>12 DEF Broken!NoBuffer, Broken!Call, Broken!Goto, Broken!history, QuietIdle,
       QuietAnswers, Broken!Writers,
       BrokenTypeOK, BrokenLabels
<1>13. CASE UNCHANGED Broken!brokenVars
  BY <1>13 DEF Broken!brokenVars, Broken!shared, Broken!history, QuietIdle, QuietAnswers,
       Broken!Writers, BrokenTypeOK,
       BrokenLabels
<1> QED  BY BrokenSteps, <1>1, <1>2, <1>3, <1>4, <1>5, <1>6, <1>7, <1>8, <1>9, <1>10, <1>11,
     <1>12, <1>13

\* Each text is counted as it is.
LEMMA DigitsStay ==
    ASSUME BrokenBounds, BrokenTypeOK, DigitsCounted, [Broken!BrokenNext]_(Broken!brokenVars)
    PROVE  DigitsCounted'
<1>1. ASSUME NEW p \in Callers, Broken!LoadCount(p)
      PROVE  DigitsCounted'
  BY <1>1 DEF Broken!LoadCount, Broken!Goto, Broken!shared, DigitsCounted, Broken!DigitsOf
<1>2. ASSUME NEW p \in Callers, Broken!StoreCount(p)
      PROVE  DigitsCounted'
  BY <1>2 DEF Broken!StoreCount, Broken!Goto, Broken!shared, Broken!history, Broken!NoCall,
       DigitsCounted, Broken!DigitsOf
<1>3. ASSUME NEW p \in Callers, Broken!Fill(p)
      PROVE  DigitsCounted'
  BY <1>3 DEF Broken!Fill, Broken!Call, Broken!Goto, Broken!Filled, Broken!history,
       DigitsCounted, Broken!DigitsOf
<1>4. ASSUME NEW p \in Callers, Broken!CopyText(p)
      PROVE  DigitsCounted'
  BY <1>4 DEF Broken!CopyText, Broken!Goto, Broken!Copied, Broken!history, DigitsCounted,
       Broken!DigitsOf
<1>5. ASSUME NEW p \in Callers, NEW n \in Numbers, Broken!CopyIn(p, n)
      PROVE  DigitsCounted'
  BY <1>5 DEF Broken!CopyIn, Broken!Call, Broken!Goto, DigitsCounted, Broken!DigitsOf
<1>6. ASSUME NEW p \in Callers, Broken!Parse(p)
      PROVE  DigitsCounted'
  BY <1>6 DEF Broken!Parse, Broken!Goto, Broken!Number, Broken!history, DigitsCounted,
       Broken!DigitsOf
<1>7. ASSUME NEW p \in Callers, Broken!fill_buffer_with_process_name(p)
      PROVE  DigitsCounted'
  BY <1>7 DEF Broken!fill_buffer_with_process_name, Broken!Goto, Broken!history,
       DigitsCounted, Broken!DigitsOf
<1>8. ASSUME NEW p \in Callers, Broken!Format(p)
      PROVE  DigitsCounted'
  BY <1>8 DEF Broken!Format, Broken!Call, Broken!Goto, DigitsCounted, Broken!DigitsOf
<1>9. ASSUME NEW p \in Callers, Broken!CopyOut(p)
      PROVE  DigitsCounted'
  BY <1>9 DEF Broken!CopyOut, Broken!Goto, Broken!shared, DigitsCounted, Broken!DigitsOf
<1>10. ASSUME NEW p \in Callers, NEW t \in Broken!Texts, NEW c \in Broken!Chars, Broken!Count(p, t, c)
       PROVE  DigitsCounted'
  <2>1. counted' = <<t, c>> /\ numbers_count' = Broken!count_numbers(t \o <<c, "zero">>)
    BY <1>10 DEF Broken!Count
  <2>2. Broken!DigitsOf(t)' = Broken!DigitsOf(t)
    BY DEF Broken!DigitsOf
  <2>3. counted'[1] = t
    BY <2>1
  <2> QED  BY <2>1, <2>2, <2>3, CountIsRight DEF DigitsCounted, Broken!DigitsOf
<1>11. ASSUME NEW p \in Callers, Broken!CountFails(p)
       PROVE  DigitsCounted'
  BY <1>11 DEF Broken!CountFails, Broken!Call, Broken!Goto, Broken!shared, Broken!history,
       DigitsCounted, Broken!DigitsOf
<1>12. ASSUME NEW p \in Callers, Broken!NoBuffer(p)
       PROVE  DigitsCounted'
  BY <1>12 DEF Broken!NoBuffer, Broken!Call, Broken!Goto, Broken!history, DigitsCounted,
       Broken!DigitsOf
<1>13. CASE UNCHANGED Broken!brokenVars
  BY <1>13 DEF Broken!brokenVars, Broken!shared, Broken!history, DigitsCounted,
       Broken!DigitsOf
<1> QED  BY BrokenSteps, <1>1, <1>2, <1>3, <1>4, <1>5, <1>6, <1>7, <1>8, <1>9, <1>10, <1>11,
     <1>12, <1>13

\* The last to write leaves the name.
LEMMA NamesStay ==
    ASSUME BrokenBounds, BrokenTypeOK, OneAtATime, NamesAtRest,
           [Broken!BrokenNext]_(Broken!brokenVars)
    PROVE  NamesAtRest'
<1>1. ASSUME NEW p \in Callers, Broken!LoadCount(p)
      PROVE  NamesAtRest'
  BY <1>1 DEF Broken!LoadCount, Broken!Goto, Broken!shared, NamesAtRest, Broken!Writers,
       Broken!Dead, BrokenTypeOK,
       BrokenLabels
<1>2. ASSUME NEW p \in Callers, Broken!StoreCount(p)
      PROVE  NamesAtRest'
  BY <1>2 DEF Broken!StoreCount, Broken!Goto, Broken!shared, Broken!history, Broken!NoCall,
       NamesAtRest, Broken!Writers, Broken!Dead,
       BrokenTypeOK, BrokenLabels
<1>3. ASSUME NEW p \in Callers, Broken!Fill(p)
      PROVE  NamesAtRest'
  BY <1>3 DEF Broken!Fill, Broken!Call, Broken!Goto, Broken!Filled, Broken!history,
       NamesAtRest, Broken!Writers, Broken!Dead, BrokenTypeOK,
       BrokenLabels
<1>4. ASSUME NEW p \in Callers, Broken!CopyText(p)
      PROVE  NamesAtRest'
  BY <1>4 DEF Broken!CopyText, Broken!Goto, Broken!Copied, Broken!history, NamesAtRest,
       Broken!Writers, Broken!Dead, BrokenTypeOK,
       BrokenLabels
<1>5. ASSUME NEW p \in Callers, NEW n \in Numbers, Broken!CopyIn(p, n)
      PROVE  NamesAtRest'
  <2>1. p \in Broken!Writers'
    BY <1>5 DEF Broken!CopyIn, Broken!Call, Broken!Goto, Broken!Writers, BrokenTypeOK
  <2> QED  BY <2>1 DEF NamesAtRest
<1>6. ASSUME NEW p \in Callers, Broken!Parse(p)
      PROVE  NamesAtRest'
  <2> SUFFICES ASSUME (Broken!Writers = {})', (Broken!Dead = {})' PROVE NamesAtRest'
    BY DEF NamesAtRest
  <2>1. place[p] = "parsing" /\ p \in Broken!Writers /\ wrote' = wrote /\ version' = version
    BY <1>6 DEF Broken!Parse, Broken!Goto, Broken!history, Broken!Writers
  <2>2. Broken!Number < 1
    BY <1>6, <2>1 DEF Broken!Parse, Broken!Goto, Broken!Writers, BrokenTypeOK
  <2>3. Broken!Number \in Nat /\ (buf1[1] = "raw" => buf1 = <<"raw", buf1[2]>> /\ buf1[2] \in Nat)
    BY BrokenNumber DEF BrokenTypeOK
  <2>4. buf1[1] = "raw" => buf1 = <<"raw", 0>>
    BY <2>2, <2>3 DEF Broken!Number
  <2>5. buf1' = IF version = "oops3" THEN <<"spoilt", 0>> ELSE buf1
    BY <1>6 DEF Broken!Parse
  <2>6. ~wrote.together => buf1 = <<"raw", wrote.last>> /\ wrote.last \in Nat
    BY <2>1 DEF OneAtATime, BrokenTypeOK
  <2>7. ~wrote.together => wrote.last = 0 /\ buf1 = <<"raw", 0>>
    BY <2>4, <2>6
  <2>8. buf1'[1] = "raw" => buf1'[2] = 0
    BY <2>4, <2>5
  <2> QED  BY <2>1, <2>5, <2>7, <2>8 DEF NamesAtRest
<1>7. ASSUME NEW p \in Callers, Broken!fill_buffer_with_process_name(p)
      PROVE  NamesAtRest'
  <2> SUFFICES ASSUME (Broken!Writers = {})', (Broken!Dead = {})' PROVE NamesAtRest'
    BY DEF NamesAtRest
  <2>1. place[p] = "filling" /\ p \in Broken!Writers /\ wrote' = wrote /\ version' = version
    BY <1>7 DEF Broken!fill_buffer_with_process_name, Broken!Goto, Broken!history,
         Broken!Writers
  <2>2. buf1' = <<"name", frame[p].pid>>
    BY <1>7, <2>1 DEF Broken!fill_buffer_with_process_name, Broken!Goto, Broken!Dead,
         BrokenTypeOK
  <2>3. ~wrote.together => frame[p].pid = wrote.last /\ wrote.last > 0
    BY <2>1 DEF OneAtATime
  <2> QED  BY <2>1, <2>2, <2>3 DEF NamesAtRest
<1>8. ASSUME NEW p \in Callers, Broken!Format(p)
      PROVE  NamesAtRest'
  BY <1>8 DEF Broken!Format, Broken!Call, Broken!Goto, NamesAtRest, Broken!Writers,
       Broken!Dead, BrokenTypeOK, BrokenLabels
<1>9. ASSUME NEW p \in Callers, Broken!CopyOut(p)
      PROVE  NamesAtRest'
  BY <1>9 DEF Broken!CopyOut, Broken!Goto, Broken!shared, NamesAtRest, Broken!Writers,
       Broken!Dead, BrokenTypeOK, BrokenLabels
<1>10. ASSUME NEW p \in Callers, NEW t \in Broken!Texts, NEW c \in Broken!Chars, Broken!Count(p, t, c)
       PROVE  NamesAtRest'
  BY <1>10 DEF Broken!Count, Broken!Call, Broken!Goto, NamesAtRest, Broken!Writers,
       Broken!Dead, BrokenTypeOK, BrokenLabels
<1>11. ASSUME NEW p \in Callers, Broken!CountFails(p)
       PROVE  NamesAtRest'
  BY <1>11 DEF Broken!CountFails, Broken!Call, Broken!Goto, Broken!shared, Broken!history,
       NamesAtRest, Broken!Writers, Broken!Dead,
       BrokenTypeOK, BrokenLabels
<1>12. ASSUME NEW p \in Callers, Broken!NoBuffer(p)
       PROVE  NamesAtRest'
  BY <1>12 DEF Broken!NoBuffer, Broken!Call, Broken!Goto, Broken!history, NamesAtRest,
       Broken!Writers, Broken!Dead, BrokenTypeOK,
       BrokenLabels
<1>13. CASE UNCHANGED Broken!brokenVars
  BY <1>13 DEF Broken!brokenVars, Broken!shared, Broken!history, NamesAtRest,
       Broken!Writers, Broken!Dead, BrokenTypeOK,
       BrokenLabels
<1> QED  BY BrokenSteps, <1>1, <1>2, <1>3, <1>4, <1>5, <1>6, <1>7, <1>8, <1>9, <1>10, <1>11,
     <1>12, <1>13

\* Memory is freed, or lost with who had it.
LEMMA MemoryStays ==
    ASSUME BrokenBounds, BrokenTypeOK, MemoryKept, [Broken!BrokenNext]_(Broken!brokenVars)
    PROVE  MemoryKept'
<1>1. ASSUME NEW p \in Callers, Broken!LoadCount(p)
      PROVE  MemoryKept'
  BY <1>1 DEF Broken!LoadCount, Broken!Goto, Broken!shared, MemoryKept, Broken!Dead,
       BrokenTypeOK, BrokenLabels, Broken!Naming,
       Broken!Digits, Broken!Oops, Repaired
<1>2. ASSUME NEW p \in Callers, Broken!StoreCount(p)
      PROVE  MemoryKept'
  BY <1>2 DEF Broken!StoreCount, Broken!Goto, Broken!shared, Broken!history, Broken!NoCall,
       MemoryKept, Broken!Dead, BrokenTypeOK,
       BrokenLabels, Broken!Naming, Broken!Digits, Broken!Oops, Repaired
<1>3. ASSUME NEW p \in Callers, Broken!Fill(p)
      PROVE  MemoryKept'
  BY <1>3 DEF Broken!Fill, Broken!Call, Broken!Goto, Broken!Filled, Broken!history,
       MemoryKept, Broken!Dead, BrokenTypeOK,
       BrokenLabels, Broken!Naming, Broken!Digits, Broken!Oops, Repaired
<1>4. ASSUME NEW p \in Callers, Broken!CopyText(p)
      PROVE  MemoryKept'
  BY <1>4 DEF Broken!CopyText, Broken!Goto, Broken!Copied, Broken!history, MemoryKept,
       Broken!Dead, BrokenTypeOK, BrokenLabels,
       Broken!Naming, Broken!Digits, Broken!Oops, Repaired
<1>5. ASSUME NEW p \in Callers, NEW n \in Numbers, Broken!CopyIn(p, n)
      PROVE  MemoryKept'
  BY <1>5 DEF Broken!CopyIn, Broken!Call, Broken!Goto, MemoryKept, Broken!Dead,
       BrokenTypeOK, BrokenLabels, Broken!Naming,
       Broken!Digits, Broken!Oops, Repaired
<1>6. ASSUME NEW p \in Callers, Broken!Parse(p)
      PROVE  MemoryKept'
  BY <1>6 DEF Broken!Parse, Broken!Goto, Broken!Number, Broken!history, MemoryKept,
       Broken!Dead, BrokenTypeOK, BrokenLabels,
       Broken!Naming, Broken!Digits, Broken!Oops, Repaired
<1>7. ASSUME NEW p \in Callers, Broken!fill_buffer_with_process_name(p)
      PROVE  MemoryKept'
  BY <1>7 DEF Broken!fill_buffer_with_process_name, Broken!Goto, Broken!history, MemoryKept,
       Broken!Dead, BrokenTypeOK,
       BrokenLabels, Broken!Naming, Broken!Digits, Broken!Oops, Repaired
<1>8. ASSUME NEW p \in Callers, Broken!Format(p)
      PROVE  MemoryKept'
  BY <1>8 DEF Broken!Format, Broken!Call, Broken!Goto, MemoryKept, Broken!Dead,
       BrokenTypeOK, BrokenLabels, Broken!Naming,
       Broken!Digits, Broken!Oops, Repaired
<1>9. ASSUME NEW p \in Callers, Broken!CopyOut(p)
      PROVE  MemoryKept'
  BY <1>9 DEF Broken!CopyOut, Broken!Goto, Broken!shared, MemoryKept, Broken!Dead,
       BrokenTypeOK, BrokenLabels, Broken!Naming,
       Broken!Digits, Broken!Oops, Repaired
<1>10. ASSUME NEW p \in Callers, NEW t \in Broken!Texts, NEW c \in Broken!Chars, Broken!Count(p, t, c)
       PROVE  MemoryKept'
  BY <1>10 DEF Broken!Count, Broken!Call, Broken!Goto, MemoryKept, Broken!Dead,
       BrokenTypeOK, BrokenLabels, Broken!Naming,
       Broken!Digits, Broken!Oops, Repaired
<1>11. ASSUME NEW p \in Callers, Broken!CountFails(p)
       PROVE  MemoryKept'
  BY <1>11 DEF Broken!CountFails, Broken!Call, Broken!Goto, Broken!shared, Broken!history,
       MemoryKept, Broken!Dead, BrokenTypeOK,
       BrokenLabels, Broken!Naming, Broken!Digits, Broken!Oops, Repaired
<1>12. ASSUME NEW p \in Callers, Broken!NoBuffer(p)
       PROVE  MemoryKept'
  BY <1>12 DEF Broken!NoBuffer, Broken!Call, Broken!Goto, Broken!history, MemoryKept,
       Broken!Dead, BrokenTypeOK, BrokenLabels,
       Broken!Naming, Broken!Digits, Broken!Oops, Repaired
<1>13. CASE UNCHANGED Broken!brokenVars
  BY <1>13 DEF Broken!brokenVars, Broken!shared, Broken!history, MemoryKept, Broken!Dead,
       BrokenTypeOK, BrokenLabels,
       Broken!Naming, Broken!Digits, Broken!Oops, Repaired
<1> QED  BY BrokenSteps, <1>1, <1>2, <1>3, <1>4, <1>5, <1>6, <1>7, <1>8, <1>9, <1>10, <1>11,
     <1>12, <1>13

\* Who is about to add to a counter can be counted.
LEMMA StoringFinite ==
    ASSUME BrokenBounds
    PROVE  \A c : IsFiniteSet(Storing(c)) /\ Cardinality(Storing(c)) \in Nat
<1> TAKE c
<1>1. Storing(c) \subseteq Callers /\ IsFiniteSet(Callers)
  BY DEF Storing, BrokenBounds
<1> QED  BY <1>1, FS_Subset, FS_CardinalityType

\* What a call adds to a counter, and what it overwrites.
LEMMA CountsStay ==
    ASSUME BrokenBounds, BrokenTypeOK, Kept, [Broken!BrokenNext]_(Broken!brokenVars)
    PROVE  Kept'
<1>1. ASSUME NEW p \in Callers, Broken!LoadCount(p)
      PROVE  Kept'
  <2>1. PICK d \in {"read", "write"} : d = frame[p].count
    BY DEF BrokenTypeOK, BrokenCalls
  <2>2. /\ p \notin Storing(d) /\ Storing(d)' = Storing(d) \cup {p}
        /\ \A c \in {"read", "write"} : c # d => Storing(c)' = Storing(c)
    BY <1>1, <2>1 DEF Broken!LoadCount, Broken!Goto, Storing, BrokenTypeOK, BrokenCalls
  <2>3. /\ counts' = counts /\ done' = [done EXCEPT ![d] = done[d] + 1]
        /\ frame' = [frame EXCEPT ![p].old = counts[d]]
    BY <1>1, <2>1 DEF Broken!LoadCount
  <2>4. Cardinality(Storing(d)') = Cardinality(Storing(d)) + 1
    BY <2>2, StoringFinite, FS_AddElement
  <2>5. \A c \in {"read", "write"} : Cardinality(Storing(c)) \in Nat
    BY StoringFinite
  <2>6. ASSUME NEW c \in {"read", "write"}, c # d
        PROVE  /\ counts'[c] + Cardinality(Storing(c)') <= done'[c]
               /\ \A q \in Storing(c)' : frame'[q].old + Cardinality(Storing(c)') <= done'[c]
    <3>1. Storing(c)' = Storing(c) /\ p \notin Storing(c) /\ done'[c] = done[c]
      BY <2>1, <2>2, <2>3, <2>6 DEF Storing, BrokenTypeOK
    <3>2. \A q \in Storing(c) : frame'[q] = frame[q]
      BY <3>1, <2>3 DEF Storing, BrokenTypeOK
    <3> QED  BY <3>1, <3>2, <2>3 DEF Kept
  <2>7. counts'[d] + Cardinality(Storing(d)') <= done'[d]
    BY <2>3, <2>4, <2>5 DEF Kept, BrokenTypeOK
  <2>8. ASSUME NEW q \in Storing(d)' PROVE frame'[q].old + Cardinality(Storing(d)') <= done'[d]
    <3>1. CASE q = p
      <4>1. frame'[p].old = counts[d]
        BY <2>3 DEF BrokenTypeOK, BrokenCalls
      <4> QED  BY <3>1, <4>1, <2>7, <2>3
    <3>2. CASE q # p
      <4>1. q \in Storing(d) /\ frame'[q] = frame[q] /\ frame[q].old \in Nat
        BY <3>2, <2>8, <2>2, <2>3 DEF Storing, BrokenTypeOK, BrokenCalls
      <4>2. frame[q].old + Cardinality(Storing(d)) <= done[d]
        BY <4>1 DEF Kept
      <4> QED  BY <4>1, <4>2, <2>3, <2>4, <2>5 DEF BrokenTypeOK
    <3> QED  BY <3>1, <3>2
  <2> QED  BY <2>6, <2>7, <2>8 DEF Kept
<1>2. ASSUME NEW p \in Callers, Broken!StoreCount(p)
      PROVE  Kept'
  <2>1. PICK d \in {"read", "write"} : d = frame[p].count
    BY DEF BrokenTypeOK, BrokenCalls
  <2>2. /\ p \in Storing(d) /\ Storing(d)' = Storing(d) \ {p}
        /\ \A c \in {"read", "write"} : c # d => Storing(c)' = Storing(c) /\ p \notin Storing(c)
    BY <1>2, <2>1 DEF Broken!StoreCount, Broken!Goto, Storing, BrokenTypeOK, BrokenCalls
  <2>3. /\ counts' = [counts EXCEPT ![d] = frame[p].old + 1] /\ done' = done
        /\ frame' = [frame EXCEPT ![p] = Broken!NoCall] /\ frame[p].old \in Nat
    BY <1>2, <2>1 DEF Broken!StoreCount, Broken!history, BrokenTypeOK, BrokenCalls
  <2>4. Cardinality(Storing(d)') = Cardinality(Storing(d)) - 1
    BY <2>2, StoringFinite, FS_RemoveElement
  <2>5. \A c \in {"read", "write"} : Cardinality(Storing(c)) \in Nat
    BY StoringFinite
  <2>6. \A c \in {"read", "write"}, q \in Callers :
            q \in Storing(c)' => q \in Storing(c) /\ frame'[q] = frame[q] /\ frame[q].old \in Nat
    BY <2>1, <2>2, <2>3 DEF Storing, BrokenTypeOK, BrokenCalls
  <2>7. ASSUME NEW c \in {"read", "write"}, c # d
        PROVE  /\ counts'[c] + Cardinality(Storing(c)') <= done'[c]
               /\ \A q \in Storing(c)' : frame'[q].old + Cardinality(Storing(c)') <= done'[c]
    <3>1. Storing(c)' = Storing(c) /\ counts'[c] = counts[c]
      BY <2>2, <2>3, <2>7 DEF BrokenTypeOK
    <3>2. \A q \in Storing(c) : frame'[q] = frame[q]
      BY <2>2, <2>3, <2>7 DEF Storing, BrokenTypeOK
    <3> QED  BY <3>1, <3>2, <2>3 DEF Kept
  <2>8. counts'[d] + Cardinality(Storing(d)') <= done'[d]
    <3>1. frame[p].old + Cardinality(Storing(d)) <= done[d]
      BY <2>2 DEF Kept
    <3> QED  BY <3>1, <2>3, <2>4, <2>5 DEF BrokenTypeOK
  <2>9. ASSUME NEW q \in Storing(d)' PROVE frame'[q].old + Cardinality(Storing(d)') <= done'[d]
    <3>1. q \in Storing(d) /\ frame'[q] = frame[q] /\ frame[q].old \in Nat
      BY <2>9, <2>2, <2>3 DEF Storing, BrokenTypeOK, BrokenCalls
    <3>2. frame[q].old + Cardinality(Storing(d)) <= done[d]
      BY <3>1 DEF Kept
    <3> QED  BY <3>1, <3>2, <2>3, <2>4, <2>5 DEF BrokenTypeOK
  <2> QED  BY <2>7, <2>8, <2>9 DEF Kept
<1>3. ASSUME NEW p \in Callers, Broken!Fill(p)
      PROVE  Kept'
  BY <1>3 DEF Broken!Fill, Broken!Call, Broken!Goto, Broken!Filled, Broken!history, Kept,
       Storing, BrokenTypeOK, BrokenLabels
<1>4. ASSUME NEW p \in Callers, Broken!CopyText(p)
      PROVE  Kept'
  BY ZenonT(60), <1>4 DEF Broken!CopyText, Broken!Goto, Broken!Copied, Broken!history, Kept, Storing,
       BrokenTypeOK, BrokenLabels
<1>5. ASSUME NEW p \in Callers, NEW n \in Numbers, Broken!CopyIn(p, n)
      PROVE  Kept'
  BY <1>5 DEF Broken!CopyIn, Broken!Call, Broken!Goto, Kept, Storing, BrokenTypeOK,
       BrokenLabels
<1>6. ASSUME NEW p \in Callers, Broken!Parse(p)
      PROVE  Kept'
  BY <1>6 DEF Broken!Parse, Broken!Goto, Broken!Number, Broken!history, Kept, Storing,
       BrokenTypeOK, BrokenLabels
<1>7. ASSUME NEW p \in Callers, Broken!fill_buffer_with_process_name(p)
      PROVE  Kept'
  BY ZenonT(60), <1>7 DEF Broken!fill_buffer_with_process_name, Broken!Goto, Broken!history, Kept,
       Storing, BrokenTypeOK,
       BrokenLabels
<1>8. ASSUME NEW p \in Callers, Broken!Format(p)
      PROVE  Kept'
  BY <1>8 DEF Broken!Format, Broken!Call, Broken!Goto, Kept, Storing, BrokenTypeOK,
       BrokenLabels
<1>9. ASSUME NEW p \in Callers, Broken!CopyOut(p)
      PROVE  Kept'
  BY <1>9 DEF Broken!CopyOut, Broken!Goto, Broken!shared, Kept, Storing, BrokenTypeOK,
       BrokenLabels
<1>10. ASSUME NEW p \in Callers, NEW t \in Broken!Texts, NEW c \in Broken!Chars, Broken!Count(p, t, c)
       PROVE  Kept'
  BY <1>10 DEF Broken!Count, Broken!Call, Broken!Goto, Kept, Storing, BrokenTypeOK,
       BrokenLabels
<1>11. ASSUME NEW p \in Callers, Broken!CountFails(p)
       PROVE  Kept'
  BY <1>11 DEF Broken!CountFails, Broken!Call, Broken!Goto, Broken!shared, Broken!history,
       Kept, Storing, BrokenTypeOK,
       BrokenLabels
<1>12. ASSUME NEW p \in Callers, Broken!NoBuffer(p)
       PROVE  Kept'
  BY <1>12 DEF Broken!NoBuffer, Broken!Call, Broken!Goto, Broken!history, Kept, Storing,
       BrokenTypeOK, BrokenLabels
<1>13. CASE UNCHANGED Broken!brokenVars
  BY <1>13 DEF Broken!brokenVars, Broken!shared, Broken!history, Kept, Storing,
       BrokenTypeOK, BrokenLabels
<1> QED  BY BrokenSteps, <1>1, <1>2, <1>3, <1>4, <1>5, <1>6, <1>7, <1>8, <1>9, <1>10, <1>11,
     <1>12, <1>13

\* The parts say all of what is to be shown.
LEMMA BrokenWhole ==
    ASSUME BrokenBounds, BrokenParts
    PROVE  Broken!AnswersRight /\ Broken!CallsCounted
<1>1. Broken!AnswersRight
  BY DEF BrokenParts, Broken!AnswersRight, NamesAtRest, QuietAnswers, DigitsCounted
<1>2. ASSUME NEW c \in DOMAIN counts
      PROVE  LET storing == {p \in Callers : place[p] = "storing" /\ frame[p].count = c}
             IN  /\ counts[c] + (IF storing = {} THEN 0 ELSE 1) <= done[c]
                 /\ \A p \in storing : frame[p].old < done[c]
  <2>1. c \in {"read", "write"} /\ counts[c] \in Nat /\ done[c] \in Nat
    BY <1>2 DEF BrokenParts, BrokenTypeOK
  <2>2. Cardinality(Storing(c)) \in Nat /\ (Storing(c) # {} => Cardinality(Storing(c)) >= 1)
    <3>1. Cardinality(Storing(c)) = 0 <=> Storing(c) = {}
      BY StoringFinite, FS_EmptySet
    <3> QED  BY <3>1, StoringFinite
  <2>3. counts[c] + (IF Storing(c) = {} THEN 0 ELSE 1) <= done[c]
    BY <2>1, <2>2 DEF BrokenParts, Kept
  <2>4. ASSUME NEW p \in Storing(c) PROVE frame[p].old < done[c]
    <3>1. frame[p].old \in Nat /\ frame[p].old + Cardinality(Storing(c)) <= done[c]
      BY <2>1 DEF BrokenParts, BrokenTypeOK, BrokenCalls, Storing, Kept
    <3> QED  BY <3>1, <2>1, <2>2
  <2> QED  BY <2>3, <2>4 DEF Storing
<1>3. Broken!CallsCounted
  BY <1>2 DEF BrokenParts, MemoryKept, Broken!CallsCounted
<1> QED  BY <1>1, <1>3

\* The parts hold before anything is written, ...
LEMMA BrokenBegins == Broken!BrokenInit => BrokenParts
<1> SUFFICES ASSUME Broken!BrokenInit PROVE BrokenParts
  OBVIOUS
<1>1. BrokenTypeOK
  <2>1. Broken!Zero \in [{"read", "write"} -> Nat]
    BY DEF Broken!Zero
  <2>2. wrote \in [last : Nat, together : BOOLEAN]
    <3>1. \A n \in Nat, b \in BOOLEAN : [last |-> n, together |-> b] \in [last : Nat, together : BOOLEAN]
      OBVIOUS
    <3>2. 0 \in Nat
      OBVIOUS
    <3>3. [last |-> 0, together |-> FALSE] \in [last : Nat, together : BOOLEAN]
      BY <3>1, <3>2, Zenon
    <3>4. wrote = [last |-> 0, together |-> FALSE]
      BY Zenon DEF Broken!BrokenInit
    <3> QED  BY <3>3, <3>4, Zenon
  <2>3. buf1 \in BrokenTexts
    BY DEF Broken!BrokenInit, BrokenTexts
  <2>4. frame \in [Callers -> BrokenCalls]
    BY DEF Broken!BrokenInit, BrokenCalls, Broken!NoCall
  <2>5. /\ version \in Broken!Oops \cup Repaired /\ numbers_count \in Int
        /\ memory \subseteq Callers /\ quiet \subseteq Callers
    BY DEF Broken!BrokenInit, Broken!Oops, Repaired
  <2>6. place \in [Callers -> BrokenLabels] /\ \A p \in Callers : place[p] = "user"
    BY DEF Broken!BrokenInit, BrokenLabels
  <2>7. counts \in [{"read", "write"} -> Nat] /\ done \in [{"read", "write"} -> Nat]
    BY <2>1 DEF Broken!BrokenInit
  <2> QED  BY <2>2, <2>3, <2>4, <2>5, <2>6, <2>7 DEF BrokenTypeOK
<1>2. Kept
  <2>1. \A c : Storing(c) = {} /\ Cardinality(Storing(c)) = 0
    BY FS_EmptySet DEF Broken!BrokenInit, Storing
  <2> QED  BY <2>1 DEF Broken!BrokenInit, Kept, Broken!Zero
<1> QED  BY <1>1, <1>2 DEF Broken!BrokenInit, BrokenParts, OneAtATime, QuietIdle,
     MemoryKept,
     NamesAtRest,
     QuietAnswers, DigitsCounted, Broken!Writers, Broken!Dead

\* ... and every step keeps them.
LEMMA BrokenGoesOn == BrokenParts /\ [Broken!BrokenNext]_(Broken!brokenVars) => BrokenParts'
BY ProgramBounds, BrokenTypes, OneStays, QuietStays, AnswersStay, DigitsStay, NamesStay, MemoryStays,
     CountsStay DEF BrokenParts

\* Of the eight modules with /dev/broken, for any processes and any texts: what is left
\* when all calls are over, what a read that nobody wrote under gets, who has memory or
\* has lost it, and that no counter runs ahead of the calls.
THEOREM BrokenRight == Broken!BrokenInit /\ [][Broken!BrokenNext]_(Broken!brokenVars) => []BrokenInv
<1>1. BrokenParts => BrokenInv
  BY BrokenWhole, ProgramBounds DEF BrokenInv
<1> QED  BY <1>1, BrokenBegins, BrokenGoesOn, PTL
-----------------------------------------------------------------------------
(***************************************************************************)
(* cw07/syscalls/mysyscalls: counting while processes come and go.         *)
(***************************************************************************)
\* The slots that are its variables.
uid         == x1
utime       == x2
call        == x3
proc        == x4
buffer_size == x5
it          == x6
arr_size    == x7
tab         == x8
max_cnt     == x9
max_uid     == x10
kind        == x11
changed     == x12
USE DEF uid, utime, call, proc, buffer_size, it, arr_size, tab, max_cnt, max_uid, kind,
        changed

\* The sum of a function over a set, the element that it takes first, and what a table
\* of such sums over the sets of D is.
SumOf(g, S)      == Calls!MapThenSumSet(LAMBDA p : g[p], S)
First(s)         == CHOOSE x \in s : TRUE
Sums(h, g, D)    == h = [s \in D |-> IF s = {} THEN 0 ELSE g[First(s)] + h[s \ {First(s)}]]
UpTo(S, n)       == {s \in SUBSET S : Cardinality(s) <= n}

\* The first element is one, and without it the set is smaller.
LEMMA FirstTaken ==
    ASSUME NEW s, IsFiniteSet(s), s # {}
    PROVE  /\ First(s) \in s /\ IsFiniteSet(s \ {First(s)})
           /\ Cardinality(s) \in Nat \ {0}
           /\ Cardinality(s \ {First(s)}) = Cardinality(s) - 1
<1>1. First(s) \in s
  BY DEF First
<1>2. IsFiniteSet(s \ {First(s)}) /\ Cardinality(s \ {First(s)}) = Cardinality(s) - 1
  BY <1>1, FS_RemoveElement
<1>3. Cardinality(s) \in Nat /\ Cardinality(s \ {First(s)}) \in Nat
  BY <1>2, FS_CardinalityType
<1> QED  BY <1>1, <1>2, <1>3

\* There is such a table for the subsets of any finite set.
LEMMA SumsExist ==
    ASSUME NEW g, NEW S, IsFiniteSet(S)
    PROVE  \E h : Sums(h, g, SUBSET S)
<1> DEFINE Bad == {n \in Nat : ~\E h : Sums(h, g, UpTo(S, n))}
<1>1. \A s \in SUBSET S : IsFiniteSet(s) /\ Cardinality(s) \in Nat /\ Cardinality(s) <= Cardinality(S)
  BY FS_Subset, FS_CardinalityType
<1>2. 0 \notin Bad
  <2>1. ASSUME NEW s \in UpTo(S, 0) PROVE s = {}
    BY <1>1, FS_EmptySet DEF UpTo
  <2> DEFINE z == [s \in UpTo(S, 0) |-> 0]
  <2>2. z = [s \in UpTo(S, 0) |-> IF s = {} THEN 0 ELSE g[First(s)] + z[s \ {First(s)}]]
    BY <2>1
  <2>3. Sums(z, g, UpTo(S, 0))
    <3> HIDE DEF z
    <3> QED  BY <2>2 DEF Sums
  <2> QED  BY <2>3
<1>3. ASSUME NEW n \in Nat, n \notin Bad PROVE n + 1 \notin Bad
  <2>1. PICK h : Sums(h, g, UpTo(S, n))
    BY <1>3
  <2> DEFINE D == UpTo(S, n + 1)
             k == [s \in D |-> IF s = {} THEN 0 ELSE g[First(s)] + h[s \ {First(s)}]]
  <2>2. ASSUME NEW s \in D, s # {}
        PROVE  s \ {First(s)} \in UpTo(S, n) /\ s \ {First(s)} \in D
    BY <2>2, <1>1, FirstTaken DEF UpTo
  <2>3. ASSUME NEW s \in UpTo(S, n)
        PROVE  s \in D /\ h[s] = (IF s = {} THEN 0 ELSE g[First(s)] + h[s \ {First(s)}])
    <3>1. s \in D
      BY <1>1 DEF UpTo
    <3> QED  BY <2>1, <3>1 DEF Sums
  <2>4. \A s \in UpTo(S, n) : k[s] = h[s]
    BY <2>3
  <2>5. ASSUME NEW s \in D
        PROVE  k[s] = IF s = {} THEN 0 ELSE g[First(s)] + k[s \ {First(s)}]
    BY <2>2, <2>4
  <2>6. k = [s \in D |-> k[s]]
    OBVIOUS
  <2> HIDE DEF k, D
  <2>7. Sums(k, g, D)
    BY <2>5, <2>6 DEF Sums
  <2> QED  BY <2>7 DEF D
<1>4. Bad = {}
  <2> SUFFICES ASSUME Bad # {} PROVE FALSE
    OBVIOUS
  <2>1. Bad \in SUBSET Nat
    OBVIOUS
  <2> HIDE DEF Bad
  <2>2. PICK i \in Bad : \A j \in Bad : i <= j
    BY <2>1, LeastPlace, Zenon
  <2>3. i \in Nat /\ i # 0
    BY <2>1, <1>2
  <2>4. i - 1 \in Nat /\ i - 1 \notin Bad
    BY <2>1, <2>2, <2>3
  <2>5. (i - 1) + 1 \notin Bad
    BY <2>4, <1>3
  <2> QED  BY <2>3, <2>5
<1>5. UpTo(S, Cardinality(S)) = SUBSET S /\ Cardinality(S) \in Nat
  BY <1>1, FS_CardinalityType DEF UpTo
<1>6. Cardinality(S) \notin Bad
  BY <1>4
<1> QED  BY <1>5, <1>6

\* Two tables agree where both are made.
LEMMA SumsAgree ==
    ASSUME NEW g, NEW S, NEW T, IsFiniteSet(S), T \subseteq S,
           NEW h, NEW k, Sums(h, g, SUBSET S), Sums(k, g, SUBSET T)
    PROVE  h[T] = k[T]
<1> DEFINE Bad == {n \in Nat : \E s \in SUBSET T : Cardinality(s) = n /\ h[s] # k[s]}
<1>1. \A s \in SUBSET T : s \in SUBSET S /\ IsFiniteSet(s) /\ Cardinality(s) \in Nat
  BY FS_Subset, FS_CardinalityType
<1>2. Bad = {}
  <2> SUFFICES ASSUME Bad # {} PROVE FALSE
    OBVIOUS
  <2>1. Bad \in SUBSET Nat
    OBVIOUS
  <2>2. PICK i \in Bad : \A j \in Bad : i <= j
    <3> HIDE DEF Bad
    <3> QED  BY <2>1, LeastPlace, Zenon
  <2>3. PICK s \in SUBSET T : Cardinality(s) = i /\ h[s] # k[s]
    OBVIOUS
  <2>4. /\ h[s] = IF s = {} THEN 0 ELSE g[First(s)] + h[s \ {First(s)}]
        /\ k[s] = IF s = {} THEN 0 ELSE g[First(s)] + k[s \ {First(s)}]
    BY <1>1 DEF Sums
  <2>5. s # {} /\ h[s \ {First(s)}] # k[s \ {First(s)}]
    BY <2>3, <2>4
  <2>6. /\ s \ {First(s)} \in SUBSET T /\ Cardinality(s \ {First(s)}) = i - 1
        /\ i \in Nat \ {0}
    BY <2>3, <2>5, <1>1, FirstTaken
  <2>7. i - 1 \in Bad
    BY <2>5, <2>6
  <2> QED  BY <2>2, <2>6, <2>7
<1>3. T \in SUBSET T /\ Cardinality(T) \in Nat
  BY <1>1
<1> QED  BY <1>2, <1>3

\* What the library's operator computes: nothing for no elements, or what the first one
\* has and the sum of the others.
LEMMA SumOfFirst ==
    ASSUME NEW g, NEW S, IsFiniteSet(S)
    PROVE  /\ S = {} => SumOf(g, S) = 0
           /\ S # {} => SumOf(g, S) = g[First(S)] + SumOf(g, S \ {First(S)})
<1> DEFINE Table(T) == CHOOSE h : Sums(h, g, SUBSET T)
<1>1. ASSUME NEW T PROVE SumOf(g, T) = Table(T)[T]
  <2>1. SumOf(g, T) =
            LET iter[s \in SUBSET T] ==
                    IF s = {} THEN 0
                    ELSE g[CHOOSE x \in s : TRUE] + iter[s \ {CHOOSE x \in s : TRUE}]
            IN  iter[T]
    BY DEF SumOf, Calls!MapThenSumSet, Calls!MapThenFoldSet
  <2> QED  BY <2>1, Zenon DEF Sums, First
<1>2. ASSUME NEW T \in SUBSET S PROVE Sums(Table(T), g, SUBSET T)
  <2>1. IsFiniteSet(T)
    BY FS_Subset
  <2>2. \E h : Sums(h, g, SUBSET T)
    BY <2>1, SumsExist
  <2> QED  BY <2>2
<1> HIDE DEF Table
<1>3. Sums(Table(S), g, SUBSET S) /\ S \in SUBSET S
  BY <1>2
<1>4. Table(S)[S] = IF S = {} THEN 0 ELSE g[First(S)] + Table(S)[S \ {First(S)}]
  BY <1>3 DEF Sums
<1>5. S \ {First(S)} \in SUBSET S
  OBVIOUS
<1>6. Table(S)[S \ {First(S)}] = Table(S \ {First(S)})[S \ {First(S)}]
  <2> DEFINE T == S \ {First(S)}
  <2>1. Sums(Table(T), g, SUBSET T) /\ T \subseteq S
    BY <1>2, <1>5
  <2> HIDE DEF T
  <2>2. Table(S)[T] = Table(T)[T]
    BY <2>1, <1>3, SumsAgree
  <2> QED  BY <2>2 DEF T
<1> QED  BY <1>1, <1>4, <1>6

\* Whatever is first: an element adds what it has.
LEMMA SumOfOneMore ==
    ASSUME NEW P, NEW g \in [P -> Nat], NEW S \in SUBSET P, IsFiniteSet(S)
    PROVE  /\ SumOf(g, {}) = 0 /\ SumOf(g, S) \in Nat
           /\ \A x \in P \ S : SumOf(g, S \cup {x}) = SumOf(g, S) + g[x]
<1> DEFINE Right(s) == /\ SumOf(g, s) \in Nat
                       /\ \A x \in P \ s : SumOf(g, s \cup {x}) = SumOf(g, s) + g[x]
           Bad == {n \in Nat : \E s \in SUBSET S : Cardinality(s) = n /\ ~Right(s)}
<1>1. \A s \in SUBSET S : IsFiniteSet(s) /\ Cardinality(s) \in Nat
  BY FS_Subset, FS_CardinalityType
<1>2. ASSUME NEW s \in SUBSET S, \A t \in SUBSET S : Cardinality(t) < Cardinality(s) => Right(t)
      PROVE  Right(s)
  <2>1. IsFiniteSet(s) /\ Cardinality(s) \in Nat /\ s \in SUBSET P
    BY <1>1
  <2>2. SumOf(g, s) \in Nat
    <3>1. CASE s = {}
      BY <2>1, <3>1, SumOfFirst
    <3>2. CASE s # {}
      <4>1. First(s) \in s /\ Cardinality(s \ {First(s)}) < Cardinality(s)
        <5>1. First(s) \in s /\ Cardinality(s \ {First(s)}) = Cardinality(s) - 1
          BY <2>1, <3>2, FirstTaken
        <5> QED  BY <5>1, <2>1
      <4>2. SumOf(g, s \ {First(s)}) \in Nat
        BY <4>1, <1>2
      <4> QED  BY <2>1, <3>2, <4>1, <4>2, SumOfFirst
    <3> QED  BY <3>1, <3>2
  <2>3. ASSUME NEW x \in P \ s PROVE SumOf(g, s \cup {x}) = SumOf(g, s) + g[x]
    <3> DEFINE t == s \cup {x}
               y == First(t)
    <3>1. IsFiniteSet(t) /\ t # {} /\ y \in t
      BY <2>1, FS_AddElement, FirstTaken
    <3>2. SumOf(g, t) = g[y] + SumOf(g, t \ {y})
      BY <3>1, SumOfFirst
    <3>3. CASE y = x
      <4>1. t \ {y} = s
        BY <3>3, <2>3
      <4> HIDE DEF t, y
      <4> QED  BY <3>2, <3>3, <4>1, <2>2 DEF t
    <3>4. CASE y # x
      <4>1. y \in s /\ t \ {y} = (s \ {y}) \cup {x} /\ s = (s \ {y}) \cup {y}
        BY <3>1, <3>4
      <4>2. Cardinality(s \ {y}) < Cardinality(s) /\ s \ {y} \in SUBSET S
        <5> HIDE DEF t, y
        <5>1. Cardinality(s \ {y}) = Cardinality(s) - 1
          BY <4>1, <2>1, FS_RemoveElement
        <5> QED  BY <5>1, <2>1
      <4>3. /\ SumOf(g, s \ {y}) \in Nat
            /\ \A z \in P \ (s \ {y}) : SumOf(g, (s \ {y}) \cup {z}) = SumOf(g, s \ {y}) + g[z]
        BY <4>2, <1>2
      <4>4. SumOf(g, t \ {y}) = SumOf(g, s \ {y}) + g[x]
        <5>1. x \in P \ (s \ {y})
          BY <2>3
        <5> QED  BY <4>1, <4>3, <5>1
      <4>5. SumOf(g, s) = SumOf(g, s \ {y}) + g[y]
        <5>1. y \in P \ (s \ {y})
          BY <4>1, <2>1
        <5> QED  BY <4>1, <4>3, <5>1
      <4>6. g[x] \in Nat /\ g[y] \in Nat
        BY <4>1, <2>1, <2>3
      <4> HIDE DEF t, y
      <4> QED  BY <3>2, <4>3, <4>4, <4>5, <4>6 DEF t
    <3> QED  BY <3>3, <3>4
  <2> QED  BY <2>2, <2>3
<1>3. Bad = {}
  <2> SUFFICES ASSUME Bad # {} PROVE FALSE
    OBVIOUS
  <2>1. Bad \in SUBSET Nat
    OBVIOUS
  <2>2. PICK i \in Bad : \A j \in Bad : i <= j
    <3> HIDE DEF Bad
    <3> QED  BY <2>1, LeastPlace, Zenon
  <2>3. PICK s \in SUBSET S : Cardinality(s) = i /\ ~Right(s)
    OBVIOUS
  <2> HIDE DEF Right
  <2>4. ASSUME NEW t \in SUBSET S, Cardinality(t) < i PROVE Right(t)
    <3>1. Cardinality(t) \in Nat
      BY <1>1
    <3>2. Cardinality(t) \notin Bad
      BY <2>1, <2>2, <2>4, <3>1
    <3> QED  BY <3>1, <3>2
  <2> QED  BY <2>3, <2>4, <1>2
<1>4. Right(S)
  <2> HIDE DEF Right
  <2>1. S \in SUBSET S /\ Cardinality(S) \in Nat
    BY <1>1
  <2> QED  BY <2>1, <1>3
<1>5. SumOf(g, {}) = 0
  BY FS_EmptySet, SumOfFirst
<1> QED  BY <1>4, <1>5

CallsTypeOK == /\ uid \in [Tasks -> Uids \cup {NIL}] /\ utime \in [Tasks -> Nat]
               /\ call \in Calls!Calls \cup {"none", "done", "oops", "EFAULT"}
               /\ kind \in Calls!Calls \cup {"none"} /\ proc \in Nat
               /\ buffer_size \in Nat /\ it \in Nat /\ arr_size \in Nat
               /\ tab \in [Uids -> Nat \cup {NIL}] /\ max_cnt \in Nat
               /\ changed \in BOOLEAN

\* The processes that a call has passed; those of one user, and what that user has.
Passed       == {p \in Calls!Listed : p <= proc}
Of(u, S)     == {p \in S : uid[p] = u}
Amount(u, S) == IF kind = "topuser" THEN Cardinality(Of(u, S)) ELSE SumOf(utime, Of(u, S))

\* What a call is before it begins, and what it is over.
CallBegun ==
    /\ call = "none" => /\ proc = 0 /\ it = 0 /\ kind = "none" /\ max_cnt = 0
                        /\ \A u \in Uids : tab[u] = NIL
    /\ Calls!Running => kind = call
    /\ call = "done" => kind \in Calls!Calls
\* No name is written past the array; the greatest is one of those that were counted.
Greatest == /\ it <= buffer_size
            /\ \A u \in Uids : tab[u] # NIL => tab[u] <= max_cnt
            /\ max_cnt # 0 => max_uid \in Uids /\ tab[max_uid] = max_cnt
\* Until the list changes each process that was passed is counted once, for its user.
PassedCounted ==
    ~changed /\ (Calls!Running \/ call = "done") =>
        IF kind = "kernelps" THEN it = Cardinality(Passed)
        ELSE \A u \in Uids : IF tab[u] = NIL THEN Of(u, Passed) = {}
                             ELSE tab[u] = Amount(u, Passed)
\* A call that is done has passed all.
CallEnded ==
    call = "done" => /\ ~changed => Passed = Calls!Listed
                     /\ kind = "kernelps" => arr_size = it + 1

CallsParts == CallsTypeOK /\ CallBegun /\ Greatest /\ PassedCounted /\ CallEnded
CallsInv   == CallsParts /\ Calls!CallsRight

\* The steps of the calls and of the processes.
LEMMA CallsSteps ==
    ASSUME [Calls!CallsNext]_(Calls!callVars)
    PROVE  \/ \E k \in Calls!Calls, size \in ArraySizes : Calls!Enter(k, size)
           \/ \E p \in Tasks : \/ \E u \in Uids : Calls!Fork(p, u)
                               \/ Calls!Exit(p) \/ Calls!NoArray(p) \/ Calls!Full(p) \/ Calls!Name(p)
                               \/ Calls!Count(p) \/ Calls!NoMemory(p)
           \/ Calls!FromGone \/ Calls!Told \/ Calls!Freed \/ Calls!FreedNext \/ UNCHANGED Calls!callVars
BY DEF Calls!CallsNext

\* What is passed is finite, and comes one by one.
LEMMA PassedFinite ==
    ASSUME CallsBounds
    PROVE  /\ IsFiniteSet(Passed) /\ IsFiniteSet(Calls!Listed)
           /\ \A u : IsFiniteSet(Of(u, Passed)) /\ IsFiniteSet(Of(u, Calls!Listed))
<1>1. Calls!Listed \subseteq Tasks /\ IsFiniteSet(Tasks)
  BY DEF Calls!Listed, CallsBounds
<1>2. /\ Passed \subseteq Tasks
      /\ \A u : Of(u, Passed) \subseteq Tasks /\ Of(u, Calls!Listed) \subseteq Tasks
  BY <1>1 DEF Passed, Of
<1> QED  BY <1>1, <1>2, FS_Subset

\* The next one is passed.
LEMMA PassNext ==
    ASSUME CallsBounds, CallsTypeOK, NEW p \in Tasks, Calls!At(p), proc' = p, UNCHANGED
           Calls!list
    PROVE  /\ p \notin Passed /\ Passed' = Passed \cup {p} /\ uid[p] \in Uids
           /\ \A u : Of(u, Passed)' = IF u = uid[p] THEN Of(u, Passed) \cup {p} ELSE Of(u, Passed)
           /\ p \notin Of(uid[p], Passed)
<1>1. /\ p \in Calls!Listed /\ p > proc /\ \A q \in Calls!Listed : q > proc => p <= q
      /\ Calls!Listed' = Calls!Listed /\ Calls!Listed \subseteq Nat /\ proc \in Nat
  BY DEF Calls!At, Calls!Rest, Calls!Listed, Calls!list, CallsBounds, CallsTypeOK
<1>2. p \notin Passed
  BY <1>1 DEF Passed
<1>3. Passed' = Passed \cup {p}
  <2>1. ASSUME NEW q \in Calls!Listed PROVE q <= p <=> q <= proc \/ q = p
    <3>1. q \in Nat /\ p \in Nat /\ proc \in Nat /\ p > proc /\ (q > proc => p <= q)
      BY <1>1
    <3> QED  BY <3>1
  <2> QED  BY <1>1, <2>1 DEF Passed
<1>4. uid[p] \in Uids /\ uid' = uid
  BY <1>1 DEF Calls!Listed, CallsTypeOK, Calls!list
<1> QED  BY <1>2, <1>3, <1>4 DEF Of

\* What is counted for a user is a number.
LEMMA CountTyped ==
    ASSUME CallsBounds, CallsTypeOK, NEW p \in Tasks, Calls!Count(p)
    PROVE  \E n \in Nat :
              /\ n = (IF tab[uid[p]] = NIL THEN Calls!What(p) ELSE tab[uid[p]] + Calls!What(p))
              /\ tab' = [tab EXCEPT ![uid[p]] = n]
              /\ max_cnt' = (IF max_cnt < n THEN n ELSE max_cnt)
              /\ max_uid' = (IF max_cnt < n THEN uid[p] ELSE max_uid)
              /\ uid[p] \in Uids /\ (tab[uid[p]] # NIL => tab[uid[p]] \in Nat /\ tab[uid[p]] <= n)
<1>1. uid[p] \in Uids /\ Calls!What(p) \in Nat
  BY DEF Calls!Count, Calls!At, Calls!Rest, Calls!Listed, Calls!What, CallsTypeOK
<1>2. (IF tab[uid[p]] = NIL THEN Calls!What(p) ELSE tab[uid[p]] + Calls!What(p)) \in Nat
  BY <1>1 DEF CallsTypeOK
<1>3. tab[uid[p]] # NIL => tab[uid[p]] \in Nat /\ tab[uid[p]] <= tab[uid[p]] + Calls!What(p)
  BY <1>1 DEF CallsTypeOK
<1> QED  BY <1>1, <1>2, <1>3 DEF Calls!Count, Calls!Beats

\* What a user has is what the processes passed have, here as later.
LEMMA AmountNext ==
    ASSUME UNCHANGED <<utime, kind>>, NEW u
    PROVE  Amount(u, Passed)' = IF kind = "topuser" THEN Cardinality(Of(u, Passed)')
                                ELSE SumOf(utime, Of(u, Passed)')
BY DEF Amount, Of, Passed, Calls!Listed, SumOf, Calls!MapThenSumSet, Calls!MapThenFoldSet

\* A call that stays where it is has passed the same, if nothing comes or goes.
LEMMA PassedStays ==
    ASSUME UNCHANGED <<uid, utime, proc, kind>>
    PROVE  /\ Passed' = Passed
           /\ \A u : Of(u, Passed)' = Of(u, Passed) /\ Amount(u, Passed)' = Amount(u, Passed)
BY DEF Passed, Calls!Listed, Of, Amount, SumOf, Calls!MapThenSumSet, Calls!MapThenFoldSet

\* The types are kept.
LEMMA CallsTypes ==
    ASSUME CallsBounds, CallsTypeOK, [Calls!CallsNext]_(Calls!callVars)
    PROVE  CallsTypeOK'
<1>1. ASSUME NEW k \in Calls!Calls, NEW size \in ArraySizes, Calls!Enter(k, size)
      PROVE  CallsTypeOK'
  BY <1>1 DEF Calls!Enter, Calls!list, Calls!counts, CallsTypeOK, CallsBounds
<1>2. ASSUME NEW p \in Tasks, NEW u \in Uids, Calls!Fork(p, u)
      PROVE  CallsTypeOK'
  BY <1>2 DEF Calls!Fork, Calls!counts, Calls!names, Calls!Running, CallsTypeOK
<1>3. ASSUME NEW p \in Tasks, Calls!Exit(p)
      PROVE  CallsTypeOK'
  BY <1>3 DEF Calls!Exit, Calls!counts, Calls!names, Calls!Running, CallsTypeOK
<1>4. ASSUME NEW p \in Tasks, Calls!NoArray(p)
      PROVE  CallsTypeOK'
  BY <1>4 DEF Calls!NoArray, Calls!End, Calls!At, Calls!Running, Calls!list, Calls!names,
       Calls!counts, CallsTypeOK
<1>5. ASSUME NEW p \in Tasks, Calls!Full(p)
      PROVE  CallsTypeOK'
  BY <1>5 DEF Calls!Full, Calls!End, Calls!At, Calls!Running, Calls!list, Calls!names,
       Calls!counts, CallsTypeOK
<1>6. ASSUME NEW p \in Tasks, Calls!Name(p)
      PROVE  CallsTypeOK'
  BY <1>6 DEF Calls!Name, Calls!At, Calls!Running, Calls!list, Calls!counts, CallsTypeOK,
       CallsBounds
<1>7. ASSUME NEW p \in Tasks, Calls!Count(p)
      PROVE  CallsTypeOK'
  <2>1. PICK n \in Nat : /\ tab' = [tab EXCEPT ![uid[p]] = n] /\ uid[p] \in Uids
                          /\ max_cnt' = (IF max_cnt < n THEN n ELSE max_cnt)
    BY <1>7, CountTyped
  <2>2. tab' \in [Uids -> Nat \cup {NIL}] /\ max_cnt' \in Nat
    BY <2>1 DEF CallsTypeOK
  <2>3. proc' \in Nat
    BY <1>7 DEF Calls!Count, CallsBounds
  <2> QED  BY <1>7, <2>2, <2>3 DEF Calls!Count, Calls!list, Calls!names, CallsTypeOK
<1>8. ASSUME NEW p \in Tasks, Calls!NoMemory(p)
      PROVE  CallsTypeOK'
  BY <1>8 DEF Calls!NoMemory, Calls!End, Calls!At, Calls!Running, Calls!list, Calls!names,
       Calls!counts, CallsTypeOK
<1>9. CASE Calls!FromGone
  BY <1>9 DEF Calls!FromGone, Calls!End, Calls!Running, Calls!list, Calls!names,
       Calls!counts, CallsTypeOK
<1>10. CASE Calls!Told
  BY <1>10 DEF Calls!Told, Calls!Running, Calls!list, Calls!counts, CallsTypeOK
<1>11. CASE Calls!Freed
  BY <1>11 DEF Calls!Freed, Calls!End, Calls!Running, Calls!list, Calls!names, Calls!counts,
       CallsTypeOK
<1>12. CASE Calls!FreedNext
  BY <1>12 DEF Calls!FreedNext, Calls!End, Calls!Running, Calls!list, Calls!names,
       Calls!counts, CallsTypeOK
<1>13. CASE UNCHANGED Calls!callVars
  BY <1>13 DEF Calls!callVars, Calls!list, Calls!names, Calls!counts, CallsTypeOK
<1> QED  BY CallsSteps, <1>1, <1>2, <1>3, <1>4, <1>5, <1>6, <1>7, <1>8, <1>9, <1>10, <1>11,
     <1>12, <1>13

\* A call begins with nothing counted.
LEMMA BegunStays ==
    ASSUME CallsBounds, CallsTypeOK, CallBegun, [Calls!CallsNext]_(Calls!callVars)
    PROVE  CallBegun'
<1>1. ASSUME NEW k \in Calls!Calls, NEW size \in ArraySizes, Calls!Enter(k, size)
      PROVE  CallBegun'
  BY <1>1 DEF Calls!Enter, Calls!list, Calls!counts, CallBegun, Calls!Calls, Calls!Running
<1>2. ASSUME NEW p \in Tasks, NEW u \in Uids, Calls!Fork(p, u)
      PROVE  CallBegun'
  BY <1>2 DEF Calls!Fork, Calls!counts, Calls!names, Calls!Running, CallBegun, Calls!Calls
<1>3. ASSUME NEW p \in Tasks, Calls!Exit(p)
      PROVE  CallBegun'
  BY <1>3 DEF Calls!Exit, Calls!counts, Calls!names, Calls!Running, CallBegun, Calls!Calls
<1>4. ASSUME NEW p \in Tasks, Calls!NoArray(p)
      PROVE  CallBegun'
  BY <1>4 DEF Calls!NoArray, Calls!End, Calls!At, Calls!Running, Calls!list, Calls!names,
       Calls!counts, CallBegun, Calls!Calls
<1>5. ASSUME NEW p \in Tasks, Calls!Full(p)
      PROVE  CallBegun'
  BY <1>5 DEF Calls!Full, Calls!End, Calls!At, Calls!Running, Calls!list, Calls!names,
       Calls!counts, CallBegun, Calls!Calls
<1>6. ASSUME NEW p \in Tasks, Calls!Name(p)
      PROVE  CallBegun'
  BY <1>6 DEF Calls!Name, Calls!At, Calls!Running, Calls!list, Calls!counts, CallBegun,
       Calls!Calls
<1>7. ASSUME NEW p \in Tasks, Calls!Count(p)
      PROVE  CallBegun'
  BY <1>7 DEF Calls!Count, Calls!At, Calls!Running, Calls!list, Calls!names, CallBegun,
       Calls!Calls
<1>8. ASSUME NEW p \in Tasks, Calls!NoMemory(p)
      PROVE  CallBegun'
  BY <1>8 DEF Calls!NoMemory, Calls!End, Calls!At, Calls!Running, Calls!list, Calls!names,
       Calls!counts, CallBegun, Calls!Calls
<1>9. CASE Calls!FromGone
  BY <1>9 DEF Calls!FromGone, Calls!End, Calls!Running, Calls!list, Calls!names,
       Calls!counts, CallBegun, Calls!Calls
<1>10. CASE Calls!Told
  BY <1>10 DEF Calls!Told, Calls!Running, Calls!list, Calls!counts, CallBegun, Calls!Calls
<1>11. CASE Calls!Freed
  BY <1>11 DEF Calls!Freed, Calls!End, Calls!Running, Calls!list, Calls!names, Calls!counts,
       CallBegun, Calls!Calls
<1>12. CASE Calls!FreedNext
  BY <1>12 DEF Calls!FreedNext, Calls!End, Calls!Running, Calls!list, Calls!names,
       Calls!counts, CallBegun, Calls!Calls
<1>13. CASE UNCHANGED Calls!callVars
  BY <1>13 DEF Calls!callVars, Calls!list, Calls!names, Calls!counts, CallBegun,
       Calls!Calls, Calls!Running
<1> QED  BY CallsSteps, <1>1, <1>2, <1>3, <1>4, <1>5, <1>6, <1>7, <1>8, <1>9, <1>10, <1>11,
     <1>12, <1>13

\* What beats the greatest is the greatest.
LEMMA GreatestStays ==
    ASSUME CallsBounds, CallsTypeOK, CallBegun, Greatest, [Calls!CallsNext]_(Calls!callVars)
    PROVE  Greatest'
<1>1. ASSUME NEW k \in Calls!Calls, NEW size \in ArraySizes, Calls!Enter(k, size)
      PROVE  Greatest'
  BY <1>1 DEF Calls!Enter, Calls!list, Calls!counts, Greatest, CallBegun, CallsTypeOK,
       CallsBounds
<1>2. ASSUME NEW p \in Tasks, NEW u \in Uids, Calls!Fork(p, u)
      PROVE  Greatest'
  BY <1>2 DEF Calls!Fork, Calls!counts, Calls!names, Calls!Running, Greatest, CallBegun,
       CallsTypeOK
<1>3. ASSUME NEW p \in Tasks, Calls!Exit(p)
      PROVE  Greatest'
  BY <1>3 DEF Calls!Exit, Calls!counts, Calls!names, Calls!Running, Greatest, CallBegun,
       CallsTypeOK
<1>4. ASSUME NEW p \in Tasks, Calls!NoArray(p)
      PROVE  Greatest'
  BY <1>4 DEF Calls!NoArray, Calls!End, Calls!At, Calls!Running, Calls!list, Calls!names,
       Calls!counts, Greatest, CallBegun,
       CallsTypeOK
<1>5. ASSUME NEW p \in Tasks, Calls!Full(p)
      PROVE  Greatest'
  BY <1>5 DEF Calls!Full, Calls!End, Calls!At, Calls!Running, Calls!list, Calls!names,
       Calls!counts, Greatest, CallBegun, CallsTypeOK
<1>6. ASSUME NEW p \in Tasks, Calls!Name(p)
      PROVE  Greatest'
  BY <1>6 DEF Calls!Name, Calls!At, Calls!Running, Calls!list, Calls!counts, Greatest,
       CallBegun, CallsTypeOK, Calls!Room
<1>7. ASSUME NEW p \in Tasks, Calls!Count(p)
      PROVE  Greatest'
  <2>1. PICK n \in Nat :
              /\ tab' = [tab EXCEPT ![uid[p]] = n] /\ uid[p] \in Uids
              /\ max_cnt' = (IF max_cnt < n THEN n ELSE max_cnt)
              /\ max_uid' = (IF max_cnt < n THEN uid[p] ELSE max_uid)
              /\ (tab[uid[p]] # NIL => tab[uid[p]] \in Nat /\ tab[uid[p]] <= n)
    BY <1>7, CountTyped
  <2>2. it' = it /\ buffer_size' = buffer_size
    BY <1>7 DEF Calls!Count, Calls!names
  <2>3. ASSUME NEW u \in Uids, tab'[u] # NIL PROVE tab'[u] <= max_cnt'
    BY <2>1, <2>3 DEF Greatest, CallsTypeOK
  <2>4. ASSUME max_cnt' # 0 PROVE max_uid' \in Uids /\ tab'[max_uid'] = max_cnt'
    <3>1. CASE max_cnt < n
      BY <2>1, <3>1 DEF CallsTypeOK
    <3>2. CASE ~(max_cnt < n) /\ max_uid # uid[p]
      BY <2>1, <2>4, <3>2 DEF Greatest, CallsTypeOK
    <3>3. CASE ~(max_cnt < n) /\ max_uid = uid[p]
      <4>1. max_cnt' = max_cnt /\ max_uid' = max_uid /\ tab[max_uid] = max_cnt /\ max_cnt \in Nat
        BY <2>1, <2>4, <3>3 DEF Greatest, CallsTypeOK
      <4>2. tab'[max_uid] = n /\ max_cnt <= n /\ max_cnt # NIL
        BY <2>1, <3>3, <4>1 DEF CallsTypeOK, CallsBounds
      <4> QED  BY <2>1, <3>3, <4>1, <4>2
    <3> QED  BY <3>1, <3>2, <3>3
  <2> QED  BY <2>2, <2>3, <2>4 DEF Greatest
<1>8. ASSUME NEW p \in Tasks, Calls!NoMemory(p)
      PROVE  Greatest'
  BY <1>8 DEF Calls!NoMemory, Calls!End, Calls!At, Calls!Running, Calls!list, Calls!names,
       Calls!counts, Greatest, CallBegun,
       CallsTypeOK
<1>9. CASE Calls!FromGone
  BY <1>9 DEF Calls!FromGone, Calls!End, Calls!Running, Calls!list, Calls!names,
       Calls!counts, Greatest, CallBegun, CallsTypeOK
<1>10. CASE Calls!Told
  BY <1>10 DEF Calls!Told, Calls!Running, Calls!list, Calls!counts, Greatest, CallBegun,
       CallsTypeOK
<1>11. CASE Calls!Freed
  BY <1>11 DEF Calls!Freed, Calls!End, Calls!Running, Calls!list, Calls!names, Calls!counts,
       Greatest, CallBegun, CallsTypeOK
<1>12. CASE Calls!FreedNext
  BY <1>12 DEF Calls!FreedNext, Calls!End, Calls!Running, Calls!list, Calls!names,
       Calls!counts, Greatest, CallBegun,
       CallsTypeOK
<1>13. CASE UNCHANGED Calls!callVars
  BY <1>13 DEF Calls!callVars, Calls!list, Calls!names, Calls!counts, Greatest, CallBegun,
       CallsTypeOK
<1> QED  BY CallsSteps, <1>1, <1>2, <1>3, <1>4, <1>5, <1>6, <1>7, <1>8, <1>9, <1>10, <1>11,
     <1>12, <1>13

\* Each process is counted as it is passed.
LEMMA CountedStays ==
    ASSUME CallsBounds, CallsTypeOK, CallBegun, Greatest, PassedCounted,
           [Calls!CallsNext]_(Calls!callVars)
    PROVE  PassedCounted'
<1>1. ASSUME NEW k \in Calls!Calls, NEW size \in ArraySizes, Calls!Enter(k, size)
      PROVE  PassedCounted'
  <2>1. proc' = 0 /\ it' = 0 /\ UNCHANGED uid /\ \A u \in Uids : tab'[u] = NIL
    BY <1>1 DEF Calls!Enter, CallBegun, Calls!list, Calls!counts
  <2>2. Passed' = {}
    <3>1. \A q \in Tasks : ~(q <= 0)
      BY DEF CallsBounds
    <3> QED  BY <2>1, <3>1 DEF Passed, Calls!Listed
  <2>3. Cardinality({}) = 0 /\ \A u : Of(u, Passed)' = {}
    BY <2>2, FS_EmptySet DEF Of
  <2> QED  BY <2>1, <2>2, <2>3 DEF PassedCounted
<1>2. ASSUME NEW p \in Tasks, NEW u \in Uids, Calls!Fork(p, u)
      PROVE  PassedCounted'
  <2> QED  BY <1>2 DEF Calls!Fork, PassedCounted
<1>3. ASSUME NEW p \in Tasks, Calls!Exit(p)
      PROVE  PassedCounted'
  <2> QED  BY <1>3 DEF Calls!Exit, PassedCounted
<1>4. ASSUME NEW p \in Tasks, Calls!NoArray(p)
      PROVE  PassedCounted'
  <2>1. UNCHANGED <<uid, utime, proc, kind, it, tab, changed>> /\ Calls!Running
    BY <1>4 DEF Calls!NoArray, Calls!End, Calls!At, Calls!Running, Calls!Calls, Calls!list,
         Calls!names, Calls!counts
  <2> QED  BY <2>1, PassedStays DEF PassedCounted
<1>5. ASSUME NEW p \in Tasks, Calls!Full(p)
      PROVE  PassedCounted'
  <2>1. UNCHANGED <<uid, utime, proc, kind, it, tab, changed>> /\ Calls!Running
    BY <1>5 DEF Calls!Full, Calls!End, Calls!At, Calls!Running, Calls!Calls, Calls!list,
         Calls!names, Calls!counts
  <2> QED  BY <2>1, PassedStays DEF PassedCounted
<1>6. ASSUME NEW p \in Tasks, Calls!Name(p)
      PROVE  PassedCounted'
  <2> SUFFICES ASSUME ~changed' PROVE it' = Cardinality(Passed)' /\ kind' = "kernelps"
    BY DEF PassedCounted
  <2>1. /\ Calls!Running /\ kind = "kernelps" /\ ~changed /\ it' = it + 1 /\ kind' = kind
    BY <1>6 DEF Calls!Name, Calls!At, CallBegun, Calls!Calls
  <2>2. it = Cardinality(Passed)
    BY <2>1 DEF PassedCounted
  <2>3. p \notin Passed /\ Passed' = Passed \cup {p}
    BY <1>6, PassNext DEF Calls!Name
  <2>4. Cardinality(Passed \cup {p}) = Cardinality(Passed) + 1
    BY <2>3, PassedFinite, FS_AddElement
  <2> QED  BY <2>1, <2>2, <2>3, <2>4
<1>7. ASSUME NEW p \in Tasks, Calls!Count(p)
      PROVE  PassedCounted'
  <2> SUFFICES ASSUME ~changed'
               PROVE  /\ kind' # "kernelps"
                      /\ \A u \in Uids : IF tab'[u] = NIL THEN Of(u, Passed)' = {}
                                          ELSE tab'[u] = Amount(u, Passed)'
    BY DEF PassedCounted
  <2>1. /\ Calls!Running /\ kind = call /\ kind \in {"topuser", "timeuser"} /\ ~changed
        /\ UNCHANGED <<uid, utime, kind>>
    BY <1>7 DEF Calls!Count, Calls!At, CallBegun, Calls!list
  <2>0. PICK w \in Uids : w = uid[p]
    BY <1>7, PassNext DEF Calls!Count
  <2>2. PICK n \in Nat : /\ n = (IF tab[w] = NIL THEN Calls!What(p) ELSE tab[w] + Calls!What(p))
                         /\ tab' = [tab EXCEPT ![w] = n]
    BY <1>7, CountTyped, <2>0
  <2>3. /\ p \notin Of(w, Passed) /\ w \in Uids
        /\ \A u : Of(u, Passed)' = IF u = w THEN Of(u, Passed) \cup {p} ELSE Of(u, Passed)
    BY <1>7, PassNext, <2>0 DEF Calls!Count
  <2>4. \A u \in Uids : IF tab[u] = NIL THEN Of(u, Passed) = {} ELSE tab[u] = Amount(u, Passed)
    BY <2>1 DEF PassedCounted
  <2>5. ASSUME NEW u \in Uids, u # w
        PROVE  IF tab'[u] = NIL THEN Of(u, Passed)' = {} ELSE tab'[u] = Amount(u, Passed)'
    <3>1. tab'[u] = tab[u] /\ Of(u, Passed)' = Of(u, Passed)
      BY <2>2, <2>3, <2>5 DEF CallsTypeOK
    <3>2. Amount(u, Passed)' = Amount(u, Passed)
      BY <2>1, <3>1, AmountNext DEF Amount
    <3> QED  BY <2>4, <3>1, <3>2
  <2> DEFINE S == Of(w, Passed)
  <2>6. tab'[w] = n /\ n # NIL
    BY <2>2, <2>3 DEF CallsTypeOK, CallsBounds
  <2>7. n = (IF tab[w] = NIL THEN 0 ELSE tab[w]) + Calls!What(p)
    <3>1. Calls!What(p) \in Nat
      BY <2>3 DEF Calls!What, CallsTypeOK
    <3> QED  BY <2>2, <3>1
  <2>8. n = (IF kind = "topuser" THEN Cardinality(S \cup {p}) ELSE SumOf(utime, S \cup {p}))
    <3>1. IsFiniteSet(S) /\ S \in SUBSET Tasks /\ p \in Tasks \ S
      BY <2>3, PassedFinite DEF Of, Passed, Calls!Listed
    <3>2. CASE kind = "topuser"
      <4>1. Calls!What(p) = 1
        BY <2>1, <3>2 DEF Calls!What
      <4>2. Cardinality(S) = (IF tab[w] = NIL THEN 0 ELSE tab[w])
        BY <2>3, <2>4, <3>2, FS_EmptySet DEF Amount
      <4>3. Cardinality(S \cup {p}) = Cardinality(S) + 1
        BY <3>1, FS_AddElement
      <4> QED  BY <2>7, <3>2, <4>1, <4>2, <4>3
    <3>3. CASE kind # "topuser"
      <4>1. Calls!What(p) = utime[p]
        BY <2>1, <3>3 DEF Calls!What
      <4>2. /\ SumOf(utime, {}) = 0
            /\ SumOf(utime, S \cup {p}) = SumOf(utime, S) + utime[p]
        <5>1. utime \in [Tasks -> Nat]
          BY DEF CallsTypeOK
        <5> HIDE DEF S
        <5> QED  BY <3>1, <5>1, SumOfOneMore
      <4>3. SumOf(utime, S) = (IF tab[w] = NIL THEN 0 ELSE tab[w])
        BY <2>3, <2>4, <3>3, <4>2 DEF Amount
      <4> QED  BY <2>7, <3>3, <4>1, <4>2, <4>3
    <3> QED  BY <3>2, <3>3
  <2>9. n = Amount(w, Passed)'
    <3>1. Of(w, Passed)' = S \cup {p}
      BY <2>1, <2>3
    <3> HIDE DEF S
    <3> QED  BY <2>1, <2>8, <3>1, AmountNext
  <2>10. IF tab'[w] = NIL THEN Of(w, Passed)' = {} ELSE tab'[w] = Amount(w, Passed)'
    BY <2>6, <2>9
  <2> QED  BY <2>1, <2>5, <2>10
<1>8. ASSUME NEW p \in Tasks, Calls!NoMemory(p)
      PROVE  PassedCounted'
  <2>1. UNCHANGED <<uid, utime, proc, kind, it, tab, changed>> /\ Calls!Running
    BY <1>8 DEF Calls!NoMemory, Calls!End, Calls!At, Calls!Running, Calls!Calls, Calls!list,
         Calls!names, Calls!counts
  <2> QED  BY <2>1, PassedStays DEF PassedCounted
<1>9. CASE Calls!FromGone
  <2>1. UNCHANGED <<uid, utime, proc, kind, it, tab, changed>> /\ Calls!Running
    BY <1>9 DEF Calls!FromGone, Calls!End, Calls!At, Calls!Running, Calls!Calls, Calls!list,
         Calls!names, Calls!counts
  <2> QED  BY <2>1, PassedStays DEF PassedCounted
<1>10. CASE Calls!Told
  <2>1. UNCHANGED <<uid, utime, proc, kind, it, tab, changed>> /\ Calls!Running
    BY <1>10 DEF Calls!Told, Calls!End, Calls!At, Calls!Running, Calls!Calls, Calls!list,
         Calls!names, Calls!counts
  <2> QED  BY <2>1, PassedStays DEF PassedCounted
<1>11. CASE Calls!Freed
  <2>1. UNCHANGED <<uid, utime, proc, kind, it, tab, changed>> /\ Calls!Running
    BY <1>11 DEF Calls!Freed, Calls!End, Calls!At, Calls!Running, Calls!Calls, Calls!list,
         Calls!names, Calls!counts
  <2> QED  BY <2>1, PassedStays DEF PassedCounted
<1>12. CASE Calls!FreedNext
  <2>1. UNCHANGED <<uid, utime, proc, kind, it, tab, changed>> /\ Calls!Running
    BY <1>12 DEF Calls!FreedNext, Calls!End, Calls!At, Calls!Running, Calls!Calls,
         Calls!list, Calls!names, Calls!counts
  <2> QED  BY <2>1, PassedStays DEF PassedCounted
<1>13. CASE UNCHANGED Calls!callVars
  BY <1>13, PassedStays DEF Calls!callVars, Calls!list, Calls!names, Calls!counts,
       PassedCounted, Calls!Running
<1> QED  BY CallsSteps, <1>1, <1>2, <1>3, <1>4, <1>5, <1>6, <1>7, <1>8, <1>9, <1>10, <1>11,
     <1>12, <1>13

\* At the end there is no process left to pass.
LEMMA EndedStays ==
    ASSUME CallsBounds, CallsTypeOK, CallBegun, CallEnded, [Calls!CallsNext]_(Calls!callVars)
    PROVE  CallEnded'
<1>1. ASSUME NEW k \in Calls!Calls, NEW size \in ArraySizes, Calls!Enter(k, size)
      PROVE  CallEnded'
  BY <1>1 DEF Calls!Enter, Calls!list, Calls!counts, CallEnded, Calls!Calls
<1>2. ASSUME NEW p \in Tasks, NEW u \in Uids, Calls!Fork(p, u)
      PROVE  CallEnded'
  BY <1>2 DEF Calls!Fork, Calls!counts, Calls!names, Calls!Running, CallEnded, Calls!Calls
<1>3. ASSUME NEW p \in Tasks, Calls!Exit(p)
      PROVE  CallEnded'
  BY <1>3 DEF Calls!Exit, Calls!counts, Calls!names, Calls!Running, CallEnded, Calls!Calls
<1>4. ASSUME NEW p \in Tasks, Calls!NoArray(p)
      PROVE  CallEnded'
  BY <1>4 DEF Calls!NoArray, Calls!End, Calls!At, Calls!Running, Calls!list, Calls!names,
       Calls!counts, CallEnded, Calls!Calls
<1>5. ASSUME NEW p \in Tasks, Calls!Full(p)
      PROVE  CallEnded'
  BY <1>5 DEF Calls!Full, Calls!End, Calls!At, Calls!Running, Calls!list, Calls!names,
       Calls!counts, CallEnded, Calls!Calls
<1>6. ASSUME NEW p \in Tasks, Calls!Name(p)
      PROVE  CallEnded'
  BY <1>6 DEF Calls!Name, Calls!At, Calls!Running, Calls!list, Calls!counts, CallEnded,
       Calls!Calls
<1>7. ASSUME NEW p \in Tasks, Calls!Count(p)
      PROVE  CallEnded'
  BY <1>7 DEF Calls!Count, Calls!At, Calls!Running, Calls!list, Calls!names, CallEnded,
       Calls!Calls
<1>8. ASSUME NEW p \in Tasks, Calls!NoMemory(p)
      PROVE  CallEnded'
  BY <1>8 DEF Calls!NoMemory, Calls!End, Calls!At, Calls!Running, Calls!list, Calls!names,
       Calls!counts, CallEnded, Calls!Calls
<1>9. CASE Calls!FromGone
  BY <1>9 DEF Calls!FromGone, Calls!End, Calls!Running, Calls!list, Calls!names,
       Calls!counts, CallEnded, Calls!Calls
<1>10. CASE Calls!Told
  <2>1. /\ Calls!Rest = {} /\ Calls!Listed' = Calls!Listed /\ Passed' = Passed
        /\ kind = "kernelps" /\ call' = "done" => arr_size' = it' + 1
    BY <1>10 DEF Calls!Told, Calls!End, Calls!list, Calls!names, Calls!counts, Calls!Listed,
         Passed, Calls!Rest, CallBegun, Calls!Running
  <2>2. Passed = Calls!Listed
    <3>1. ASSUME NEW q \in Calls!Listed PROVE q <= proc
      <4>1. q \in Nat /\ proc \in Nat
        BY DEF Calls!Listed, CallsTypeOK, CallsBounds
      <4> QED  BY <2>1, <4>1 DEF Calls!Rest
    <3> QED  BY <3>1 DEF Passed
  <2> QED  BY <1>10, <2>1, <2>2 DEF CallEnded, Calls!Told, Calls!End
<1>11. CASE Calls!Freed
  <2>1. /\ Calls!Rest = {} /\ Calls!Listed' = Calls!Listed /\ Passed' = Passed
        /\ kind = "kernelps" /\ call' = "done" => arr_size' = it' + 1
    BY <1>11 DEF Calls!Freed, Calls!End, Calls!list, Calls!names, Calls!counts,
         Calls!Listed, Passed, Calls!Rest, CallBegun, Calls!Running
  <2>2. Passed = Calls!Listed
    <3>1. ASSUME NEW q \in Calls!Listed PROVE q <= proc
      <4>1. q \in Nat /\ proc \in Nat
        BY DEF Calls!Listed, CallsTypeOK, CallsBounds
      <4> QED  BY <2>1, <4>1 DEF Calls!Rest
    <3> QED  BY <3>1 DEF Passed
  <2> QED  BY <1>11, <2>1, <2>2 DEF CallEnded, Calls!Freed, Calls!End
<1>12. CASE Calls!FreedNext
  BY <1>12 DEF Calls!FreedNext, Calls!End, Calls!Running, Calls!list, Calls!names,
       Calls!counts, CallEnded, Calls!Calls
<1>13. CASE UNCHANGED Calls!callVars
  BY <1>13 DEF Calls!callVars, Calls!list, Calls!names, Calls!counts, CallEnded, Passed,
       Calls!Listed
<1> QED  BY CallsSteps, <1>1, <1>2, <1>3, <1>4, <1>5, <1>6, <1>7, <1>8, <1>9, <1>10, <1>11,
     <1>12, <1>13

\* Sets are counted there as here.
LEMMA CallsCount == \A S : Calls!Cardinality(S) = Cardinality(S)
BY DEF Cardinality, Calls!Cardinality, IsFiniteSet, Calls!IsFiniteSet

\* The greatest count is that of the user who has most.
LEMMA CallsWhole ==
    ASSUME CallsBounds, CallsTypeOK, CallBegun, Greatest, PassedCounted, CallEnded
    PROVE  Calls!CallsRight
<1>1. \A u \in Uids : tab[u] # NIL => tab[u] <= max_cnt
  BY DEF Greatest
<1>2. ASSUME call = "done", ~changed, kind = "kernelps"
      PROVE  it = Cardinality(Calls!Listed) /\ arr_size = it + 1
  BY <1>2 DEF PassedCounted, CallEnded
<1>3. ASSUME call = "done", ~changed, kind # "kernelps", NEW u \in Uids
      PROVE  Calls!DataOf(u) <= Calls!DataOf(max_uid)
  <2>1. Passed = Calls!Listed
    BY <1>3 DEF CallEnded
  <2>2. ASSUME NEW v PROVE Calls!DataOf(v) = Amount(v, Calls!Listed) /\ Calls!DataOf(v) \in Nat
    <3>1. Calls!DataOf(v) = Amount(v, Calls!Listed)
      BY CallsCount DEF Calls!DataOf, Amount, Of, SumOf
    <3>2. IsFiniteSet(Of(v, Calls!Listed)) /\ Of(v, Calls!Listed) \in SUBSET Tasks
      BY PassedFinite DEF Of, Calls!Listed
    <3>3. Cardinality(Of(v, Calls!Listed)) \in Nat
      BY <3>2, FS_CardinalityType
    <3>4. SumOf(utime, Of(v, Calls!Listed)) \in Nat
      <4>1. utime \in [Tasks -> Nat]
        BY DEF CallsTypeOK
      <4> QED  BY <3>2, <4>1, SumOfOneMore
    <3> QED  BY <3>1, <3>3, <3>4 DEF Amount
  <2>3. ASSUME NEW v \in Uids
        PROVE  Calls!DataOf(v) = IF tab[v] = NIL THEN 0 ELSE tab[v]
    <3>1. IF tab[v] = NIL THEN Of(v, Calls!Listed) = {} ELSE tab[v] = Amount(v, Calls!Listed)
      BY <1>3, <2>1 DEF PassedCounted
    <3>2. Cardinality({}) = 0 /\ SumOf(utime, {}) = 0
      <4>1. utime \in [Tasks -> Nat] /\ {} \in SUBSET Tasks /\ IsFiniteSet({})
        BY FS_EmptySet DEF CallsTypeOK
      <4> QED  BY <4>1, FS_EmptySet, SumOfOneMore
    <3> QED  BY <2>2, <3>1, <3>2 DEF Amount
  <2>4. Calls!DataOf(u) <= max_cnt
    BY <2>3, <1>1 DEF CallsTypeOK
  <2>5. CASE max_cnt = 0
    BY <2>2, <2>4, <2>5
  <2>6. CASE max_cnt # 0
    <3>1. Calls!DataOf(max_uid) = max_cnt
      BY <2>3, <2>6 DEF Greatest, CallsBounds, CallsTypeOK
    <3> QED  BY <2>4, <3>1
  <2> QED  BY <2>5, <2>6
<1> QED  BY <1>2, <1>3, CallsCount DEF Calls!CallsRight, Greatest

\* The parts hold before a call, ...
LEMMA CallsBegin == Calls!CallsInit => CallsParts
<1> SUFFICES ASSUME Calls!CallsInit PROVE CallsParts
  OBVIOUS
<1>1. CallsTypeOK
  <2>1. utime \in [Tasks -> Nat]
    BY ProgramBounds DEF Calls!CallsInit, CallsBounds
  <2>2. changed \in BOOLEAN
    BY Zenon DEF Calls!CallsInit
  <2> QED  BY <2>1, <2>2 DEF Calls!CallsInit, CallsTypeOK
<1> QED  BY <1>1 DEF CallsParts, Calls!CallsInit, CallBegun, Greatest, PassedCounted,
     CallEnded, Calls!Running, Calls!Calls

\* ... and every step keeps them.
LEMMA CallsGoOn == CallsParts /\ [Calls!CallsNext]_(Calls!callVars) => CallsParts'
BY ProgramBounds, CallsTypes, BegunStays, GreatestStays, CountedStays, EndedStays
   DEF CallsParts

\* Of the three system calls that go along the list of processes, for any processes,
\* users and times: kernelps does not leave its array, and what topuser and timeuser
\* find is the greatest of what they have counted, and right when nothing came or went.
THEOREM CallsCountRight == Calls!CallsInit /\ [][Calls!CallsNext]_(Calls!callVars) => []CallsInv
<1>1. CallsParts => CallsInv
  BY CallsWhole, ProgramBounds DEF CallsParts, CallsInv
<1> QED  BY <1>1, CallsBegin, CallsGoOn, PTL
-----------------------------------------------------------------------------
(***************************************************************************)
(* task_mmu.c, the soft-dirty bits: what the process writes after a clear has *)
(* returned is reported.                                                   *)
(***************************************************************************)
\* The slots that are its variables, but for those above.
pte      == x2
writable == x3
soft     == x5
vm_soft  == x6
tlb      == x7
fresh    == x8
events   == x9
USE DEF pte, writable, soft, vm_soft, tlb, fresh, events

\* The types of the state.
DirtyTypeOK ==
    /\ pte \in [VPages -> {"unmapped", "none", "present", "swapped"}]
    /\ place \in {"user", "checking", "relocking", "flagging", "walking"}
    /\ vm_soft \subseteq VPages /\ fresh \subseteq VPages
    /\ writable \subseteq VPages /\ tlb \subseteq VPages
\* Each of these pages is in memory and marked.
Marked(S) == \A p \in S : pte[p] = "present" /\ p \in soft
\* A page that may be written is marked already, and so is one that the processor
\* takes for writable, but between the unmarking and the flush; that is when, and only
\* then, a page written is not reported.
DirtyInv ==
    /\ DirtyTypeOK
    /\ Marked(writable)
    /\ place # "walking" => Marked(tlb)
    /\ place # "user" => fresh = {}
    /\ Dirty!WritesReported

\* Every step of the process, of the swapping and of the clear keeps it.
LEMMA DirtyKept == DirtyInv /\ [Dirty!DirtyNext]_(Dirty!dirtyVars) => DirtyInv'
<1> SUFFICES ASSUME DirtyInv, [Dirty!DirtyNext]_(Dirty!dirtyVars) PROVE DirtyInv'
  OBVIOUS
<1> USE DEF DirtyInv, DirtyTypeOK, Marked, Dirty!WritesReported, Dirty!Reported, Dirty!Excluded, Dirty!Reading, Dirty!Mapped, Dirty!Event, Dirty!Seen, Dirty!pages
<1>1. ASSUME NEW p \in VPages, Dirty!Map(p) PROVE DirtyInv'
  BY <1>1 DEF Dirty!Map
<1>2. ASSUME NEW p \in VPages, Dirty!Unmap(p) PROVE DirtyInv'
  BY <1>2 DEF Dirty!Unmap
<1>3. ASSUME NEW p \in VPages, Dirty!Write(p) PROVE DirtyInv'
  BY <1>3 DEF Dirty!Write
<1>4. ASSUME NEW p \in VPages, Dirty!WriteFaults(p) PROVE DirtyInv'
  BY <1>4 DEF Dirty!WriteFaults
<1>5. ASSUME NEW p \in VPages, Dirty!SwapOut(p) PROVE DirtyInv'
  BY <1>5 DEF Dirty!SwapOut
<1>6. ASSUME NEW p \in VPages, Dirty!SwapIn(p) PROVE DirtyInv'
  BY <1>6 DEF Dirty!SwapIn
<1>7. ASSUME NEW p \in VPages, Dirty!ClearPage(p) PROVE DirtyInv'
  BY <1>7 DEF Dirty!ClearPage
<1>8. CASE Dirty!Clear
  BY <1>8 DEF Dirty!Clear
<1>9. CASE Dirty!Relock \/ Dirty!Killed \/ Dirty!LockForWriting
  BY <1>9 DEF Dirty!Relock, Dirty!Killed, Dirty!LockForWriting
<1>10. CASE Dirty!ClearAreas
  BY <1>10 DEF Dirty!ClearAreas
<1>11. CASE Dirty!Cleared
  BY <1>11 DEF Dirty!Cleared, Dirty!Flush
<1>12. CASE UNCHANGED Dirty!dirtyVars
  BY <1>12 DEF Dirty!dirtyVars
<1> QED  BY <1>1, <1>2, <1>3, <1>4, <1>5, <1>6, <1>7, <1>8, <1>9, <1>10, <1>11, <1>12 DEF Dirty!DirtyNext

\* It holds when nothing is mapped yet.
LEMMA DirtyBegins == Dirty!DirtyInit => DirtyInv
BY DEF Dirty!DirtyInit, DirtyInv, DirtyTypeOK, Marked, Dirty!WritesReported, Dirty!Mapped

\* For any pages: once clear_refs_write has returned, pagemap reports every page written
\* or mapped since (WritesReported).
THEOREM DirtyReported == Dirty!DirtyInit /\ [][Dirty!DirtyNext]_(Dirty!dirtyVars) => []Dirty!WritesReported
<1>1. DirtyInv => Dirty!WritesReported
  BY DEF DirtyInv
<1> QED  BY <1>1, DirtyBegins, DirtyKept, PTL
-----------------------------------------------------------------------------
(***************************************************************************)
(* base.c, oom_score_adj and oom_adj: one value for who shares a memory.   *)
(***************************************************************************)
\* The slots that are its variables, but for those above.
mm      == x1
vforked == x2
adj     == x3
adj_min == x5
parent  == x7
write   == x8
apart   == x9
writes  == x10
USE DEF mm, vforked, adj, adj_min, parent, write, apart, writes

\* The types of the state.
OomTypeOK == /\ mm \in [Tasks -> Tasks \cup {NIL}]
             /\ adj \in [Tasks -> Int] /\ parent \in [Tasks -> Tasks \cup {NIL}]
             /\ write \in OomWrites \cup {NIL}
             /\ vforked \subseteq Tasks /\ apart \subseteq Tasks /\ left \subseteq Tasks
             /\ 1 \in Tasks
\* The processes that share their value with who shares their memory.
Ordinary  == Tasks \ (vforked \cup apart)
\* A write has set its task's value and tells those that share this memory.
Writing(m) == write # NIL /\ write.set /\ write.mm = m
\* A child that is being forked has no memory yet that another could use; it was copied
\* from its parent, and unless a write meets it has its parent's value.
ChildrenKnown ==
    \A q \in Tasks : parent[q] # NIL =>
        /\ mm[q] = NIL /\ \A r \in Tasks : mm[r] # q
        /\ Oom!Alive(parent[q]) /\ parent[q] # q
        /\ write # NIL => q # write.task /\ write.mm # q /\ q \in apart
        /\ q \notin apart => parent[q] \in Ordinary /\ adj[q] = adj[parent[q]]
\* Somebody has still to be told only while a write goes on for a memory that is shared.
TellingKnown ==
    left # {} => write # NIL /\ write.set /\ write.mm # NIL
\* The task of a write has the value written; a write that tells nobody has nobody to
\* tell: its task shares its memory with none.
TaskKnown ==
    write # NIL =>
        /\ write.set => adj[write.task] = write.value
        /\ last[1] = write.task
        /\ last[2] # NIL => last[2] \in Adjs /\ write.value = Oom!Scaled(last[2])
        /\ write.task \notin vforked /\ mm[write.task] # write.mm =>
              \A q \in Tasks \ {write.task} :
                 Oom!Shares(write.task, q) => q \in apart \cup vforked
\* Those that share memory have one value; during a write to it, those that were told
\* have the value written.
Told ==
    /\ \A p, q \in Ordinary : Oom!Shares(p, q) /\ ~Writing(mm[p]) => adj[p] = adj[q]
    /\ \A p \in Ordinary \ left : Oom!Alive(p) /\ Writing(mm[p]) => adj[p] = write.value
\* The invariant of the proof.
OomInv == OomTypeOK /\ ChildrenKnown /\ TellingKnown /\ TaskKnown /\ Told

\* oom_adj read back is what was written, or one nearer to 0.
LEMMA ReadBack ==
    ASSUME NEW v \in Oom!OOM_DISABLE .. Oom!OOM_ADJUST_MAX, NEW p \in Tasks, adj[p] = Oom!Scaled(v)
    PROVE  LET r == Oom!oom_adj_read(p)
           IN  r = v \/ (v > 0 /\ r = v - 1) \/ (v < 0 /\ r = v + 1)
BY DEF Oom!oom_adj_read, Oom!Scaled, Oom!Quotient, Oom!OOM_DISABLE, Oom!OOM_ADJUST_MAX, Oom!OOM_SCORE_ADJ_MAX

\* A value of oom_adj becomes a number.
LEMMA ScaledInt == ASSUME NEW v \in Int PROVE Oom!Scaled(v) \in Int
BY DEF Oom!Scaled, Oom!Quotient, Oom!OOM_DISABLE, Oom!OOM_ADJUST_MAX, Oom!OOM_SCORE_ADJ_MAX

\* Every step of fork, exec, exit and a write keeps the invariant.
LEMMA OomKept == OomBounds /\ OomInv /\ [Oom!OomNext]_(Oom!oomVars) => OomInv'
<1> SUFFICES ASSUME OomBounds, OomInv, [Oom!OomNext]_(Oom!oomVars) PROVE OomInv'
  OBVIOUS
<1> USE DEF OomInv, OomTypeOK, ChildrenKnown, TellingKnown, TaskKnown, Told, Ordinary, Writing, Oom!Alive, Oom!Shares
<1>1. ASSUME NEW p \in Tasks, NEW q \in Tasks, Oom!ForkSignal(p, q) PROVE OomInv'
  <2>1. OomTypeOK'
    BY <1>1 DEF Oom!ForkSignal, Oom!Fresh, OomBounds, OomWrites
  <2>2. ChildrenKnown'
    BY <1>1 DEF Oom!ForkSignal, Oom!Fresh, OomBounds, OomWrites
  <2>3. TellingKnown'
    BY <1>1 DEF Oom!ForkSignal, Oom!Fresh, OomBounds, OomWrites
  <2>4. TaskKnown'
    BY <1>1 DEF Oom!ForkSignal, Oom!Fresh, OomBounds, OomWrites
  <2>5. Told'
    BY <1>1 DEF Oom!ForkSignal, Oom!Fresh, OomBounds, OomWrites
  <2> QED  BY <2>1, <2>2, <2>3, <2>4, <2>5
<1>2. ASSUME NEW q \in Tasks, Oom!ForkLink(q) PROVE OomInv'
  <2>1. OomTypeOK'
    BY <1>2 DEF Oom!ForkLink, OomBounds, OomWrites
  <2>2. ChildrenKnown'
    BY <1>2 DEF Oom!ForkLink, OomBounds, OomWrites
  <2>3. TellingKnown'
    BY <1>2 DEF Oom!ForkLink, OomBounds, OomWrites
  <2>4. TaskKnown'
    BY <1>2 DEF Oom!ForkLink, OomBounds, OomWrites
  <2>5. Told'
    BY <1>2 DEF Oom!ForkLink, OomBounds, OomWrites
  <2> QED  BY <2>1, <2>2, <2>3, <2>4, <2>5
<1>3. ASSUME NEW p \in Tasks, Oom!Exec(p) PROVE OomInv'
  <2>1. OomTypeOK'
    BY <1>3 DEF Oom!Exec, Oom!Fresh, Oom!Forking, OomBounds, OomWrites
  <2>2. ChildrenKnown'
    BY <1>3 DEF Oom!Exec, Oom!Fresh, Oom!Forking, OomBounds, OomWrites
  <2>3. TellingKnown'
    BY <1>3 DEF Oom!Exec, Oom!Fresh, Oom!Forking, OomBounds, OomWrites
  <2>4. TaskKnown'
    BY <1>3 DEF Oom!Exec, Oom!Fresh, Oom!Forking, OomBounds, OomWrites
  <2>5. Told'
    BY <1>3 DEF Oom!Exec, Oom!Fresh, Oom!Forking, OomBounds, OomWrites
  <2> QED  BY <2>1, <2>2, <2>3, <2>4, <2>5
<1>4. ASSUME NEW p \in Tasks, Oom!Exit(p) PROVE OomInv'
  <2>1. OomTypeOK'
    BY <1>4 DEF Oom!Exit, Oom!Forking, OomBounds, OomWrites
  <2>2. ChildrenKnown'
    BY <1>4 DEF Oom!Exit, Oom!Forking, OomBounds, OomWrites
  <2>3. TellingKnown'
    BY <1>4 DEF Oom!Exit, Oom!Forking, OomBounds, OomWrites
  <2>4. TaskKnown'
    BY <1>4 DEF Oom!Exit, Oom!Forking, OomBounds, OomWrites
  <2>5. Told'
    BY <1>4 DEF Oom!Exit, Oom!Forking, OomBounds, OomWrites
  <2> QED  BY <2>1, <2>2, <2>3, <2>4, <2>5
<1>5. ASSUME NEW p \in Tasks, Oom!Tell(p) PROVE OomInv'
  <2>1. OomTypeOK'
    BY <1>5 DEF Oom!Tell, Oom!Sets, OomBounds, OomWrites
  <2>2. ChildrenKnown'
    BY <1>5 DEF Oom!Tell, Oom!Sets, OomBounds, OomWrites
  <2>3. TellingKnown'
    BY <1>5 DEF Oom!Tell, Oom!Sets, OomBounds, OomWrites
  <2>4. TaskKnown'
    BY <1>5 DEF Oom!Tell, Oom!Sets, OomBounds, OomWrites
  <2>5. Told'
    BY <1>5 DEF Oom!Tell, Oom!Sets, OomBounds, OomWrites
  <2> QED  BY <2>1, <2>2, <2>3, <2>4, <2>5
<1>6. ASSUME NEW p \in Tasks, NEW c \in BOOLEAN, Oom!Write(p, c) PROVE OomInv'
  <2>a. \A v \in Adjs : Oom!Scaled(v) \in Int
    BY ScaledInt DEF OomBounds, Oom!OOM_DISABLE, Oom!OOM_ADJUST_MAX
  <2>1. OomTypeOK'
    <3>1. ASSUME NEW v \in Int, NEW l \in BOOLEAN, Oom!Begin(p, v, l, c) PROVE OomTypeOK'
      BY <3>1 DEF Oom!Begin, OomBounds, OomWrites
    <3> QED  BY <1>6, <2>a, <3>1 DEF Oom!Write, OomBounds
  <2>2. ChildrenKnown'
    BY <1>6 DEF Oom!Write, Oom!Begin, OomBounds, OomWrites
  <2>3. TellingKnown'
    BY <1>6 DEF Oom!Write, Oom!Begin, OomBounds, OomWrites
  <2>4. TaskKnown'
    BY <1>6 DEF Oom!Write, Oom!Begin, OomBounds, OomWrites
  <2>5. Told'
    BY <1>6 DEF Oom!Write, Oom!Begin, OomBounds, OomWrites
  <2> QED  BY <2>1, <2>2, <2>3, <2>4, <2>5
<1>7. ASSUME Oom!SetOwn PROVE OomInv'
  <2>1. OomTypeOK'
    BY <1>7 DEF Oom!SetOwn, Oom!Sets, OomBounds, OomWrites
  <2>2. ChildrenKnown'
    BY <1>7 DEF Oom!SetOwn, Oom!Sets, OomBounds, OomWrites
  <2>3. TellingKnown'
    BY ZenonT(60), <1>7 DEF Oom!SetOwn, Oom!Sets, OomBounds, OomWrites
  <2>4. TaskKnown'
    BY <1>7 DEF Oom!SetOwn, Oom!Sets, OomBounds, OomWrites
  <2>5. Told'
    <3>1. /\ write \in OomWrites /\ ~write.set /\ write'.task = write.task
          /\ write'.value = write.value /\ write'.mm = write.mm /\ write'.set
          /\ UNCHANGED <<mm, vforked>>
          /\ \A p \in Tasks : adj'[p] = IF p = write.task THEN write.value ELSE adj[p]
          /\ \A p \in apart : p \in apart' \/ p = write.task
          /\ write.task \in vforked => apart' = apart
          /\ apart' \subseteq apart
          /\ write.mm # NIL => \A p \in Tasks \ {write.task} : Oom!Alive(p) => p \in left'
      BY <1>7 DEF Oom!SetOwn, Oom!Sets, OomBounds, OomWrites
    <3>2. write # NIL /\ write' # NIL
      <4>1. write \in OomWrites /\ write' = [write EXCEPT !.set = TRUE]
        BY <1>7, <3>1 DEF Oom!SetOwn
      <4>2. write' \in OomWrites
        BY <4>1 DEF OomWrites
      <4> QED  BY <4>1, <4>2 DEF OomBounds
    <3>3. \A p, q \in Ordinary' : (Oom!Shares(p, q) /\ ~Writing(mm[p]))' => adj'[p] = adj'[q]
      BY <3>1, <3>2 DEF OomBounds
    <3>4. \A p \in (Ordinary \ left)' : (Oom!Alive(p) /\ Writing(mm[p]))' => adj'[p] = write'.value
      BY <3>1, <3>2 DEF OomBounds
    <3> QED  BY <3>3, <3>4
  <2> QED  BY <2>1, <2>2, <2>3, <2>4, <2>5
<1>8. ASSUME Oom!End PROVE OomInv'
  <2>1. OomTypeOK'
    BY <1>8 DEF Oom!End, OomBounds, OomWrites
  <2>2. ChildrenKnown'
    BY <1>8 DEF Oom!End, OomBounds, OomWrites
  <2>3. TellingKnown'
    BY <1>8 DEF Oom!End, OomBounds, OomWrites
  <2>4. TaskKnown'
    BY <1>8 DEF Oom!End, OomBounds, OomWrites
  <2>5. Told'
    BY <1>8 DEF Oom!End, OomBounds, OomWrites
  <2> QED  BY <2>1, <2>2, <2>3, <2>4, <2>5
<1>9. CASE UNCHANGED Oom!oomVars
  BY <1>9 DEF Oom!oomVars
<1> QED  BY <1>1, <1>2, <1>3, <1>4, <1>5, <1>6, <1>7, <1>8, <1>9 DEF Oom!OomNext

\* It holds before anything is forked or written, ...
LEMMA OomBegins == Oom!OomInit => OomInv
BY ProgramBounds DEF Oom!OomInit, OomInv, OomBounds, OomTypeOK, ChildrenKnown, TellingKnown, TaskKnown, Told, Ordinary, Oom!Shares, Writing, Oom!Alive

\* ... and whatever state it holds in, the values are right.
LEMMA OomRight == OomInv => Oom!AdjShared
<1> SUFFICES ASSUME OomInv PROVE Oom!AdjShared
  OBVIOUS
<1>1. write = NIL => \A p, q \in Tasks :
        Oom!Shares(p, q) /\ {p, q} \cap (vforked \cup apart) = {} => adj[p] = adj[q]
  BY DEF OomInv, Told, Ordinary, Writing
<1>2. ASSUME write # NIL, last[2] # NIL, write.set
      PROVE  LET r == Oom!oom_adj_read(last[1])  v == last[2] IN
                 r = v \/ (v > 0 /\ r = v - 1) \/ (v < 0 /\ r = v + 1)
  <2>1. last[1] \in Tasks /\ last[2] \in Oom!OOM_DISABLE .. Oom!OOM_ADJUST_MAX
        /\ adj[last[1]] = Oom!Scaled(last[2])
    BY <1>2, ProgramBounds DEF OomInv, OomTypeOK, TaskKnown, OomWrites, OomBounds
  <2> QED  BY <2>1, ReadBack
<1> QED  BY <1>1, <1>2 DEF Oom!AdjShared

\* For any processes and values: between writes, the processes that share a memory have
\* one oom_score_adj, but those that were being forked, or vforked; and oom_adj gives back
\* what was written to it, up to the rounding (AdjShared).
THEOREM OomShared == Oom!OomInit /\ [][Oom!OomNext]_(Oom!oomVars) => []Oom!AdjShared
BY ProgramBounds, OomBegins, OomRight, OomKept, PTL
-----------------------------------------------------------------------------
(***************************************************************************)
(* kcore.c: the list of areas follows the memory, and a reader of the file *)
(* sees what its headers announce.                                         *)
(***************************************************************************)
\* The slots that are its variables, but for the first, place.
online            == x2
kclist            == x3
kcore_need_update == x4
size              == x5
i_size            == x6
seen              == x7
missed            == x8
alone             == x9
plugs             == x10
read              == x11
headers           == x12
shifted           == x13
page              == x14
USE DEF online, kclist, kcore_need_update, size, i_size, seen, missed, alone, plugs,
        read, headers, shifted, page

\* kclist is the memory there is, unless an update is due or was overtaken by a change of
\* memory; who has walked the memory knows it; during an opening that has met no other one
\* only that one changes the sizes, so that what it has loaded of them is so.
KcoreLabels == {"closed", "updating", "walked", "sizing", "comparing", "resizing", "storing", "open"}
SizesKnown  ==
    alone => /\ \A o, q \in Callers : Core!Opening(o) /\ Core!Opening(q) => o = q
             /\ (\A o \in Callers : ~Core!Opening(o)) => i_size = size
             /\ \A o \in Callers : /\ place[o] = "comparing" => seen[o].size = i_size
                                   /\ place[o] = "storing" => seen[o].size = size
KcoreInv ==
    /\ kcore_need_update \/ missed \/ kclist = online
    /\ \A o \in Callers : place[o] = "walked" /\ ~missed => seen[o].ram = online
    /\ SizesKnown
    /\ place \in [Callers -> KcoreLabels]
    /\ seen = [o \in Callers |-> [ram |-> seen[o].ram, size |-> seen[o].size]]
    /\ (\A o \in Callers : seen[o].ram \subseteq RamBlocks) /\ online \subseteq RamBlocks
    /\ missed \in BOOLEAN /\ alone \in BOOLEAN

\* Every step of the openers, of the reader and of memory keeps it.
LEMMA KcoreKept == KcoreInv /\ [Core!KcoreNext]_(Core!kcoreVars) => KcoreInv'
<1> SUFFICES ASSUME KcoreInv, [Core!KcoreNext]_(Core!kcoreVars) PROVE KcoreInv'
  OBVIOUS
<1> USE DEF KcoreInv, SizesKnown, KcoreLabels, Core!Opening, Core!Unseen, Core!kclists, Core!hotplugs, Core!openers, Core!reader, Core!Goto
<1>1. CASE Core!Hotplug
  BY <1>1 DEF Core!Hotplug, Core!Note
<1>2. ASSUME Core!ReadHeaders \/ Core!ReadPage \/ Core!ReadFaults \/ \E b \in RamBlocks, n \in 1 .. 2 : Core!ReadArea(b, n) PROVE KcoreInv'
  <2>1. UNCHANGED <<Core!hotplugs, Core!kclists, Core!openers>>
    BY <1>2 DEF Core!ReadHeaders, Core!ReadPage, Core!ReadFaults, Core!ReadArea
  <2> QED  BY <2>1
<1>3. ASSUME NEW o \in Callers, Core!Open(o) PROVE KcoreInv'
  BY <1>3 DEF Core!Open
<1>4. ASSUME NEW o \in Callers, Core!Walk(o) PROVE KcoreInv'
  BY <1>4 DEF Core!Walk
<1>5. ASSUME NEW o \in Callers, Core!WalkFails(o) PROVE KcoreInv'
  BY <1>5 DEF Core!WalkFails
<1>6. ASSUME NEW o \in Callers, Core!Update(o) PROVE KcoreInv'
  <2>1. missed' \/ kclist' = online'
    BY <1>6 DEF Core!Update
  <2>2. place[o] = "walked" /\ place' = [place EXCEPT ![o] = "sizing"] /\ UNCHANGED <<online, missed, alone>>
        /\ seen' = [seen EXCEPT ![o] = [ram |-> {}, size |-> 0]]
    BY <1>6 DEF Core!Update
  <2>3. SizesKnown'
    BY <2>2
  <2> QED  BY <2>1, <2>2, <2>3
<1>7. ASSUME NEW o \in Callers, Core!LoadInodeSize(o) PROVE KcoreInv'
  BY <1>7 DEF Core!LoadInodeSize
<1>8. ASSUME NEW o \in Callers, Core!CompareSize(o) PROVE KcoreInv'
  BY <1>8 DEF Core!CompareSize
<1>9. ASSUME NEW o \in Callers, Core!LoadSize(o) PROVE KcoreInv'
  BY <1>9 DEF Core!LoadSize
<1>10. ASSUME NEW o \in Callers, Core!StoreSize(o) PROVE KcoreInv'
  BY <1>10 DEF Core!StoreSize
<1>11. ASSUME NEW o \in Callers, Core!Close(o) PROVE KcoreInv'
  BY <1>11 DEF Core!Close
<1>12. CASE UNCHANGED Core!kcoreVars
  BY <1>12 DEF Core!kcoreVars
<1> QED  BY <1>1, <1>2, <1>3, <1>4, <1>5, <1>6, <1>7, <1>8, <1>9, <1>10, <1>11, <1>12 DEF Core!KcoreNext

\* The types of what a reader of /proc/kcore uses.
ReaderTypeOK ==
    /\ kclist \in (SUBSET RamBlocks) \ {{}} /\ online # {}
    /\ \A o \in Callers : place[o] = "walked" => seen[o].ram \in (SUBSET RamBlocks) \ {{}}
    /\ read \in [fpos : Int, start : Int, left : Int]
    /\ headers # NIL =>
          headers \in [dataoff : Int, areas : SUBSET RamBlocks, steady : SUBSET RamBlocks]
\* As long as the size of the headers has not changed, what the reader was told of them
\* is so; the blocks that have been there since are in kclist.
HeadersKnown ==
    headers # NIL => /\ ~shifted => headers.dataoff = Core!elf_buflen(kclist)
                     /\ headers.steady \subseteq online
                     /\ ~missed => headers.steady \subseteq kclist
\* A read that goes on has the address that its offset stands for.
ReadPlaced ==
    read.left > 0 /\ headers # NIL /\ ~shifted => read.start = read.fpos - headers.dataoff
\* The invariant of the proof.
ReaderInv == KcoreInv /\ ReaderTypeOK /\ HeadersKnown /\ ReadPlaced /\ Core!AreasRead

\* Sets are counted there as here.
LEMMA CoreCount == \A S : Core!Cardinality(S) = Cardinality(S)
BY DEF Cardinality, Core!Cardinality, IsFiniteSet, Core!IsFiniteSet

\* The headers' size is a number.
LEMMA Buflen ==
    ASSUME IsFiniteSet(RamBlocks), PerPage \in Nat \ {0}, NEW l, l \subseteq RamBlocks
    PROVE  Core!elf_buflen(l) \in Int
<1>1. Cardinality(l) \in Nat
  BY FS_Subset, FS_CardinalityType
<1> QED  BY <1>1, CoreCount DEF Core!elf_buflen

\* Among subsets of a finite set one is smallest.
LEMMA SmallestSet ==
    ASSUME NEW S, IsFiniteSet(S), NEW T, T \subseteq SUBSET S, T # {}
    PROVE  \E X \in T : \A Y \in T : Y \subseteq X => Y = X
<1>1. IsWellFoundedOn(StrictSubsetOrdering(S), FiniteSubsetsOf(S))
  BY FS_StrictSubsetOrderingWellFounded
<1>2. T \subseteq FiniteSubsetsOf(S)
  BY FS_Subset DEF FiniteSubsetsOf
<1>3. \E x \in T : \A y \in T : ~ (<<y, x>> \in StrictSubsetOrdering(S))
  BY <1>1, <1>2, WFMin
<1> QED  BY <1>3 DEF StrictSubsetOrdering

\* A finite set of numbers has a greatest: else some smallest part of it has none, and
\* this part without one of its members has one.
LEMMA GreatestNumber ==
    ASSUME NEW S, IsFiniteSet(S)
    PROVE  S \subseteq Int /\ S # {} => \E m \in S : \A n \in S : n <= m
<1>1. \A T : T \subseteq SUBSET S /\ T # {} => \E X \in T : \A Y \in T : Y \subseteq X => Y = X
  BY SmallestSet
<1> DEFINE Bad == {X \in SUBSET S : X # {} /\ ~\E m \in X : \A n \in X : n <= m}
<1>2. Bad # {} => \E X \in Bad : \A Y \in Bad : Y \subseteq X => Y = X
  <2>1. Bad \subseteq SUBSET S
    OBVIOUS
  <2> HIDE DEF Bad
  <2> QED  BY <1>1, <2>1
<1> SUFFICES ASSUME S \subseteq Int, Bad # {} PROVE FALSE
  OBVIOUS
<1>3. PICK X \in Bad : \A Y \in Bad : Y \subseteq X => Y = X
  BY <1>2
<1>4. PICK x \in X : TRUE
  BY <1>3
<1> DEFINE Y == X \ {x}
<1>5. Y \notin Bad
  BY <1>3, <1>4
<1>6. Y # {}
  BY <1>3, <1>4
<1>7. PICK m \in Y : \A n \in Y : n <= m
  BY <1>3, <1>5, <1>6
<1>8. x \in Int /\ m \in Int /\ X \subseteq Int
  BY <1>3, <1>4, <1>7
<1> QED  BY <1>3, <1>4, <1>7, <1>8

\* A list of areas has a last one.
LEMMA LastArea ==
    ASSUME IsFiniteSet(RamBlocks), RamBlocks \subseteq Nat, NEW l, l \subseteq RamBlocks, l # {}
    PROVE  Core!Max(l) \in l /\ \A b \in l : b <= Core!Max(l)
<1>1. \E m \in l : \A n \in l : n <= m
  <2>1. IsFiniteSet(l)
    BY FS_Subset
  <2>2. l \subseteq Int
    OBVIOUS
  <2> QED  BY <2>1, <2>2, GreatestNumber
<1> QED  BY <1>1 DEF Core!Max

\* The greater and the smaller of two numbers.
LEMMA Pairs ==
    ASSUME NEW a \in Int, NEW b \in Int
    PROVE  /\ Core!Max({a, b}) = IF a >= b THEN a ELSE b
           /\ Core!Min({a, b}) = IF a <= b THEN a ELSE b
<1>1. Core!Max({a, b}) = IF a >= b THEN a ELSE b
  BY DEF Core!Max
<1>2. Core!Min({a, b}) = IF a <= b THEN a ELSE b
  BY DEF Core!Min
<1> QED  BY <1>1, <1>2

\* A read of an area starts where the headers place it: it shows neither headers nor an
\* end of file where a block is that stayed.
LEMMA AreaStep ==
    ASSUME KcoreBounds, ReaderInv, NEW b \in RamBlocks, NEW n \in 1 .. 2, Core!ReadArea(b, n)
    PROVE  ReaderTypeOK' /\ HeadersKnown' /\ ReadPlaced' /\ Core!AreasRead'
<1> DEFINE off  == Core!elf_buflen(kclist)
           fpos == headers.dataoff + b
           want == Core!Min({n, Core!SizeOf(kclist) - fpos})
           hdrs == Core!Min({want, Core!Max({off - fpos, 0})})
<1>1. /\ UNCHANGED <<online, missed, kclist, seen, headers, shifted>>
      /\ headers # NIL /\ b \in headers.areas
      /\ IF want <= 0 THEN page' = <<fpos, NUL>> /\ UNCHANGED read
         ELSE /\ read' = [fpos  |-> fpos + hdrs, left |-> want - hdrs,
                          start |-> fpos + hdrs - off]
              /\ page' = IF hdrs > 0 THEN <<fpos, NONE>> ELSE page
  <2>1. UNCHANGED <<Core!hotplugs, Core!kclists, Core!openers, headers, shifted>>
    BY DEF Core!ReadArea
  <2>2. headers # NIL /\ b \in headers.areas
    BY DEF Core!ReadArea
  <2>3. IF want <= 0 THEN page' = <<fpos, NUL>> /\ UNCHANGED read
        ELSE /\ read' = [fpos  |-> fpos + hdrs, left |-> want - hdrs,
                          start |-> fpos + hdrs - off]
             /\ page' = IF hdrs > 0 THEN <<fpos, NONE>> ELSE page
    BY Zenon DEF Core!ReadArea
  <2> HIDE DEF want, hdrs, off, fpos
  <2> QED  BY <2>1, <2>2, <2>3 DEF Core!hotplugs, Core!kclists, Core!openers
<1>2. off \in Int /\ fpos \in Int /\ b \in Int /\ n \in Int /\ n > 0
      /\ headers.dataoff \in Int
  <2>1. off \in Int
    BY Buflen DEF KcoreBounds, ReaderInv, ReaderTypeOK
  <2>2. headers.dataoff \in Int
    BY <1>1 DEF ReaderInv, ReaderTypeOK
  <2>3. b \in Nat
    BY DEF KcoreBounds
  <2> HIDE DEF want, hdrs, off
  <2> QED  BY <2>1, <2>2, <2>3
<1>3. ASSUME kclist # {}
      PROVE  /\ want \in Int /\ hdrs \in Int
             /\ want <= 0 => \A c \in kclist : off + c < fpos
             /\ want > 0 /\ off <= fpos => hdrs = 0
  <2>1. Core!Max(kclist) \in Int /\ \A c \in kclist : c \in Int /\ c <= Core!Max(kclist)
    <3>1. kclist \subseteq RamBlocks /\ RamBlocks \subseteq Nat
      BY DEF KcoreBounds, ReaderInv, ReaderTypeOK
    <3>2. Core!Max(kclist) \in kclist /\ \A c \in kclist : c <= Core!Max(kclist)
      BY <1>3, <3>1, LastArea DEF KcoreBounds
    <3> HIDE DEF want, hdrs, off, fpos
    <3>3. \A c \in kclist : c \in Nat
      BY <3>1
    <3> QED  BY <3>2, <3>3
  <2>2. Core!SizeOf(kclist) - fpos \in Int /\ Core!SizeOf(kclist) = Core!Max(kclist) + 1 + off
    BY <2>1, <1>2 DEF Core!SizeOf
  <2>3. want = IF n <= Core!SizeOf(kclist) - fpos THEN n ELSE Core!SizeOf(kclist) - fpos
    BY <1>2, <2>2, Pairs
  <2>4. Core!Max({off - fpos, 0}) = IF off - fpos >= 0 THEN off - fpos ELSE 0
    BY <1>2, Pairs
  <2>5. want \in Int
    BY <2>2, <2>3, <1>2
  <2>6. Core!Max({off - fpos, 0}) \in Int
    BY <2>4, <1>2
  <2>7. hdrs = IF want <= Core!Max({off - fpos, 0}) THEN want ELSE Core!Max({off - fpos, 0})
    <3> HIDE DEF want
    <3> QED  BY <2>5, <2>6, Pairs
  <2> HIDE DEF want, hdrs, off, fpos
  <2> QED  BY <1>2, <2>1, <2>2, <2>3, <2>4, <2>5, <2>6, <2>7
<1> HIDE DEF want, hdrs, off, fpos
<1> USE DEF ReaderInv, ReaderTypeOK, HeadersKnown, ReadPlaced, Core!AreasRead
<1>4. kclist # {}
  OBVIOUS
<1>5. UNCHANGED place
  BY DEF Core!ReadArea, Core!openers
<1>6. ReaderTypeOK'
  <2>1. read' \in [fpos : Int, start : Int, left : Int]
    BY <1>1, <1>2, <1>3, <1>4
  <2> QED  BY <1>1, <1>5, <2>1
<1>7. HeadersKnown'
  BY <1>1
<1>8. ReadPlaced'
  <2> SUFFICES ASSUME ~shifted PROVE ReadPlaced'
    BY <1>1
  <2>1. off = headers.dataoff
    BY <1>1 DEF off
  <2>2. CASE want <= 0
    <3>1. UNCHANGED <<read, headers, shifted>>
      BY <1>1, <2>2
    <3> QED  BY <3>1
  <2>3. CASE ~(want <= 0)
    <3>1. read'.start = fpos + hdrs - off /\ read'.fpos = fpos + hdrs
      BY <1>1, <2>3
    <3>2. headers' = headers /\ shifted' = shifted
      BY <1>1
    <3> HIDE DEF ReaderInv, ReaderTypeOK, HeadersKnown, Core!AreasRead
    <3>3. read'.start = read'.fpos - headers.dataoff
      BY <1>2, <1>3, <1>4, <2>1, <3>1
    <3> QED  BY <3>2, <3>3
  <2> QED  BY <2>2, <2>3
<1>9. Core!AreasRead'
  <2> SUFFICES ASSUME headers # NIL, page' # NIL, ~shifted, NEW c \in headers.areas,
                      page'[1] = headers.dataoff + c
               PROVE  /\ page'[2] \in {c, ZERO, NUL}
                      /\ c \in headers.steady /\ ~missed => page'[2] = c
    BY <1>1
  <2>1. CASE page' = page
    BY <2>1
  <2>2. CASE want <= 0 /\ page' = <<fpos, NUL>>
    <3>1. c \in Nat /\ off = headers.dataoff
      BY DEF KcoreBounds, off
    <3>2. c \in headers.steady /\ ~missed => FALSE
      BY <2>2, <3>1, <1>2, <1>3, <1>4
    <3> QED  BY <2>2, <3>2
  <2>3. CASE want > 0 /\ page' = IF hdrs > 0 THEN <<fpos, NONE>> ELSE page
    <3>1. off = headers.dataoff /\ b \in Nat
      BY DEF KcoreBounds, off
    <3>2. off <= fpos
      BY <3>1, <1>2 DEF fpos
    <3>3. hdrs = 0
      BY <2>3, <3>2, <1>3, <1>4
    <3> QED  BY <2>3, <3>3, <2>1
  <2> QED  BY <1>1, <1>2, <1>3, <1>4, <2>1, <2>2, <2>3
<1> QED  BY <1>6, <1>7, <1>8, <1>9

\* So every step keeps the invariant.
LEMMA ReaderStep == KcoreBounds /\ ReaderInv /\ [Core!KcoreNext]_(Core!kcoreVars) => ReaderInv'
<1> SUFFICES ASSUME KcoreBounds, ReaderInv, [Core!KcoreNext]_(Core!kcoreVars) PROVE ReaderInv'
  OBVIOUS
<1>k. KcoreInv'
  BY KcoreKept DEF ReaderInv
<1>a. ASSUME NEW b \in RamBlocks, NEW n \in 1 .. 2, Core!ReadArea(b, n) PROVE ReaderInv'
  BY <1>a, <1>k, AreaStep DEF ReaderInv
<1> USE DEF ReaderInv, ReaderTypeOK, HeadersKnown, ReadPlaced, Core!AreasRead, Core!kclists, Core!hotplugs, Core!openers, Core!reader, Core!Goto
<1>1. CASE Core!Hotplug
  <2>1. /\ online' \in (SUBSET RamBlocks) \ {{}} /\ UNCHANGED <<kclist, place, seen, read, shifted, page>>
        /\ headers' = IF headers = NIL THEN NIL
                         ELSE [headers EXCEPT !.steady = @ \cap online']
        /\ missed => missed'
    BY <1>1 DEF Core!Hotplug
  <2>2. headers' # NIL => headers # NIL /\ headers'.dataoff = headers.dataoff
                           /\ headers'.areas = headers.areas
                           /\ headers'.steady = headers.steady \cap online'
    BY <2>1
  <2>3. ReaderTypeOK'
    BY <2>1, <2>2
  <2>4. HeadersKnown'
    BY <2>1, <2>2 DEF Core!elf_buflen
  <2>5. ReadPlaced'
    BY <2>1, <2>2
  <2>6. Core!AreasRead'
    BY <2>1, <2>2
  <2> QED  BY <1>k, <2>3, <2>4, <2>5, <2>6
<1>2. CASE Core!ReadHeaders
  <2>1. /\ headers' = [dataoff |-> Core!elf_buflen(kclist), areas |-> kclist,
                       steady |-> kclist \cap online]
        /\ page' = NIL /\ read.left = 0
        /\ UNCHANGED <<online, missed, kclist, place, seen, read>>
    BY <1>2 DEF Core!ReadHeaders
  <2>2. Core!elf_buflen(kclist) \in Int /\ Core!elf_buflen(kclist)' = Core!elf_buflen(kclist)
    BY <2>1, Buflen DEF KcoreBounds, Core!elf_buflen
  <2> QED  BY <1>k, <2>1, <2>2
<1>3. CASE Core!ReadPage
  <2>1. PICK v \in {read.start, ZERO} :
           /\ read.start \in kclist \cap online => v = read.start
           /\ page' = <<read.fpos, v>>
    BY <1>3 DEF Core!ReadPage
  <2>2. /\ read.left > 0
        /\ read' = [fpos |-> read.fpos + 1, start |-> read.start + 1, left |-> read.left - 1]
        /\ UNCHANGED <<online, missed, kclist, place, seen, headers, shifted>>
    BY <1>3 DEF Core!ReadPage
  <2>3. ReaderTypeOK' /\ HeadersKnown' /\ ReadPlaced'
    BY <2>2 DEF Core!elf_buflen
  <2>4. Core!AreasRead'
    <3> SUFFICES ASSUME headers # NIL, ~shifted, NEW c \in headers.areas,
                        read.fpos = headers.dataoff + c
                 PROVE  /\ v \in {c, ZERO, NUL}
                        /\ c \in headers.steady /\ ~missed => v = c
      BY <2>1, <2>2
    <3>1. headers \in [dataoff : Int, areas : SUBSET RamBlocks, steady : SUBSET RamBlocks]
      OBVIOUS
    <3>2. read.start = read.fpos - headers.dataoff
      BY <2>2
    <3> HIDE DEF ReaderInv, ReaderTypeOK, HeadersKnown, ReadPlaced, Core!AreasRead
    <3>3. c \in Int
      BY <3>1 DEF KcoreBounds
    <3>4. read.start = c
      BY <3>1, <3>2, <3>3
    <3> USE DEF ReaderInv, ReaderTypeOK, HeadersKnown, ReadPlaced, Core!AreasRead
    <3> QED  BY <2>1, <3>4
  <2> QED  BY <1>k, <2>3, <2>4
<1>4. CASE Core!ReadFaults
  BY <1>4, <1>k DEF Core!ReadFaults, Core!elf_buflen
<1>5. ASSUME NEW o \in Callers, \/ Core!Open(o) \/ Core!WalkFails(o) \/ Core!Close(o) \/ Core!LoadInodeSize(o)
                                \/ Core!CompareSize(o) \/ Core!LoadSize(o) \/ Core!StoreSize(o)
      PROVE  ReaderInv'
  <2>1. /\ UNCHANGED <<online, missed, kclist, read, headers, shifted, page>>
        /\ \A p \in Callers : place'[p] = "walked" => place[p] = "walked" /\ seen'[p].ram = seen[p].ram
    BY <1>5 DEF Core!Open, Core!WalkFails, Core!Close, Core!LoadInodeSize, Core!CompareSize,
         Core!LoadSize, Core!StoreSize, KcoreInv, KcoreLabels
  <2> QED  BY <1>k, <2>1 DEF Core!elf_buflen
<1>6. ASSUME NEW o \in Callers, Core!Walk(o) PROVE ReaderInv'
  <2>1. /\ UNCHANGED <<online, missed, kclist, read, headers, shifted, page>>
        /\ \A p \in Callers : place'[p] = "walked" =>
              seen'[p].ram = online \/ (place[p] = "walked" /\ seen'[p].ram = seen[p].ram)
        /\ online \in (SUBSET RamBlocks) \ {{}}
    BY <1>6 DEF Core!Walk, KcoreInv
  <2> QED  BY <1>k, <2>1 DEF Core!elf_buflen
<1>7. ASSUME NEW o \in Callers, Core!Update(o) PROVE ReaderInv'
  <2>1. /\ kclist' = IF kcore_need_update THEN seen[o].ram ELSE kclist
        /\ shifted' = (shifted \/ Core!elf_buflen(kclist') # Core!elf_buflen(kclist))
        /\ UNCHANGED <<online, missed, read, headers, page>>
        /\ place[o] = "walked"
        /\ \A p \in Callers : place'[p] = "walked" => place[p] = "walked" /\ seen'[p] = seen[p]
    BY <1>7 DEF Core!Update, KcoreInv, KcoreLabels
  <2>2. Core!elf_buflen(kclist)' = Core!elf_buflen(kclist')
    BY DEF Core!elf_buflen
  <2>3. ~missed => seen[o].ram = online
    BY <2>1 DEF KcoreInv
  <2>4. kclist' \in (SUBSET RamBlocks) \ {{}}
    BY <2>1
  <2>5. HeadersKnown'
    BY <2>1, <2>2, <2>3
  <2>6. ReaderTypeOK' /\ ReadPlaced' /\ Core!AreasRead'
    BY <2>1, <2>4
  <2> QED  BY <1>k, <2>5, <2>6
<1>8. CASE UNCHANGED Core!kcoreVars
  BY <1>8, <1>k DEF Core!kcoreVars, Core!elf_buflen
<1> QED  BY <1>a, <1>1, <1>2, <1>3, <1>4, <1>5, <1>6, <1>7, <1>8 DEF Core!KcoreNext

\* It holds when nobody has opened the file, ...
LEMMA CoreBegins == Core!KcoreInit => ReaderInv
<1> SUFFICES ASSUME Core!KcoreInit PROVE ReaderInv
  OBVIOUS
<1>1. KcoreInv
  BY DEF Core!KcoreInit, KcoreInv, SizesKnown, KcoreLabels, Core!Unseen
<1>2. ReaderTypeOK
  BY DEF Core!KcoreInit, ReaderTypeOK
<1>3. HeadersKnown /\ ReadPlaced /\ Core!AreasRead
  BY DEF Core!KcoreInit, HeadersKnown, ReadPlaced, Core!AreasRead
<1> QED  BY <1>1, <1>2, <1>3 DEF ReaderInv

\* For any memory and any openers: kclist follows the memory, and after an opening that met
\* no other one the inode has the size of the entry (AreasKnown); and a read of an area that
\* the headers announced gives its contents, zeros where it has gone, never those of another
\* (AreasRead), if the headers have not grown or shrunk meanwhile.
THEOREM KcoreRead == Core!KcoreInit /\ [][Core!KcoreNext]_(Core!kcoreVars) => [](Core!AreasKnown /\ Core!AreasRead)
<1>1. ReaderInv => Core!AreasKnown /\ Core!AreasRead
  BY DEF ReaderInv, KcoreInv, SizesKnown, Core!AreasKnown
<1> QED  BY ProgramBounds, <1>1, CoreBegins, ReaderStep, PTL

\* What the fold over ranges of RAM keeps: for each set of places, the list that the
\* ranges at these places make, the last of them added to the list of the others.
Listed(h, rams, D) ==
    h = [s \in D |-> IF s = {} THEN {}
                     ELSE Core!get_sparsemem_vmemmap_info(h[s \ {Core!Max(s)}],
                                                          rams[Core!Max(s)])]

\* The last of some places.
LEMMA LastPlace ==
    ASSUME NEW n \in Nat, NEW s \in SUBSET (1 .. n), s # {}
    PROVE  Core!Max(s) \in s /\ \A j \in s : j <= Core!Max(s)
<1> DEFINE Left == {n - i : i \in s}
<1>0. \A i \in s : i \in Nat /\ n - i \in Nat
  <2>1. \A i \in s : i \in 1 .. n
    OBVIOUS
  <2> QED  BY <2>1
<1>1. Left \in SUBSET Nat /\ Left # {}
  BY <1>0
<1> HIDE DEF Left
<1>2. PICK d \in Left : \A e \in Left : d <= e
  BY <1>1, LeastPlace, Zenon
<1> USE DEF Left
<1>3. PICK i \in s : d = n - i
  BY <1>2
<1>4. \A j \in s : n - j \in Left
  OBVIOUS
<1>5. ASSUME NEW j \in s PROVE i >= j
  <2>1. n - i <= n - j
    BY <1>2, <1>3, <1>4
  <2>2. i \in Nat /\ j \in Nat
    BY <1>0
  <2> QED  BY <2>1, <2>2
<1>6. \E m \in s : \A j \in s : m >= j
  BY <1>5
<1>7. Core!Max(s) \in s /\ \A j \in s : Core!Max(s) >= j
  BY <1>6 DEF Core!Max
<1> QED  BY <1>7

\* There is such a table, whatever the ranges.
LEMMA ListsExist ==
    ASSUME NEW rams, NEW n \in Nat
    PROVE  \E h : Listed(h, rams, SUBSET (1 .. n))
<1> DEFINE Add(l, i) == Core!get_sparsemem_vmemmap_info(l, rams[i])
           Has(k) == \E h : Listed(h, rams, SUBSET (1 .. k))
           Bad == {k \in Nat : ~Has(k)}
<1>1. Has(0)
  <2> DEFINE z == [s \in SUBSET (1 .. 0) |-> {}]
  <2>1. \A s \in SUBSET (1 .. 0) : s = {}
    OBVIOUS
  <2>2. z = [s \in SUBSET (1 .. 0) |-> IF s = {} THEN {} ELSE Add(z[s \ {Core!Max(s)}], Core!Max(s))]
    <3> HIDE DEF Add
    <3> QED  BY <2>1
  <2>3. Listed(z, rams, SUBSET (1 .. 0))
    <3> HIDE DEF z
    <3> QED  BY <2>2 DEF Listed
  <2> QED  BY <2>3
<1>2. ASSUME NEW k \in Nat, Has(k) PROVE Has(k + 1)
  <2>1. PICK h : Listed(h, rams, SUBSET (1 .. k))
    BY <1>2
  <2> DEFINE D == SUBSET (1 .. k + 1)
             g == [s \in D |-> IF s = {} THEN {} ELSE Add(h[s \ {Core!Max(s)}], Core!Max(s))]
  <2>2. ASSUME NEW s \in D, s # {}
        PROVE  s \ {Core!Max(s)} \in SUBSET (1 .. k) /\ s \ {Core!Max(s)} \in D
    <3>1. Core!Max(s) \in s /\ \A j \in s : j <= Core!Max(s)
      <4>1. s \in SUBSET (1 .. (k + 1)) /\ k + 1 \in Nat
        OBVIOUS
      <4> QED  BY <2>2, <4>1, LastPlace
    <3>2. ASSUME NEW j \in s \ {Core!Max(s)} PROVE j \in 1 .. k
      <4>1. j \in 1 .. k + 1 /\ Core!Max(s) \in 1 .. k + 1 /\ j <= Core!Max(s) /\ j # Core!Max(s)
        BY <3>1, <3>2
      <4> QED  BY <4>1
    <3> QED  BY <3>2
  <2>3. ASSUME NEW s \in SUBSET (1 .. k)
        PROVE  s \in D /\ h[s] = (IF s = {} THEN {} ELSE Add(h[s \ {Core!Max(s)}], Core!Max(s)))
    <3>1. s \in D
      OBVIOUS
    <3> HIDE DEF D
    <3> QED  BY <2>1, <3>1 DEF Listed
  <2>4. \A s \in SUBSET (1 .. k) : g[s] = h[s]
    <3> HIDE DEF Add
    <3> QED  BY <2>3
  <2>5. ASSUME NEW s \in D
        PROVE  g[s] = IF s = {} THEN {} ELSE Add(g[s \ {Core!Max(s)}], Core!Max(s))
    <3> HIDE DEF Add
    <3> QED  BY <2>2, <2>4
  <2>6. g = [s \in D |-> g[s]]
    OBVIOUS
  <2> HIDE DEF g, D
  <2>7. Listed(g, rams, D)
    BY <2>5, <2>6 DEF Listed
  <2> QED  BY <2>7 DEF D
<1>3. Bad = {}
  <2> SUFFICES ASSUME Bad # {} PROVE FALSE
    OBVIOUS
  <2>1. Bad \in SUBSET Nat
    OBVIOUS
  <2>2. PICK i \in Bad : \A j \in Bad : i <= j
    <3> HIDE DEF Bad
    <3> QED  BY <2>1, LeastPlace, Zenon
  <2> HIDE DEF Has
  <2>3. i \in Nat /\ i # 0
    BY <1>1
  <2>4. i - 1 \in Nat /\ i - 1 \notin Bad
    BY <2>2, <2>3
  <2>5. Has((i - 1) + 1)
    BY <2>4, <1>2
  <2> QED  BY <2>3, <2>5
<1> QED  BY <1>3

\* The library's fold is such a table: the list of the first k ranges is that of the
\* first k - 1, with what the k-th one adds.
LEMMA VmemmapsInOrder ==
    ASSUME NEW rams, NEW n \in Nat, DOMAIN rams = 1 .. n
    PROVE  \E l : /\ l[0] = {} /\ Core!Vmemmaps(rams) = l[n]
                  /\ \A k \in 1 .. n : l[k] = Core!get_sparsemem_vmemmap_info(l[k - 1], rams[k])
<1> DEFINE D == SUBSET (1 .. n)
           h == CHOOSE f : Listed(f, rams, D)
           l == [k \in 0 .. n |-> h[1 .. k]]
<1>1. Core!Vmemmaps(rams) = h[1 .. n]
  <2>1. Core!Vmemmaps(rams) =
            LET iter[s \in D] ==
                    IF s = {} THEN {}
                    ELSE Core!get_sparsemem_vmemmap_info(iter[s \ {Core!Max(s)}], rams[Core!Max(s)])
            IN  iter[1 .. n]
    BY DEF Core!Vmemmaps, Core!FoldLeft, Core!MapThenFoldSet
  <2> QED  BY <2>1, Zenon DEF Listed
<1>2. Listed(h, rams, D)
  BY ListsExist
<1> HIDE DEF h
<1>3. l[0] = {}
  <2>1. 1 .. 0 = {} /\ {} \in D
    OBVIOUS
  <2>2. h[{}] = {}
    <3> HIDE DEF D
    <3> QED  BY <1>2, <2>1 DEF Listed
  <2> QED  BY <2>1, <2>2
<1>4. ASSUME NEW k \in 1 .. n
      PROVE  l[k] = Core!get_sparsemem_vmemmap_info(l[k - 1], rams[k])
  <2>1. k \in Nat /\ k \in 1 .. k /\ 1 .. k # {} /\ 1 .. k \in SUBSET (1 .. k)
    OBVIOUS
  <2>0. 1 .. k \in D
    <3>1. \A i \in 1 .. k : i \in 1 .. n
      OBVIOUS
    <3> QED  BY <3>1
  <2>2. Core!Max(1 .. k) = k
    <3>1. Core!Max(1 .. k) \in 1 .. k /\ k <= Core!Max(1 .. k)
      BY <2>1, LastPlace
    <3> QED  BY <3>1
  <2>3. h[1 .. k] = Core!get_sparsemem_vmemmap_info(h[(1 .. k) \ {k}], rams[k])
    <3> HIDE DEF D
    <3> QED  BY <1>2, <2>1, <2>2, <2>0 DEF Listed
  <2>4. (1 .. k) \ {k} = 1 .. k - 1 /\ k \in 0 .. n /\ k - 1 \in 0 .. n
    OBVIOUS
  <2> QED  BY <2>3, <2>4
<1> HIDE DEF l
<1>5. Core!Vmemmaps(rams) = l[n]
  BY <1>1 DEF l
<1> QED  BY <1>3, <1>4, <1>5

\* Ranges of page frames, in order.
Laid(rams, n) ==
    /\ DOMAIN rams = 1 .. n
    /\ \A i \in 1 .. n : rams[i] \in Nat \X Nat /\ rams[i][1] < rams[i][2]
    /\ \A i \in 2 .. n : rams[i - 1][2] <= rams[i][1]

\* The pages of a range's struct pages: there is one, and the next range's begin behind
\* them or in the last of them.
LEMMA StructPages ==
    ASSUME NEW r \in Nat \X Nat, r[1] < r[2]
    PROVE  /\ Core!FirstOf(r) \in Nat /\ Core!BehindOf(r) \in Nat
           /\ Core!FirstOf(r) < Core!BehindOf(r)
           /\ \A s \in Nat \X Nat : r[2] <= s[1] =>
                 /\ Core!FirstOf(r) <= Core!FirstOf(s)
                 /\ Core!BehindOf(r) <= Core!FirstOf(s) + 1
<1>1. \A a \in Nat : a \div 3 \in Nat /\ 3 * (a \div 3) <= a /\ a < 3 * (a \div 3) + 3
  OBVIOUS
<1>2. Core!FirstOf(r) = r[1] \div 3 /\ Core!BehindOf(r) = (r[2] + 2) \div 3
  BY DEF Core!FirstOf, Core!BehindOf, Core!STRUCTS
<1>3. r[1] \in Nat /\ r[2] \in Nat /\ r[2] + 2 \in Nat
  OBVIOUS
<1>4. ASSUME NEW s \in Nat \X Nat, r[2] <= s[1]
      PROVE  /\ Core!FirstOf(r) <= Core!FirstOf(s)
             /\ Core!BehindOf(r) <= Core!FirstOf(s) + 1
  <2>1. Core!FirstOf(s) = s[1] \div 3 /\ s[1] \in Nat
    BY DEF Core!FirstOf, Core!STRUCTS
  <2> QED  BY <1>1, <1>2, <1>3, <1>4, <2>1
<1> QED  BY <1>1, <1>2, <1>3, <1>4

\* What is so of the list l after the first k ranges.
Fitting(l, rams, k) ==
    /\ \A t \in l : /\ t \in Nat \X Nat /\ t[1] < t[2]
                    /\ k > 0 /\ t[2] <= Core!BehindOf(rams[k])
    /\ \A t, u \in l : t # u => t[2] <= u[1] \/ u[2] <= t[1]
    /\ \A i \in 1 .. k :
          \/ \A p \in Core!Struct(rams[i]) : \E t \in l : p \in t[1] .. t[2] - 1
          \/ i > 1 /\ Core!FirstOf(rams[i]) \in Core!Struct(rams[i - 1])

\* One more range keeps it.
LEMMA OneMoreRange ==
    ASSUME NEW rams, NEW n \in Nat, Laid(rams, n), NEW k \in 1 .. n,
           NEW l, Fitting(l, rams, k - 1)
    PROVE  Fitting(Core!get_sparsemem_vmemmap_info(l, rams[k]), rams, k)
<1> DEFINE F == Core!FirstOf(rams[k])
           B == Core!BehindOf(rams[k])
           P == Core!BehindOf(rams[k - 1])
           A == Core!FirstOf(rams[k - 1])
           over == {t[1] : t \in {u \in l : F < u[2] /\ B > u[1]}}
           end == Core!Min({B} \cup over)
           m == Core!get_sparsemem_vmemmap_info(l, rams[k])
<1>1. m = IF F < end THEN l \cup {<<F, end>>} ELSE l
  BY DEF Core!get_sparsemem_vmemmap_info
<1>2. F \in Nat /\ B \in Nat /\ F < B
  BY StructPages DEF Laid
<1>3. k > 1 => A \in Nat /\ P \in Nat /\ A <= F /\ P <= F + 1
  <2> SUFFICES ASSUME k > 1 PROVE A \in Nat /\ P \in Nat /\ A <= F /\ P <= F + 1
    OBVIOUS
  <2>1. k - 1 \in 1 .. n /\ k \in 2 .. n
    OBVIOUS
  <2>2. /\ rams[k - 1] \in Nat \X Nat /\ rams[k - 1][1] < rams[k - 1][2]
        /\ rams[k] \in Nat \X Nat /\ rams[k - 1][2] <= rams[k][1]
    BY <2>1 DEF Laid
  <2> QED  BY <2>2, StructPages
<1>4. \A t \in l : /\ t \in Nat \X Nat /\ t[1] \in Nat /\ t[2] \in Nat /\ t[1] < t[2]
                   /\ k > 1 /\ t[2] <= P
  BY DEF Fitting
<1> HIDE DEF F, B, P, A
<1>5. over \subseteq Nat
  BY <1>4
<1>6. end \in {B} \cup over /\ \A e \in {B} \cup over : end <= e
  <2>1. {B} \cup over \in SUBSET Nat /\ {B} \cup over # {}
    BY <1>2, <1>5
  <2> HIDE DEF over
  <2>2. \E e \in {B} \cup over : \A d \in {B} \cup over : e <= d
    BY <2>1, LeastPlace, Zenon
  <2> QED  BY <2>2 DEF Core!Min
<1>7. end \in Nat
  BY <1>2, <1>5, <1>6
<1> HIDE DEF end, m
<1>8. CASE \E t \in l : F < t[2]
  <2>1. PICK t \in l : F < t[2]
    BY <1>8
  <2>2. t[1] <= F /\ P = F + 1 /\ k > 1 /\ t[1] \in Nat
    BY <2>1, <1>2, <1>3, <1>4
  <2>3. t[1] \in over
    BY <2>1, <2>2, <1>2
  <2>4. m = l
    BY <1>1, <1>2, <1>6, <1>7, <2>2, <2>3
  <2>5. F \in Core!Struct(rams[k - 1])
    BY <1>2, <1>3, <2>2 DEF Core!Struct, A, P
  <2>6. \A u \in m : /\ u \in Nat \X Nat /\ u[1] < u[2] /\ u[2] <= B
    BY <2>2, <2>4, <1>2, <1>3, <1>4
  <2>7. ASSUME NEW i \in 1 .. k
        PROVE  \/ \A p \in Core!Struct(rams[i]) : \E u \in m : p \in u[1] .. u[2] - 1
               \/ i > 1 /\ Core!FirstOf(rams[i]) \in Core!Struct(rams[i - 1])
    <3>1. CASE i = k
      BY <3>1, <2>2, <2>5 DEF F
    <3>2. CASE i \in 1 .. k - 1
      BY <3>2, <2>4 DEF Fitting
    <3> QED  BY <3>1, <3>2
  <2>8. \A u, w \in m : u # w => u[2] <= w[1] \/ w[2] <= u[1]
    BY <2>4 DEF Fitting
  <2> QED  BY <2>6, <2>7, <2>8 DEF Fitting, m, B
<1>9. CASE ~ \E t \in l : F < t[2]
  <2>1. over = {} /\ \A t \in l : t[2] <= F
    BY <1>2, <1>4, <1>9
  <2>2. end = B /\ m = l \cup {<<F, B>>}
    BY <1>1, <1>2, <1>6, <2>1
  <2>3. ASSUME NEW u \in m
        PROVE  u \in Nat \X Nat /\ u[1] < u[2] /\ u[2] <= B
    BY <2>1, <2>2, <1>2, <1>4
  <2>4. ASSUME NEW u \in m, NEW w \in m, u # w
        PROVE  u[2] <= w[1] \/ w[2] <= u[1]
    <3>1. CASE u \in l /\ w \in l
      BY <3>1, <2>4 DEF Fitting
    <3>2. CASE u = <<F, B>> \/ w = <<F, B>>
      BY <3>2, <2>1, <2>2, <2>4
    <3> QED  BY <3>1, <3>2, <2>2
  <2>5. ASSUME NEW i \in 1 .. k
        PROVE  \/ \A p \in Core!Struct(rams[i]) : \E u \in m : p \in u[1] .. u[2] - 1
               \/ i > 1 /\ Core!FirstOf(rams[i]) \in Core!Struct(rams[i - 1])
    <3>1. CASE i = k
      <4>1. Core!Struct(rams[k]) = F .. B - 1 /\ <<F, B>> \in m
        BY <2>2 DEF Core!Struct, F, B
      <4> QED  BY <3>1, <4>1
    <3>2. CASE i \in 1 .. k - 1
      <4>1. l \subseteq m
        BY <2>2
      <4> QED  BY <3>2, <4>1 DEF Fitting
    <3> QED  BY <3>1, <3>2
  <2> QED  BY <2>3, <2>4, <2>5 DEF Fitting, m, B
<1> QED  BY <1>8, <1>9

\* So it is at the end, for any number of ranges.
LEMMA VmemmapsFit ==
    ASSUME NEW rams, NEW n \in Nat, Laid(rams, n)
    PROVE  Fitting(Core!Vmemmaps(rams), rams, n)
<1>1. PICK l : /\ l[0] = {} /\ Core!Vmemmaps(rams) = l[n]
               /\ \A k \in 1 .. n : l[k] = Core!get_sparsemem_vmemmap_info(l[k - 1], rams[k])
  BY VmemmapsInOrder DEF Laid
<1> DEFINE Bad == {k \in 0 .. n : ~Fitting(l[k], rams, k)}
<1>2. Fitting(l[0], rams, 0)
  BY <1>1 DEF Fitting
<1>3. ASSUME NEW k \in 1 .. n, Fitting(l[k - 1], rams, k - 1) PROVE Fitting(l[k], rams, k)
  BY <1>1, <1>3, OneMoreRange
<1>4. Bad = {}
  <2> SUFFICES ASSUME Bad # {} PROVE FALSE
    OBVIOUS
  <2>1. Bad \in SUBSET Nat
    OBVIOUS
  <2>2. PICK i \in Bad : \A j \in Bad : i <= j
    <3> HIDE DEF Bad
    <3> QED  BY <2>1, LeastPlace, Zenon
  <2>3. i \in 1 .. n
    BY <1>2
  <2>4. i - 1 \in 0 .. n /\ i - 1 \notin Bad
    BY <2>2, <2>3
  <2> QED  BY <2>3, <2>4, <1>3
<1>5. n \in 0 .. n /\ n \notin Bad
  BY <1>4
<1> QED  BY <1>1, <1>5

\* Any number of ranges of RAM, as many pages as there are: what the module says of
\* those up to three is so of all of them.
LEMMA VmemmapsAlwaysRight == Core!VmemmapsRight
<1> SUFFICES ASSUME NEW rams \in Core!Rams
             PROVE  LET list == Core!Vmemmaps(rams) IN
                      /\ \A t, u \in list : t # u => t[2] <= u[1] \/ u[2] <= t[1]
                      /\ \A i \in DOMAIN rams :
                            \/ \A p \in Core!Struct(rams[i]) : \E t \in list : p \in t[1] .. t[2] - 1
                            \/ i > 1 /\ Core!FirstOf(rams[i]) \in Core!Struct(rams[i - 1])
  BY DEF Core!VmemmapsRight
<1>1. PICK n \in 1 .. 3 : rams \in [1 .. n -> Core!Ranges]
  BY DEF Core!Rams
<1>2. Laid(rams, n)
  <2>1. ASSUME NEW i \in 1 .. n PROVE rams[i] \in Nat \X Nat /\ rams[i][1] < rams[i][2]
    BY <1>1 DEF Core!Ranges
  <2>2. ASSUME NEW i \in 2 .. n PROVE rams[i - 1][2] <= rams[i][1]
    BY <1>1 DEF Core!Rams
  <2> QED  BY <1>1, <2>1, <2>2 DEF Laid
<1>3. Fitting(Core!Vmemmaps(rams), rams, n) /\ DOMAIN rams = 1 .. n
  BY <1>1, <1>2, VmemmapsFit
<1> QED  BY <1>3 DEF Fitting
-----------------------------------------------------------------------------
(***************************************************************************)
(* vmcore.c: where the program headers say that memory and notes are, they *)
(* are read and mapped, for any sizes of a page, of a read and of a word.  *)
(***************************************************************************)
\* The slots that are its variables, but for stage.
notes       == x1
loads       == x2
balloon     == x3
elfclass    == x4
held        == x5
vmcore_list == x6
fpos        == x7
buflen      == x9
acc         == x10
shown       == x11
USE DEF notes, loads, balloon, elfclass, held, vmcore_list, fpos, buflen, acc, shown

\* What a fold from left to right keeps: for each set of places, what it has made of those,
\* the last of them after the others; what it does at a place is a function on V.
Folded(h, base, G, n) ==
    \A s \in SUBSET (1 .. n) :
        h[s] = IF s = {} THEN base ELSE G[Core!Max(s)][h[s \ {Core!Max(s)}]]

\* There is such a table.
LEMMA FoldExists ==
    ASSUME NEW n \in Nat, NEW V, NEW base \in V, NEW G, \A k \in 1 .. n : G[k] \in [V -> V]
    PROVE  \E h \in [SUBSET (1 .. n) -> V] : Folded(h, base, G, n)
<1> DEFINE Has(k) == \E h \in [SUBSET (1 .. k) -> V] : Folded(h, base, G, k)
           Bad == {k \in 0 .. n : ~Has(k)}
<1>1. Has(0)
  <2> DEFINE z == [s \in SUBSET (1 .. 0) |-> base]
  <2>1. \A s \in SUBSET (1 .. 0) : s = {}
    OBVIOUS
  <2>2. z \in [SUBSET (1 .. 0) -> V]
    OBVIOUS
  <2>3. Folded(z, base, G, 0)
    BY <2>1 DEF Folded
  <2> QED  BY <2>2, <2>3
<1>2. ASSUME NEW k \in 0 .. n - 1, Has(k) PROVE Has(k + 1)
  <2>1. PICK h \in [SUBSET (1 .. k) -> V] : Folded(h, base, G, k)
    BY <1>2
  <2> DEFINE D == SUBSET (1 .. (k + 1))
             g == [s \in D |-> IF s = {} THEN base ELSE G[Core!Max(s)][h[s \ {Core!Max(s)}]]]
  <2>2. ASSUME NEW s \in D, s # {}
        PROVE  /\ s \ {Core!Max(s)} \in SUBSET (1 .. k) /\ s \ {Core!Max(s)} \in D
               /\ Core!Max(s) \in 1 .. n
    <3>1. Core!Max(s) \in s /\ \A j \in s : j <= Core!Max(s)
      <4>1. s \in SUBSET (1 .. (k + 1)) /\ k + 1 \in Nat
        OBVIOUS
      <4> QED  BY <2>2, <4>1, LastPlace
    <3>2. ASSUME NEW j \in s \ {Core!Max(s)} PROVE j \in 1 .. k
      <4>1. j \in 1 .. (k + 1) /\ Core!Max(s) \in 1 .. (k + 1) /\ j <= Core!Max(s) /\ j # Core!Max(s)
        BY <3>1, <3>2
      <4> QED  BY <4>1
    <3>3. Core!Max(s) \in 1 .. (k + 1)
      BY <3>1
    <3>4. Core!Max(s) \in 1 .. n
      BY <3>3
    <3> QED  BY <3>2, <3>4
  <2>3. g \in [D -> V]
    <3>1. ASSUME NEW s \in D
          PROVE  (IF s = {} THEN base ELSE G[Core!Max(s)][h[s \ {Core!Max(s)}]]) \in V
      BY <2>2
    <3> HIDE DEF D
    <3> QED  BY <3>1
  <2>4. \A s \in SUBSET (1 .. k) : s \in D /\ g[s] = h[s]
    <3> SUFFICES ASSUME NEW s \in SUBSET (1 .. k) PROVE s \in D /\ g[s] = h[s]
      OBVIOUS
    <3>1. s \in D
      <4>1. \A j \in 1 .. k : j \in 1 .. (k + 1)
        OBVIOUS
      <4> QED  BY <4>1
    <3>2. h[s] = IF s = {} THEN base ELSE G[Core!Max(s)][h[s \ {Core!Max(s)}]]
      BY <2>1 DEF Folded
    <3> HIDE DEF D
    <3> QED  BY <3>1, <3>2
  <2>5. ASSUME NEW s \in D
        PROVE  g[s] = IF s = {} THEN base ELSE G[Core!Max(s)][g[s \ {Core!Max(s)}]]
    <3>1. g[s] = IF s = {} THEN base ELSE G[Core!Max(s)][h[s \ {Core!Max(s)}]]
      OBVIOUS
    <3> HIDE DEF g
    <3> QED  BY <2>2, <2>4, <3>1
  <2> HIDE DEF g
  <2>6. Folded(g, base, G, k + 1)
    BY <2>5 DEF Folded
  <2> QED  BY <2>3, <2>6
<1>3. Bad = {}
  <2> SUFFICES ASSUME Bad # {} PROVE FALSE
    OBVIOUS
  <2>1. Bad \in SUBSET Nat
    OBVIOUS
  <2>2. PICK i \in Bad : \A j \in Bad : i <= j
    <3> HIDE DEF Bad
    <3> QED  BY <2>1, LeastPlace, Zenon
  <2> HIDE DEF Has
  <2>3. i \in Nat /\ i # 0 /\ i <= n
    BY <1>1
  <2>4. i - 1 \in 0 .. n - 1 /\ i - 1 \notin Bad
    BY <2>2, <2>3
  <2>5. Has(i - 1)
    BY <2>3, <2>4
  <2>6. Has((i - 1) + 1)
    BY <2>4, <2>5, <1>2
  <2> QED  BY <2>3, <2>6
<1> QED  BY <1>3

\* The last of the first places.
LEMMA FirstPlaces ==
    ASSUME NEW n \in Nat, NEW k \in 1 .. n
    PROVE  /\ 1 .. k \in SUBSET (1 .. n) /\ 1 .. k # {} /\ Core!Max(1 .. k) = k
           /\ (1 .. k) \ {k} = 1 .. (k - 1)
<1>1. k \in Nat /\ k \in 1 .. k /\ 1 .. k # {} /\ 1 .. k \in SUBSET (1 .. k)
  OBVIOUS
<1>2. 1 .. k \in SUBSET (1 .. n)
  <2>1. \A i \in 1 .. k : i \in 1 .. n
    OBVIOUS
  <2> QED  BY <2>1
<1>3. Core!Max(1 .. k) = k
  <2>1. Core!Max(1 .. k) \in 1 .. k /\ k <= Core!Max(1 .. k)
    BY <1>1, LastPlace
  <2> QED  BY <2>1
<1>4. (1 .. k) \ {k} = 1 .. (k - 1)
  OBVIOUS
<1> QED  BY <1>1, <1>2, <1>3, <1>4

\* A sum is that of one element fewer and the last one.
LEMMA SumTable ==
    ASSUME NEW n \in Nat, NEW s \in [1 .. n -> Nat]
    PROVE  \E t \in [0 .. n -> Nat] : /\ t[0] = 0 /\ Vmcore!SumOf(s) = t[n]
                                      /\ \A k \in 1 .. n : t[k] = t[k - 1] + s[k]
<1> DEFINE G == [k \in 1 .. n |-> [a \in Nat |-> a + s[k]]]
           D == SUBSET (1 .. n)
           Sum(f) == f = [r \in D |-> IF r = {} THEN 0 ELSE f[r \ {Core!Max(r)}] + s[Core!Max(r)]]
           h == CHOOSE f : Sum(f)
           t == [k \in 0 .. n |-> h[1 .. k]]
<1>0. ASSUME NEW r \in D, r # {}
      PROVE  Core!Max(r) \in 1 .. n /\ r \ {Core!Max(r)} \in D
  BY <1>0, LastPlace
<1>1. PICK f \in [D -> Nat] : Folded(f, 0, G, n)
  <2>1. \A k \in 1 .. n : G[k] \in [Nat -> Nat]
    OBVIOUS
  <2> HIDE DEF G
  <2> QED  BY <2>1, FoldExists
<1>2. Sum(f)
  <2>1. ASSUME NEW r \in D
        PROVE  f[r] = IF r = {} THEN 0 ELSE f[r \ {Core!Max(r)}] + s[Core!Max(r)]
    <3>1. f[r] = IF r = {} THEN 0 ELSE G[Core!Max(r)][f[r \ {Core!Max(r)}]]
      BY <1>1 DEF Folded
    <3>2. r # {} => f[r \ {Core!Max(r)}] \in Nat /\ Core!Max(r) \in 1 .. n
      <4> HIDE DEF D
      <4> QED  BY <1>0, <1>1
    <3> QED  BY <3>1, <3>2
  <2>2. f = [r \in D |-> f[r]]
    OBVIOUS
  <2> HIDE DEF D
  <2> QED  BY <2>1, <2>2
<1>3. Vmcore!SumOf(s) = h[1 .. n]
  <2>1. \A r : Vmcore!Max(r) = Core!Max(r)
    BY DEF Vmcore!Max, Core!Max
  <2>2. DOMAIN s = 1 .. n
    OBVIOUS
  <2>3. Vmcore!SumOf(s) =
            LET iter[r \in SUBSET (DOMAIN s)] ==
                    IF r = {} THEN 0
                    ELSE iter[r \ {Vmcore!Max(r)}] + s[Vmcore!Max(r)]
            IN  iter[DOMAIN s]
    BY DEF Vmcore!SumOf, Vmcore!FoldLeft, Vmcore!MapThenFoldSet
  <2> QED  BY <2>1, <2>2, <2>3, Zenon
<1>4. Sum(h)
  <2> HIDE DEF Sum
  <2> QED  BY <1>2
<1>5. \A k \in 1 .. n : 1 .. k \in D /\ h[1 .. k] = h[1 .. (k - 1)] + s[k]
  <2> SUFFICES ASSUME NEW k \in 1 .. n
               PROVE  1 .. k \in D /\ h[1 .. k] = h[1 .. (k - 1)] + s[k]
    OBVIOUS
  <2>1. /\ 1 .. k \in D /\ 1 .. k # {} /\ Core!Max(1 .. k) = k
        /\ (1 .. k) \ {k} = 1 .. (k - 1)
    BY FirstPlaces
  <2> HIDE DEF D, h
  <2>2. h[1 .. k] = IF 1 .. k = {} THEN 0
                    ELSE h[(1 .. k) \ {Core!Max(1 .. k)}] + s[Core!Max(1 .. k)]
    BY <1>4, <2>1
  <2> QED  BY <2>1, <2>2
<1>6. h[1 .. 0] = 0
  <2>1. 1 .. 0 = {} /\ {} \in D
    OBVIOUS
  <2> HIDE DEF D, h
  <2> QED  BY <1>4, <2>1
<1> HIDE DEF h
<1>7. t[0] = 0 /\ Vmcore!SumOf(s) = t[n] /\ \A k \in 1 .. n : t[k] = t[k - 1] + s[k]
  BY <1>3, <1>5, <1>6
<1> DEFINE Odd == {k \in 0 .. n : t[k] \notin Nat}
<1>8. Odd = {}
  <2> SUFFICES ASSUME Odd # {} PROVE FALSE
    OBVIOUS
  <2> HIDE DEF t
  <2>1. Odd \in SUBSET Nat
    OBVIOUS
  <2>2. PICK k \in Odd : \A j \in Odd : k <= j
    <3> HIDE DEF Odd
    <3> QED  BY <2>1, LeastPlace, Zenon
  <2>3. k \in 1 .. n
    BY <1>7
  <2>4. k - 1 \in 0 .. n /\ k - 1 \notin Odd
    BY <2>2, <2>3
  <2>5. t[k - 1] \in Nat /\ s[k] \in Nat /\ t[k] = t[k - 1] + s[k]
    BY <1>7, <2>3, <2>4
  <2> QED  BY <2>5
<1>9. t \in [0 .. n -> Nat]
  <2> DEFINE f0 == [k \in 0 .. n |-> h[1 .. k]]
  <2>1. \A k \in 0 .. n : t[k] \in Nat
    <3> HIDE DEF t
    <3> QED  BY <1>8
  <2> QED  BY <2>1
<1> QED  BY <1>7, <1>9

\* One element more is that much more.
LEMMA SumOneMore ==
    ASSUME NEW n \in Nat \ {0}, NEW s \in [1 .. n -> Nat], NEW r \in [1 .. (n - 1) -> Nat],
           \A j \in 1 .. n - 1 : r[j] = s[j]
    PROVE  Vmcore!SumOf(s) = Vmcore!SumOf(r) + s[n]
<1>1. PICK t \in [0 .. n -> Nat] : /\ t[0] = 0 /\ Vmcore!SumOf(s) = t[n]
                                   /\ \A k \in 1 .. n : t[k] = t[k - 1] + s[k]
  BY SumTable
<1>2. n - 1 \in Nat
  OBVIOUS
<1>3. PICK u \in [0 .. (n - 1) -> Nat] :
          /\ u[0] = 0 /\ Vmcore!SumOf(r) = u[n - 1]
          /\ \A k \in 1 .. n - 1 : u[k] = u[k - 1] + r[k]
  <2>1. \E u \in [0 .. (n - 1) -> Nat] :
          /\ u[0] = 0 /\ Vmcore!SumOf(r) = u[n - 1]
          /\ \A k \in 1 .. n - 1 : u[k] = u[k - 1] + r[k]
    BY <1>2, SumTable
  <2> QED  BY <2>1
<1> DEFINE Odd == {k \in 0 .. n - 1 : t[k] # u[k]}
<1>4. Odd = {}
  <2> SUFFICES ASSUME Odd # {} PROVE FALSE
    OBVIOUS
  <2>1. Odd \in SUBSET Nat
    OBVIOUS
  <2>2. PICK k \in Odd : \A j \in Odd : k <= j
    <3> HIDE DEF Odd
    <3> QED  BY <2>1, LeastPlace, Zenon
  <2>3. k \in 1 .. n - 1
    BY <1>1, <1>3
  <2>4. k - 1 \in 0 .. n - 1 /\ k - 1 \notin Odd
    BY <2>2, <2>3
  <2>5. t[k - 1] = u[k - 1]
    BY <2>4
  <2>6. t[k] = t[k - 1] + s[k]
    BY <1>1, <2>3
  <2>7. u[k] = u[k - 1] + r[k] /\ r[k] = s[k]
    BY <1>3, <2>3
  <2> QED  BY <2>5, <2>6, <2>7
<1>5. n - 1 \in 0 .. n - 1 /\ n \in 1 .. n
  OBVIOUS
<1>6. t[n - 1] = u[n - 1]
  BY <1>4, <1>5
<1>7. t[n] = t[n - 1] + s[n]
  BY <1>1, <1>5
<1> QED  BY <1>1, <1>3, <1>6, <1>7

\* A sum is a number.
LEMMA SumTyped ==
    ASSUME NEW n \in Nat, NEW s \in [1 .. n -> Nat]
    PROVE  Vmcore!SumOf(s) \in Nat
<1>1. PICK t \in [0 .. n -> Nat] : Vmcore!SumOf(s) = t[n]
  BY SumTable
<1> QED  BY <1>1

\* What is in a page.
LEMMA Pages ==
    ASSUME NEW p \in Nat \ {0}, NEW n \in Nat
    PROVE  /\ n \div p \in Nat /\ n % p \in 0 .. p - 1
           /\ (n \div p) * p \in Nat /\ n = (n \div p) * p + (n % p)
BY Z3

\* More times more is more.
LEMMA Times ==
    ASSUME NEW p \in Nat, NEW a \in Int, NEW b \in Int, a <= b
    PROVE  a * p \in Int /\ b * p \in Int /\ a * p <= b * p
BY Z3

\* The page of a byte of it.
LEMMA InPage ==
    ASSUME NEW p \in Nat \ {0}, NEW q \in Nat, NEW r \in 0 .. p - 1
    PROVE  q * p \in Nat /\ (q * p + r) \div p = q
<1>1. q * p \in Nat
  BY Z3
<1> DEFINE m == q * p + r
           d == m \div p
           e == m % p
<1>2. m \in Nat
  BY <1>1
<1>3. d \in Nat /\ e \in 0 .. p - 1 /\ d * p \in Nat /\ m = d * p + e
  <2> HIDE DEF m
  <2> QED  BY <1>2, Pages
<1> HIDE DEF d, e
<1>4. ~(d <= q - 1)
  <2> SUFFICES ASSUME d <= q - 1 PROVE FALSE
    OBVIOUS
  <2>1. d + 1 \in Int /\ d + 1 <= q
    BY <1>3
  <2>2. (d + 1) * p <= q * p
    BY <2>1, Times
  <2>3. (d + 1) * p = d * p + p
    BY <1>3, Z3
  <2> QED  BY <1>1, <1>3, <2>2, <2>3
<1>5. ~(q + 1 <= d)
  <2> SUFFICES ASSUME q + 1 <= d PROVE FALSE
    OBVIOUS
  <2>1. (q + 1) * p <= d * p
    BY <1>3, Times
  <2>2. (q + 1) * p = q * p + p
    BY Z3
  <2> QED  BY <1>1, <1>3, <2>1, <2>2
<1>6. d = q
  BY <1>3, <1>4, <1>5
<1> QED  BY <1>1, <1>6 DEF d

\* What is rounded to pages.
LEMMA Rounded ==
    ASSUME PAGE_SIZE \in Nat \ {0}, NEW n \in Nat
    PROVE  /\ Vmcore!RoundDown(n) \in Nat /\ Vmcore!RoundUp(n) \in Nat
           /\ Vmcore!RoundDown(n) <= n /\ n <= Vmcore!RoundUp(n)
<1>1. n + PAGE_SIZE - 1 \in Nat
  OBVIOUS
<1>2. /\ (n \div PAGE_SIZE) * PAGE_SIZE \in Nat /\ n % PAGE_SIZE \in 0 .. PAGE_SIZE - 1
      /\ n = (n \div PAGE_SIZE) * PAGE_SIZE + (n % PAGE_SIZE)
  BY Pages
<1> DEFINE u == n + PAGE_SIZE - 1
<1>3. /\ (u \div PAGE_SIZE) * PAGE_SIZE \in Nat /\ u % PAGE_SIZE \in 0 .. PAGE_SIZE - 1
      /\ u = (u \div PAGE_SIZE) * PAGE_SIZE + (u % PAGE_SIZE)
  BY <1>1, Pages
<1>4. Vmcore!RoundDown(n) \in Nat /\ Vmcore!RoundDown(n) <= n
  BY <1>2 DEF Vmcore!RoundDown
<1>5. Vmcore!RoundUp(n) = (u \div PAGE_SIZE) * PAGE_SIZE
  BY DEF Vmcore!RoundDown, Vmcore!RoundUp
<1>6. Vmcore!RoundUp(n) \in Nat /\ n <= Vmcore!RoundUp(n)
  BY <1>3, <1>5
<1> QED  BY <1>4, <1>6

\* What the ELF headers may say: sizes of notes and pieces of memory, as many as there are.
DumpNotes == [sizes : Seq(Nat), room : Nat]
DumpLoads == [paddr : Nat, memsz : Nat]
DumpTyped == /\ notes \in Seq(DumpNotes) /\ notes # <<>> /\ loads \in Seq(DumpLoads)
             /\ elfclass \in {32, 64}

\* The greatest of some numbers, none greater than another number.
LEMMA GreatestFitting ==
    ASSUME NEW r \in Nat, NEW S \in SUBSET (0 .. r), S # {}
    PROVE  Vmcore!Max(S) \in S
<1>1. IsFiniteSet(S) /\ S \subseteq Int
  <2>1. IsFiniteSet(0 .. r)
    BY FS_Interval
  <2>2. IsFiniteSet(S)
    BY <2>1, FS_Subset
  <2> QED  BY <2>2
<1>2. \E m \in S : \A j \in S : j <= m
  BY <1>1, GreatestNumber
<1>3. \E m \in S : \A j \in S : m >= j
  <2>1. \A j \in S : j \in Int
    BY <1>1
  <2> QED  BY <1>2, <2>1
<1> QED  BY <1>3 DEF Vmcore!Max

\* The notes that fit have a size.
LEMMA RealSizes ==
    ASSUME NEW n \in DumpNotes
    PROVE  Vmcore!RealSize(n) \in Nat
<1> DEFINE All == {Vmcore!SumOf(SubSeq(n.sizes, 1, k)) : k \in 0 .. Len(n.sizes)}
<1>1. n.sizes \in Seq(Nat) /\ n.room \in Nat
  BY DEF DumpNotes
<1>2. ASSUME NEW k \in 0 .. Len(n.sizes)
      PROVE  Vmcore!SumOf(SubSeq(n.sizes, 1, k)) \in Nat
  <2>1. SubSeq(n.sizes, 1, k) \in [1 .. k -> Nat] /\ k \in Nat
    <3>1. k \in Nat /\ \A i \in 1 .. k : n.sizes[i] \in Nat
      <4>1. Len(n.sizes) \in Nat /\ \A i \in 1 .. Len(n.sizes) : n.sizes[i] \in Nat
        BY <1>1
      <4> QED  BY <4>1
    <3>2. SubSeq(n.sizes, 1, k) = [i \in 1 .. k |-> n.sizes[i]]
      BY <1>1, <3>1
    <3> QED  BY <3>1, <3>2
  <2> QED  BY <2>1, SumTyped
<1>3. Vmcore!SumOf(SubSeq(n.sizes, 1, 0)) = 0
  <2>1. SubSeq(n.sizes, 1, 0) \in [1 .. 0 -> Nat] /\ 0 \in Nat
    BY <1>1
  <2>2. PICK t \in [0 .. 0 -> Nat] : t[0] = 0 /\ Vmcore!SumOf(SubSeq(n.sizes, 1, 0)) = t[0]
    BY <2>1, SumTable
  <2> QED  BY <2>2
<1>4. 0 \in Vmcore!Fitting(n) /\ Vmcore!Fitting(n) \in SUBSET (0 .. n.room)
  <2>1. Vmcore!Fitting(n) = {x \in All : x <= n.room}
    BY DEF Vmcore!Fitting
  <2>2. 0 \in 0 .. Len(n.sizes)
    BY <1>1
  <2>3. 0 \in All
    BY <1>3, <2>2
  <2>4. \A x \in All : x \in Nat
    BY <1>2
  <2> HIDE DEF All
  <2> QED  BY <1>1, <2>1, <2>3, <2>4
<1>5. Vmcore!RealSize(n) \in Vmcore!Fitting(n)
  BY <1>1, <1>4, GreatestFitting DEF Vmcore!RealSize
<1> QED  BY <1>1, <1>4, <1>5

\* So have the notes together.
LEMMA NotesSized ==
    ASSUME DumpTyped
    PROVE  Vmcore!sz_ptnote \in Nat
<1> DEFINE n == Len(notes)
           s == [i \in 1 .. n |-> Vmcore!RealSize(notes[i])]
<1>1. n \in Nat /\ DOMAIN notes = 1 .. n /\ \A i \in 1 .. n : notes[i] \in DumpNotes
  BY DEF DumpTyped
<1>2. s \in [1 .. n -> Nat]
  BY <1>1, RealSizes
<1>3. Vmcore!SumOf(s) \in Nat
  <2> HIDE DEF s, n
  <2> QED  BY <1>1, <1>2, SumTyped
<1> QED  BY <1>1, <1>3 DEF Vmcore!sz_ptnote

\* Where the headers and the notes are.
LEMMA HeadersPlaced ==
    ASSUME DumpBounds, DumpTyped
    PROVE  /\ Vmcore!headers_sz \in Nat /\ Vmcore!NoteOffset = Vmcore!headers_sz
           /\ Vmcore!notes_sz \in Nat /\ Vmcore!sz_ptnote <= Vmcore!notes_sz
           /\ Vmcore!vmcore_off = Vmcore!headers_sz + Vmcore!notes_sz
<1> DEFINE n == Vmcore!EHDR + Vmcore!phnum * Vmcore!PHDR - (Len(notes) - 1) * Vmcore!PHDR
           m == Vmcore!EHDR + (Vmcore!phnum - Len(notes) + 1) * Vmcore!PHDR
<1>1. Len(notes) \in Nat /\ Len(loads) \in Nat
  BY DEF DumpTyped
<1>2. n = 2 + Len(loads) /\ m = 2 + Len(loads)
  BY <1>1 DEF Vmcore!EHDR, Vmcore!PHDR, Vmcore!phnum
<1>3. n \in Nat /\ m = n
  BY <1>1, <1>2
<1> HIDE DEF n, m
<1>4. Vmcore!headers_sz = Vmcore!RoundUp(n) /\ Vmcore!NoteOffset = Vmcore!RoundUp(m)
  BY DEF n, m, Vmcore!headers_sz, Vmcore!NoteOffset
<1>5. Vmcore!RoundUp(n) \in Nat
  BY <1>3, Rounded DEF DumpBounds
<1>6. /\ Vmcore!RoundUp(Vmcore!sz_ptnote) \in Nat
      /\ Vmcore!sz_ptnote <= Vmcore!RoundUp(Vmcore!sz_ptnote)
  BY NotesSized, Rounded DEF DumpBounds
<1> QED  BY <1>3, <1>4, <1>5, <1>6 DEF Vmcore!notes_sz, Vmcore!vmcore_off

\* Each piece of memory has a place of its own, one after another.
LEMMA MemoryPlaced ==
    ASSUME DumpBounds, DumpTyped, NEW i \in DOMAIN loads
    PROVE  /\ Vmcore!Start(loads[i]) \in Nat /\ Vmcore!Size(loads[i]) \in Nat
           /\ loads[i].paddr \in Nat /\ loads[i].memsz \in Nat
           /\ Vmcore!Start(loads[i]) <= loads[i].paddr
           /\ loads[i].paddr + loads[i].memsz <= Vmcore!Start(loads[i]) + Vmcore!Size(loads[i])
<1> DEFINE a == loads[i].paddr
           b == loads[i].paddr + loads[i].memsz
<1>1. a \in Nat /\ loads[i].memsz \in Nat /\ b \in Nat /\ a <= b
  <2>1. loads[i] \in DumpLoads
    BY DEF DumpTyped
  <2>2. a \in Nat /\ loads[i].memsz \in Nat
    BY <2>1 DEF DumpLoads
  <2> HIDE DEF a
  <2>3. b = a + loads[i].memsz
    BY DEF a
  <2> QED  BY <2>2, <2>3
<1>2. Vmcore!RoundDown(a) \in Nat /\ Vmcore!RoundDown(a) <= a
  BY <1>1, Rounded DEF DumpBounds
<1>3. Vmcore!RoundUp(b) \in Nat /\ b <= Vmcore!RoundUp(b)
  BY <1>1, Rounded DEF DumpBounds
<1>4. /\ Vmcore!Start(loads[i]) = Vmcore!RoundDown(a)
      /\ Vmcore!Size(loads[i]) = Vmcore!RoundUp(b) - Vmcore!RoundDown(a)
  BY DEF Vmcore!Start, Vmcore!Size
<1> QED  BY <1>1, <1>2, <1>3, <1>4

LEMMA Offsets ==
    ASSUME DumpBounds, DumpTyped
    PROVE  /\ \A i \in 1 .. Len(loads) + 1 : Vmcore!Offset(i) \in Nat
           /\ Vmcore!Offset(1) = Vmcore!vmcore_off
           /\ \A i \in DOMAIN loads :
                Vmcore!Offset(i + 1) = Vmcore!Offset(i) + Vmcore!Size(loads[i])
<1> DEFINE n == Len(loads)
           S(i) == [j \in 1 .. i - 1 |-> Vmcore!Size(loads[j])]
<1>1. n \in Nat /\ DOMAIN loads = 1 .. n
  BY DEF DumpTyped
<1>2. ASSUME NEW i \in 1 .. n + 1 PROVE S(i) \in [1 .. (i - 1) -> Nat] /\ i - 1 \in Nat
  <2>1. \A j \in 1 .. i - 1 : j \in DOMAIN loads
    BY <1>1
  <2>2. \A j \in 1 .. i - 1 : Vmcore!Size(loads[j]) \in Nat
    BY <2>1, MemoryPlaced
  <2> QED  BY <1>1, <2>2
<1>3. ASSUME NEW i \in 1 .. n + 1
      PROVE  Vmcore!SumOf(S(i)) \in Nat /\ Vmcore!Offset(i) = Vmcore!vmcore_off + Vmcore!SumOf(S(i))
  <2>1. Vmcore!Offset(i) = Vmcore!vmcore_off + Vmcore!SumOf(S(i))
    BY DEF Vmcore!Offset
  <2>2. S(i) \in [1 .. (i - 1) -> Nat] /\ i - 1 \in Nat
    BY <1>2
  <2> HIDE DEF S
  <2> QED  BY <2>1, <2>2, SumTyped
<1>4. Vmcore!vmcore_off \in Nat
  BY HeadersPlaced
<1>5. Vmcore!Offset(1) = Vmcore!vmcore_off
  <2>1. 1 \in 1 .. n + 1
    BY <1>1
  <2>2. S(1) \in [1 .. 0 -> Nat] /\ 0 \in Nat
    BY <1>2, <2>1
  <2>3. Vmcore!SumOf(S(1)) = 0
    <3>1. \E t \in [0 .. 0 -> Nat] : t[0] = 0 /\ Vmcore!SumOf(S(1)) = t[0]
      <4> HIDE DEF S
      <4> QED  BY <2>2, SumTable
    <3> QED  BY <3>1
  <2>4. Vmcore!Offset(1) = Vmcore!vmcore_off + Vmcore!SumOf(S(1))
    BY <1>3, <2>1
  <2> HIDE DEF S
  <2> QED  BY <1>4, <2>3, <2>4
<1>6. ASSUME NEW i \in 1 .. n
      PROVE  Vmcore!Offset(i + 1) = Vmcore!Offset(i) + Vmcore!Size(loads[i])
  <2>1. i \in 1 .. n + 1 /\ i + 1 \in 1 .. n + 1 /\ i \in Nat \ {0} /\ (i + 1) - 1 = i
    BY <1>1
  <2>2. S(i) \in [1 .. (i - 1) -> Nat]
    BY <1>2, <2>1
  <2>3. S(i + 1) \in [1 .. i -> Nat]
    BY <1>2, <2>1
  <2>4. (\A j \in 1 .. i - 1 : S(i)[j] = S(i + 1)[j]) /\ S(i + 1)[i] = Vmcore!Size(loads[i])
    BY <2>1
  <2>5. Vmcore!SumOf(S(i + 1)) = Vmcore!SumOf(S(i)) + S(i + 1)[i]
    <3> HIDE DEF S
    <3> QED  BY <2>1, <2>2, <2>3, <2>4, SumOneMore
  <2>6. Vmcore!Size(loads[i]) \in Nat
    BY <1>1, MemoryPlaced
  <2>7. /\ Vmcore!Offset(i) = Vmcore!vmcore_off + Vmcore!SumOf(S(i)) /\ Vmcore!SumOf(S(i)) \in Nat
        /\ Vmcore!Offset(i + 1) = Vmcore!vmcore_off + Vmcore!SumOf(S(i + 1))
    BY <1>3, <2>1
  <2> HIDE DEF S
  <2> QED  BY <1>4, <2>4, <2>5, <2>6, <2>7
<1>7. ASSUME NEW i \in 1 .. n + 1 PROVE Vmcore!Offset(i) \in Nat
  <2>1. Vmcore!SumOf(S(i)) \in Nat /\ Vmcore!Offset(i) = Vmcore!vmcore_off + Vmcore!SumOf(S(i))
    BY <1>3
  <2> HIDE DEF S
  <2> QED  BY <1>4, <2>1
<1> HIDE DEF S
<1> QED  BY <1>1, <1>5, <1>6, <1>7

\* A later piece is farther on.
LEMMA OffsetsOrdered ==
    ASSUME DumpBounds, DumpTyped, NEW i \in 1 .. Len(loads) + 1, NEW k \in i .. Len(loads) + 1
    PROVE  Vmcore!Offset(i) <= Vmcore!Offset(k)
<1> DEFINE n == Len(loads)
           Odd == {j \in i .. n + 1 : ~(Vmcore!Offset(i) <= Vmcore!Offset(j))}
<1>1. n \in Nat /\ DOMAIN loads = 1 .. n
  BY DEF DumpTyped
<1>2. Odd = {}
  <2> SUFFICES ASSUME Odd # {} PROVE FALSE
    OBVIOUS
  <2>1. Odd \in SUBSET Nat
    BY <1>1
  <2>2. PICK j \in Odd : \A l \in Odd : j <= l
    <3> HIDE DEF Odd
    <3> QED  BY <2>1, LeastPlace, Zenon
  <2>3. Vmcore!Offset(i) \in Nat /\ Vmcore!Offset(j) \in Nat
    BY <1>1, Offsets
  <2>4. j # i
    BY <2>3
  <2>5. j - 1 \in i .. n + 1 /\ j - 1 \notin Odd /\ j - 1 \in 1 .. n /\ (j - 1) + 1 = j
    BY <1>1, <2>2, <2>4
  <2>6. Vmcore!Offset(i) <= Vmcore!Offset(j - 1)
    BY <2>5
  <2>7. Vmcore!Offset(j) = Vmcore!Offset(j - 1) + Vmcore!Size(loads[j - 1])
    BY <1>1, <2>5, Offsets
  <2>8. Vmcore!Size(loads[j - 1]) \in Nat /\ Vmcore!Offset(j - 1) \in Nat
    <3>1. j - 1 \in DOMAIN loads /\ j - 1 \in 1 .. n + 1
      BY <1>1, <2>5
    <3> HIDE DEF Odd
    <3> QED  BY <3>1, Offsets, MemoryPlaced
  <2>9. Vmcore!Offset(i) <= Vmcore!Offset(j)
    BY <2>3, <2>6, <2>7, <2>8
  <2> QED  BY <2>9
<1> QED  BY <1>2

\* Of two sequences one after another.
LEMMA Joined ==
    ASSUME NEW V, NEW a \in Seq(V), NEW b \in Seq(V)
    PROVE  /\ a \o b \in Seq(V) /\ Len(a \o b) = Len(a) + Len(b)
           /\ \A k \in 1 .. Len(a) + Len(b) :
                (a \o b)[k] = IF k <= Len(a) THEN a[k] ELSE b[k - Len(a)]
OBVIOUS

\* Sequences one after another are as long as they are together.
LEMMA FlatLength ==
    ASSUME NEW n \in Nat \ {0}, NEW V, NEW q \in [1 .. n -> Seq(V)], NEW s \in [1 .. n -> Nat],
           \A i \in 1 .. n : Len(q[i]) = s[i]
    PROVE  Vmcore!FlattenSeq(q) \in Seq(V) /\ Len(Vmcore!FlattenSeq(q)) = Vmcore!SumOf(s)
<1> DEFINE G == [k \in 1 .. n |-> [a \in Seq(V) |-> IF k = 1 THEN q[k] ELSE a \o q[k]]]
           Flat(f) == f = [i \in 1 .. n |-> IF i = 1 THEN q[i] ELSE f[i - 1] \o q[i]]
           g == CHOOSE f : Flat(f)
<1>1. PICK h \in [SUBSET (1 .. n) -> Seq(V)] : Folded(h, <<>>, G, n)
  <2>1. \A k \in 1 .. n : G[k] \in [Seq(V) -> Seq(V)]
    OBVIOUS
  <2>2. <<>> \in Seq(V)
    OBVIOUS
  <2> HIDE DEF G
  <2> QED  BY <2>1, <2>2, FoldExists
<1> DEFINE f == [i \in 1 .. n |-> h[1 .. i]]
<1>2. ASSUME NEW k \in 1 .. n
      PROVE  f[k] = IF k = 1 THEN q[k] ELSE f[k - 1] \o q[k]
  <2>1. /\ 1 .. k \in SUBSET (1 .. n) /\ 1 .. k # {} /\ Core!Max(1 .. k) = k
        /\ (1 .. k) \ {k} = 1 .. (k - 1)
    BY FirstPlaces
  <2>2. h[1 .. k] = G[k][h[1 .. (k - 1)]]
    <3> HIDE DEF G
    <3> QED  BY <1>1, <2>1 DEF Folded
  <2>3. h[1 .. (k - 1)] \in Seq(V)
    <3>1. 1 .. (k - 1) \in SUBSET (1 .. n)
      BY <2>1
    <3> QED  BY <1>1, <3>1
  <2>4. h[1 .. k] = IF k = 1 THEN q[k] ELSE h[1 .. (k - 1)] \o q[k]
    BY <2>2, <2>3
  <2>5. k # 1 => k - 1 \in 1 .. n
    OBVIOUS
  <2> QED  BY <2>4, <2>5
<1>3. Flat(f)
  <2> HIDE DEF f
  <2>1. f = [i \in 1 .. n |-> f[i]]
    BY DEF f
  <2> QED  BY <1>2, <2>1
<1>4. Flat(g)
  <2> HIDE DEF Flat
  <2> QED  BY <1>3
<1>5. Vmcore!FlattenSeq(q) = g[n]
  <2>1. Len(q) = n /\ n # 0
    OBVIOUS
  <2>2. Vmcore!FlattenSeq(q) =
            IF Len(q) = 0 THEN q
            ELSE LET flatten[i \in 1 .. Len(q)] == IF i = 1 THEN q[i] ELSE flatten[i - 1] \o q[i]
                 IN  flatten[Len(q)]
    BY DEF Vmcore!FlattenSeq
  <2> QED  BY <2>1, <2>2, Zenon
<1> HIDE DEF g
<1>6. ASSUME NEW k \in 1 .. n
      PROVE  g[k] = IF k = 1 THEN q[k] ELSE g[k - 1] \o q[k]
  BY <1>4
<1>7. PICK t \in [0 .. n -> Nat] : /\ t[0] = 0 /\ Vmcore!SumOf(s) = t[n]
                                   /\ \A k \in 1 .. n : t[k] = t[k - 1] + s[k]
  BY SumTable
<1> DEFINE Odd == {k \in 1 .. n : ~(g[k] \in Seq(V) /\ Len(g[k]) = t[k])}
<1>8. Odd = {}
  <2> SUFFICES ASSUME Odd # {} PROVE FALSE
    OBVIOUS
  <2>1. Odd \in SUBSET Nat
    OBVIOUS
  <2>2. PICK k \in Odd : \A j \in Odd : k <= j
    <3> HIDE DEF Odd
    <3> QED  BY <2>1, LeastPlace, Zenon
  <2>3. k \in 1 .. n /\ t[k] = t[k - 1] + s[k] /\ q[k] \in Seq(V) /\ Len(q[k]) = s[k]
    BY <1>7
  <2>4. t[k - 1] \in Nat /\ s[k] \in Nat
    BY <1>7, <2>3
  <2>5. CASE k = 1
    <3>1. g[k] = q[k]
      BY <1>6, <2>3, <2>5
    <3>2. t[k] = s[k]
      BY <1>7, <2>3, <2>4, <2>5
    <3> QED  BY <2>3, <3>1, <3>2
  <2>6. CASE k # 1
    <3>1. k - 1 \in 1 .. n /\ k - 1 \notin Odd
      BY <2>2, <2>3, <2>6
    <3>2. g[k - 1] \in Seq(V) /\ Len(g[k - 1]) = t[k - 1]
      BY <3>1
    <3>3. g[k] = g[k - 1] \o q[k]
      BY <1>6, <2>3, <2>6
    <3>4. /\ g[k - 1] \o q[k] \in Seq(V)
          /\ Len(g[k - 1] \o q[k]) = Len(g[k - 1]) + Len(q[k])
      <4> HIDE DEF Odd, Flat, G
      <4> QED  BY <2>3, <3>2, Joined
    <3>5. g[k] \in Seq(V)
      BY <3>3, <3>4
    <3>6. Len(g[k]) = t[k]
      BY <2>3, <3>2, <3>3, <3>4
    <3> QED  BY <3>5, <3>6
  <2> QED  BY <2>5, <2>6
<1>9. n \in 1 .. n
  OBVIOUS
<1> QED  BY <1>5, <1>7, <1>8, <1>9

\* The buffer of the notes has all of them.
LEMMA NotesWhole ==
    ASSUME DumpTyped
    PROVE  /\ Len(Vmcore!NotesBuf) = Vmcore!sz_ptnote
           /\ Vmcore!NotesBuf \in Seq({"note"} \X Nat \X Nat)
<1> DEFINE n == Len(notes)
           s == [i \in 1 .. n |-> Vmcore!RealSize(notes[i])]
           q == [i \in 1 .. n |-> Vmcore!NoteBytes(i)]
           V == {"note"} \X Nat \X Nat
<1>1. n \in Nat \ {0} /\ DOMAIN notes = 1 .. n /\ \A i \in 1 .. n : notes[i] \in DumpNotes
  BY DEF DumpTyped
<1>2. s \in [1 .. n -> Nat]
  BY <1>1, RealSizes
<1>3. ASSUME NEW i \in 1 .. n
      PROVE  Vmcore!NoteBytes(i) \in Seq(V) /\ Len(Vmcore!NoteBytes(i)) = s[i]
  <2>1. s[i] \in Nat /\ s[i] = Vmcore!RealSize(notes[i])
    BY <1>2
  <2>2. Vmcore!NoteBytes(i) = [k \in 1 .. s[i] |-> <<"note", i, k>>]
    BY <2>1 DEF Vmcore!NoteBytes
  <2>3. \A k \in 1 .. s[i] : <<"note", i, k>> \in V
    BY <2>1
  <2> HIDE DEF s, V
  <2> QED  BY <2>1, <2>2, <2>3
<1>4. q \in [1 .. n -> Seq(V)] /\ \A i \in 1 .. n : Len(q[i]) = s[i]
  <2> HIDE DEF s, V
  <2> QED  BY <1>3
<1>5. Vmcore!FlattenSeq(q) \in Seq(V) /\ Len(Vmcore!FlattenSeq(q)) = Vmcore!SumOf(s)
  <2> HIDE DEF q, s, V, n
  <2>1. n \in Nat \ {0} /\ q \in [1 .. n -> Seq(V)] /\ s \in [1 .. n -> Nat]
    BY <1>1, <1>2, <1>4
  <2> QED  BY ZenonT(60), <2>1, <1>4, FlatLength
<1> QED  BY <1>1, <1>5 DEF Vmcore!NotesBuf, Vmcore!sz_ptnote

\* What is read, byte by byte; what a mapping of pages has, from one to before another.
DumpBytes == {ZERO} \cup ({"headers", "old"} \X Int) \cup ({"note"} \X Nat \X Nat)
Image(b, from, to) ==
    /\ b \in Seq(DumpBytes) /\ Len(b) = (to - from) * PAGE_SIZE
    /\ \A k \in 1 .. Len(b) : b[k] = Vmcore!Old(from * PAGE_SIZE + (k - 1))

\* Two images one after another are one.
LEMMA ImageJoined ==
    ASSUME DumpBounds, NEW from \in Nat, NEW mid \in Nat, NEW to \in Nat, NEW a, NEW b,
           Image(a, from, mid), Image(b, mid, to), from <= mid, mid <= to
    PROVE  Image(a \o b, from, to)
<1> DEFINE P == PAGE_SIZE
<1>1. P \in Nat \ {0}
  BY DEF DumpBounds
<1>2. /\ a \in Seq(DumpBytes) /\ Len(a) = (mid - from) * P
      /\ b \in Seq(DumpBytes) /\ Len(b) = (to - mid) * P
  BY DEF Image
<1>3. /\ a \o b \in Seq(DumpBytes) /\ Len(a \o b) = Len(a) + Len(b)
      /\ \A k \in 1 .. Len(a) + Len(b) :
           (a \o b)[k] = IF k <= Len(a) THEN a[k] ELSE b[k - Len(a)]
  BY <1>2, Joined
<1>4. (mid - from) * P + (to - mid) * P = (to - from) * P
  BY <1>1, Z3
<1>5. from * P + (mid - from) * P = mid * P
  BY <1>1, Z3
<1>6. from * P \in Nat /\ mid * P \in Nat
  BY <1>1, Z3
<1>7. Len(a) \in Nat /\ Len(b) \in Nat
  BY <1>2
<1>8. ASSUME NEW k \in 1 .. Len(a \o b)
      PROVE  (a \o b)[k] = Vmcore!Old(from * P + (k - 1))
  <2>1. k \in 1 .. Len(a) + Len(b)
    BY <1>3
  <2>2. CASE k <= Len(a)
    <3>1. k \in 1 .. Len(a)
      BY <2>1, <2>2
    <3>2. a[k] = Vmcore!Old(from * P + (k - 1))
      BY <3>1 DEF Image
    <3> QED  BY <1>3, <2>1, <2>2, <3>2
  <2>3. CASE k > Len(a)
    <3>1. k - Len(a) \in 1 .. Len(b) /\ k \in Nat
      BY <1>7, <2>1, <2>3
    <3>2. b[k - Len(a)] = Vmcore!Old(mid * P + ((k - Len(a)) - 1))
      BY <3>1 DEF Image
    <3>3. mid * P + ((k - Len(a)) - 1) = from * P + (k - 1)
      <4>1. from * P + Len(a) = mid * P
        BY <1>2, <1>5
      <4> HIDE DEF P
      <4> QED  BY <1>6, <1>7, <3>1, <4>1
    <3>4. ~(k <= Len(a))
      BY <1>7, <2>3, <3>1
    <3> QED  BY <1>3, <2>1, <3>2, <3>3, <3>4
  <2> QED  BY <1>7, <2>1, <2>2, <2>3
<1>9. Len(a \o b) = (to - from) * P
  BY <1>2, <1>3, <1>4
<1> QED  BY <1>3, <1>8, <1>9 DEF Image

\* A byte of some pages is in one of them.
LEMMA PageWithin ==
    ASSUME NEW p \in Nat \ {0}, NEW from \in Nat, NEW to \in Nat, from <= to,
           NEW d \in 0 .. (to - from) * p - 1
    PROVE  (from * p + d) \div p \in from .. to - 1
<1> DEFINE m == from * p + d
           q == m \div p
           e == m % p
<1>1. from * p \in Nat /\ to * p \in Nat /\ (to - from) * p = to * p - from * p
  BY Z3
<1>2. m \in Nat /\ d \in Nat /\ m < to * p /\ from * p <= m
  BY <1>1
<1>3. q \in Nat /\ e \in 0 .. p - 1 /\ q * p \in Nat /\ m = q * p + e
  <2> HIDE DEF m
  <2> QED  BY <1>2, Pages
<1> HIDE DEF q, e
<1>4. ~(to <= q)
  <2> SUFFICES ASSUME to <= q PROVE FALSE
    OBVIOUS
  <2>1. to * p <= q * p
    BY <1>3, Times
  <2> HIDE DEF m
  <2> QED  BY <1>1, <1>2, <1>3, <2>1
<1>5. ~(q + 1 <= from)
  <2> SUFFICES ASSUME q + 1 <= from PROVE FALSE
    OBVIOUS
  <2>1. (q + 1) * p <= from * p
    BY <1>3, Times
  <2>2. (q + 1) * p = q * p + p
    BY <1>3, Z3
  <2> HIDE DEF m
  <2> QED  BY <1>1, <1>2, <1>3, <2>1, <2>2
<1>6. q \in from .. to - 1
  BY <1>3, <1>4, <1>5
<1> QED  BY <1>6 DEF q

\* Any number of places gives a sequence.
LEMMA Sequence ==
    ASSUME NEW n \in Int, NEW V, NEW g \in [1 .. n -> V]
    PROVE  g \in Seq(V)
<1>1. CASE n >= 0
  BY <1>1
<1>2. CASE n < 0
  <2>1. 1 .. n = 1 .. 0
    BY <1>2
  <2> QED  BY <2>1
<1> QED  BY <1>1, <1>2

\* Pages of RAM, and one that is none, are shown as they are.
LEMMA PlainImage ==
    ASSUME DumpBounds, NEW from \in Nat, NEW to \in Nat, from <= to,
           \A one \in from .. to - 1 : one \notin balloon
    PROVE  Image([k \in 1 .. (to - from) * PAGE_SIZE |-> <<"old", from * PAGE_SIZE + k - 1>>],
                 from, to)
<1> DEFINE n == (to - from) * PAGE_SIZE
           b == [k \in 1 .. n |-> <<"old", from * PAGE_SIZE + k - 1>>]
<1>1. PAGE_SIZE \in Nat \ {0}
  BY DEF DumpBounds
<1>2. n \in Nat /\ from * PAGE_SIZE \in Nat
  <2>1. to - from \in Nat
    OBVIOUS
  <2> QED  BY <1>1, <2>1, Z3
<1>3. ASSUME NEW k \in 1 .. n
      PROVE  /\ <<"old", from * PAGE_SIZE + k - 1>> \in DumpBytes
             /\ <<"old", from * PAGE_SIZE + k - 1>> = Vmcore!Old(from * PAGE_SIZE + (k - 1))
  <2> DEFINE a == from * PAGE_SIZE
  <2>1. k - 1 \in 0 .. (to - from) * PAGE_SIZE - 1
    BY <1>2
  <2>2. (a + (k - 1)) \div PAGE_SIZE \in from .. to - 1
    BY <1>1, <2>1, PageWithin
  <2>3. a \in Nat
    BY <1>2
  <2> HIDE DEF a, n
  <2>4. a + k - 1 \in Int /\ a + k - 1 = a + (k - 1)
    BY <1>2, <2>3
  <2>5. (a + (k - 1)) \div PAGE_SIZE \notin balloon
    BY <2>2
  <2>6. <<"old", a + k - 1>> \in DumpBytes
    BY <2>4 DEF DumpBytes
  <2>7. <<"old", a + k - 1>> = Vmcore!Old(a + (k - 1))
    BY <2>4, <2>5 DEF Vmcore!Old
  <2> QED  BY <2>6, <2>7 DEF a
<1> HIDE DEF n
<1>4. b \in Seq(DumpBytes) /\ Len(b) = n
  BY <1>2, <1>3
<1>5. Image(b, from, to)
  BY <1>3, <1>4 DEF Image, n
<1> QED  BY <1>5 DEF n

LEMMA ZeroImage ==
    ASSUME DumpBounds, NEW one \in Nat, one \in balloon
    PROVE  Image([k \in 1 .. PAGE_SIZE |-> ZERO], one, one + 1)
<1> DEFINE b == [k \in 1 .. PAGE_SIZE |-> ZERO]
<1>1. PAGE_SIZE \in Nat \ {0}
  BY DEF DumpBounds
<1>2. b \in Seq(DumpBytes) /\ Len(b) = PAGE_SIZE
  BY <1>1 DEF DumpBytes
<1>3. ((one + 1) - one) * PAGE_SIZE = PAGE_SIZE
  <2>1. (one + 1) - one = 1
    OBVIOUS
  <2> QED  BY <1>1, <2>1
<1>4. ASSUME NEW k \in 1 .. Len(b) PROVE b[k] = Vmcore!Old(one * PAGE_SIZE + (k - 1))
  <2>1. k - 1 \in 0 .. PAGE_SIZE - 1 /\ b[k] = ZERO
    BY <1>1, <1>2
  <2>2. (one * PAGE_SIZE + (k - 1)) \div PAGE_SIZE = one
    BY <1>1, <2>1, InPage
  <2> HIDE DEF b
  <2> QED  BY <2>1, <2>2 DEF Vmcore!Old
<1> QED  BY <1>2, <1>3, <1>4 DEF Image

\* A step from page to page goes on from what the steps before have shown.
RemapState == [start : Int, bytes : Seq(DumpBytes)]
LEMMA RemapTyped ==
    ASSUME DumpBounds, NEW m \in RemapState, NEW pos \in Nat
    PROVE  Vmcore!RemapStep(m, pos) \in RemapState
<1> DEFINE n == (pos - m.start) * PAGE_SIZE
           a == [k \in 1 .. n |-> <<"old", m.start * PAGE_SIZE + k - 1>>]
           b == [k \in 1 .. PAGE_SIZE |-> ZERO]
<1>1. m.start \in Int /\ m.bytes \in Seq(DumpBytes) /\ PAGE_SIZE \in Nat \ {0}
  BY DEF RemapState, DumpBounds
<1>2. n \in Int /\ m.start * PAGE_SIZE \in Int
  <2>1. pos - m.start \in Int
    BY <1>1
  <2> QED  BY <1>1, <2>1, Z3
<1>3. a \in Seq(DumpBytes)
  <2> DEFINE c == m.start * PAGE_SIZE
  <2>1. ASSUME NEW k \in 1 .. n PROVE <<"old", c + k - 1>> \in DumpBytes
    <3>1. c + k - 1 \in Int
      <4> HIDE DEF c, n
      <4>1. c \in Int
        BY <1>2 DEF c
      <4> QED  BY <4>1
    <3> HIDE DEF c, n
    <3> QED  BY <3>1 DEF DumpBytes
  <2> HIDE DEF n, c
  <2>2. [k \in 1 .. n |-> <<"old", c + k - 1>>] \in [1 .. n -> DumpBytes]
    BY <2>1
  <2>3. [k \in 1 .. n |-> <<"old", c + k - 1>>] \in Seq(DumpBytes)
    BY <1>2, <2>2, Sequence
  <2> QED  BY <2>3 DEF c
<1>4. b \in Seq(DumpBytes)
  BY <1>1 DEF DumpBytes
<1>5. m.bytes \o a \o b \in Seq(DumpBytes)
  <2> HIDE DEF a, b
  <2>1. m.bytes \o a \in Seq(DumpBytes)
    BY <1>1, <1>3, Joined
  <2> QED  BY <1>4, <2>1, Joined
<1>6. Vmcore!RemapStep(m, pos) =
          IF pos \notin balloon THEN m ELSE [start |-> pos + 1, bytes |-> m.bytes \o a \o b]
  BY DEF Vmcore!RemapStep
<1> HIDE DEF a, b
<1> QED  BY <1>5, <1>6 DEF RemapState

\* What has been shown is an image of the pages up to the last that is no RAM.
Remapped(m, pfn, k) ==
    /\ m.start \in pfn .. pfn + k /\ Image(m.bytes, pfn, m.start)
    /\ \A one \in m.start .. pfn + k - 1 : one \notin balloon
LEMMA RemapGoesOn ==
    ASSUME DumpBounds, NEW pfn \in Nat, NEW k \in Nat, NEW m, Remapped(m, pfn, k)
    PROVE  Remapped(Vmcore!RemapStep(m, pfn + k), pfn, k + 1)
<1> DEFINE pos == pfn + k
           a == [j \in 1 .. (pos - m.start) * PAGE_SIZE |-> <<"old", m.start * PAGE_SIZE + j - 1>>]
           b == [j \in 1 .. PAGE_SIZE |-> ZERO]
<1>1. m.start \in Nat /\ pfn <= m.start /\ m.start <= pos /\ pos \in Nat
  BY DEF Remapped
<1>2. CASE pos \notin balloon
  <2>1. Vmcore!RemapStep(m, pfn + k) = m
    BY <1>2 DEF Vmcore!RemapStep
  <2>2. \A one \in m.start .. pfn + (k + 1) - 1 : one \notin balloon
    <3>1. ASSUME NEW one \in m.start .. pfn + (k + 1) - 1 PROVE one \notin balloon
      <4>1. one = pos \/ one \in m.start .. pfn + k - 1
        BY <1>1
      <4> QED  BY <1>2, <4>1 DEF Remapped
    <3> QED  BY <3>1
  <2>3. m.start \in pfn .. pfn + (k + 1)
    BY <1>1
  <2> QED  BY <2>1, <2>2, <2>3 DEF Remapped
<1>3. CASE pos \in balloon
  <2>1. Vmcore!RemapStep(m, pfn + k) = [start |-> pos + 1, bytes |-> m.bytes \o a \o b]
    BY <1>3 DEF Vmcore!RemapStep
  <2>2. Image(a, m.start, pos)
    <3>1. \A one \in m.start .. pos - 1 : one \notin balloon
      BY DEF Remapped
    <3> HIDE DEF pos
    <3> QED  BY <1>1, <3>1, PlainImage
  <2>3. Image(b, pos, pos + 1)
    <3> HIDE DEF pos
    <3> QED  BY <1>1, <1>3, ZeroImage
  <2> HIDE DEF a, b
  <2>4. Image(m.bytes, pfn, m.start)
    BY DEF Remapped
  <2>5. Image(m.bytes \o a, pfn, pos)
    <3> HIDE DEF pos
    <3> QED  BY <1>1, <2>2, <2>4, ImageJoined
  <2>6. Image(m.bytes \o a \o b, pfn, pos + 1)
    <3>1. pfn <= pos /\ pos <= pos + 1 /\ pos + 1 \in Nat
      BY <1>1
    <3> HIDE DEF pos
    <3> QED  BY <1>1, <2>3, <2>5, <3>1, ImageJoined
  <2>7. pos + 1 \in pfn .. pfn + (k + 1) /\ (pos + 1) .. pfn + (k + 1) - 1 = {}
    BY <1>1
  <2> DEFINE c == m.bytes \o a \o b
             r == [start |-> pos + 1, bytes |-> c]
             ending == pfn + (k + 1) - 1
  <2>8. r.start = pos + 1 /\ r.bytes = c
    OBVIOUS
  <2>9. r.start \in pfn .. pfn + (k + 1) /\ r.start .. ending = {} /\ Image(r.bytes, pfn, r.start)
    <3> HIDE DEF r, c, ending
    <3> QED  BY <2>6, <2>7, <2>8 DEF c, ending
  <2>10. Vmcore!RemapStep(m, pfn + k) = r
    BY <2>1
  <2> HIDE DEF r, pos
  <2>11. Remapped(r, pfn, k + 1)
    BY <2>9 DEF Remapped
  <2> QED  BY <2>10, <2>11
<1> QED  BY <1>2, <1>3

\* A mapping shows its pages.
LEMMA RemapRight ==
    ASSUME DumpBounds, NEW pfn \in Nat, NEW n \in Nat
    PROVE  Image(Vmcore!Remap(pfn, n), pfn, pfn + n)
<1> DEFINE D == SUBSET (1 .. n)
           base == [start |-> pfn, bytes |-> <<>>]
           G == [k \in 1 .. n |-> [m \in RemapState |-> Vmcore!RemapStep(m, pfn + k - 1)]]
           pages == [k \in 1 .. n |-> pfn + k - 1]
           Goes(f) == f = [r \in D |-> IF r = {} THEN base
                                       ELSE Vmcore!RemapStep(f[r \ {Core!Max(r)}], pages[Core!Max(r)])]
           h == CHOOSE f : Goes(f)
<1>1. base \in RemapState
  BY DEF RemapState
<1>2. PICK f \in [D -> RemapState] : Folded(f, base, G, n)
  <2>1. ASSUME NEW k \in 1 .. n PROVE G[k] \in [RemapState -> RemapState]
    <3>1. pfn + k - 1 \in Nat
      OBVIOUS
    <3>2. \A m \in RemapState : Vmcore!RemapStep(m, pfn + k - 1) \in RemapState
      BY <3>1, RemapTyped
    <3> QED  BY <3>2
  <2> HIDE DEF G, base
  <2> QED  BY <1>1, <2>1, FoldExists
<1>3. ASSUME NEW r \in D, r # {}
      PROVE  Core!Max(r) \in 1 .. n /\ r \ {Core!Max(r)} \in D
  BY <1>3, LastPlace
<1>4. Goes(f)
  <2>1. ASSUME NEW r \in D
        PROVE  f[r] = IF r = {} THEN base
                      ELSE Vmcore!RemapStep(f[r \ {Core!Max(r)}], pages[Core!Max(r)])
    <3>1. f[r] = IF r = {} THEN base ELSE G[Core!Max(r)][f[r \ {Core!Max(r)}]]
      BY <1>2 DEF Folded
    <3>2. r # {} => f[r \ {Core!Max(r)}] \in RemapState /\ Core!Max(r) \in 1 .. n
      <4> HIDE DEF D
      <4> QED  BY <1>2, <1>3
    <3> HIDE DEF base
    <3> QED  BY <3>1, <3>2
  <2> HIDE DEF D, base, pages
  <2> QED  BY <1>2, <2>1
<1>5. Goes(h)
  <2> HIDE DEF Goes
  <2> QED  BY <1>4
<1>6. Vmcore!FoldLeft(Vmcore!RemapStep, base, pages) = h[1 .. n]
  <2>1. \A r : Vmcore!Max(r) = Core!Max(r)
    BY DEF Vmcore!Max, Core!Max
  <2>2. DOMAIN pages = 1 .. n
    OBVIOUS
  <2> HIDE DEF base, pages
  <2>3. Vmcore!FoldLeft(Vmcore!RemapStep, base, pages) =
            LET iter[r \in SUBSET (DOMAIN pages)] ==
                    IF r = {} THEN base
                    ELSE Vmcore!RemapStep(iter[r \ {Vmcore!Max(r)}], pages[Vmcore!Max(r)])
            IN  iter[DOMAIN pages]
    BY DEF Vmcore!FoldLeft, Vmcore!MapThenFoldSet
  <2> QED  BY <2>1, <2>2, <2>3, Zenon
<1> HIDE DEF h
<1>7. h[1 .. 0] = base
  <2>1. 1 .. 0 = {} /\ {} \in D
    OBVIOUS
  <2> HIDE DEF D, base
  <2> QED  BY <1>5, <2>1
<1>8. ASSUME NEW k \in 1 .. n
      PROVE  h[1 .. k] = Vmcore!RemapStep(h[1 .. (k - 1)], pfn + (k - 1))
  <2>1. /\ 1 .. k \in D /\ 1 .. k # {} /\ Core!Max(1 .. k) = k
        /\ (1 .. k) \ {k} = 1 .. (k - 1)
    BY FirstPlaces
  <2>2. pages[k] = pfn + (k - 1)
    OBVIOUS
  <2> HIDE DEF D, base, pages
  <2>3. h[1 .. k] = IF 1 .. k = {} THEN base
                    ELSE Vmcore!RemapStep(h[(1 .. k) \ {Core!Max(1 .. k)}], pages[Core!Max(1 .. k)])
    BY <1>5, <2>1
  <2> QED  BY <2>1, <2>2, <2>3
<1> DEFINE Odd == {k \in 0 .. n : ~Remapped(h[1 .. k], pfn, k)}
<1>9. Odd = {}
  <2> SUFFICES ASSUME Odd # {} PROVE FALSE
    OBVIOUS
  <2>1. Odd \in SUBSET Nat
    OBVIOUS
  <2>2. PICK k \in Odd : \A j \in Odd : k <= j
    <3> HIDE DEF Odd
    <3> QED  BY <2>1, LeastPlace, Zenon
  <2>3. Remapped(base, pfn, 0)
    <3>1. (pfn - pfn) * PAGE_SIZE = 0
      <4>1. pfn - pfn = 0
        OBVIOUS
      <4> QED  BY <4>1 DEF DumpBounds
    <3>2. Image(<<>>, pfn, pfn)
      BY <3>1 DEF Image
    <3> QED  BY <3>2 DEF Remapped
  <2>4. k # 0
    <3> HIDE DEF base
    <3> QED  BY <1>7, <2>3
  <2>5. k \in 1 .. n /\ k - 1 \in Nat /\ k - 1 \in 0 .. n /\ k - 1 \notin Odd /\ (k - 1) + 1 = k
    BY <2>2, <2>4
  <2>6. Remapped(h[1 .. (k - 1)], pfn, k - 1)
    BY <2>5
  <2> DEFINE c == k - 1
             m == h[1 .. c]
  <2>7. Remapped(Vmcore!RemapStep(m, pfn + c), pfn, c + 1)
    <3>1. Remapped(m, pfn, c) /\ c \in Nat
      BY <2>5, <2>6
    <3> HIDE DEF c, m
    <3> QED  BY <3>1, RemapGoesOn
  <2>8. Remapped(h[1 .. k], pfn, k)
    BY <1>8, <2>5, <2>7
  <2> QED  BY <2>8
<1> DEFINE m == h[1 .. n]
           b == [k \in 1 .. (pfn + n - m.start) * PAGE_SIZE |-> <<"old", m.start * PAGE_SIZE + k - 1>>]
<1>10. Remapped(m, pfn, n)
  <2>1. n \in 0 .. n
    OBVIOUS
  <2> QED  BY <1>9, <2>1
<1>11. Vmcore!Remap(pfn, n) = m.bytes \o b
  <2> HIDE DEF m
  <2>1. Vmcore!FoldLeft(Vmcore!RemapStep, [start |-> pfn, bytes |-> <<>>],
                        [k \in 1 .. n |-> pfn + k - 1]) = m
    BY <1>6 DEF m
  <2> QED  BY <2>1 DEF Vmcore!Remap
<1> HIDE DEF m
<1>12. m.start \in Nat /\ pfn <= m.start /\ m.start <= pfn + n /\ pfn + n \in Nat
  BY <1>10 DEF Remapped
<1>13. Image(m.bytes, pfn, m.start) /\ \A one \in m.start .. (pfn + n) - 1 : one \notin balloon
  BY <1>10 DEF Remapped
<1> DEFINE to == pfn + n
<1>14. Image(b, m.start, to)
  <2>1. \A one \in m.start .. to - 1 : one \notin balloon
    BY <1>13
  <2> HIDE DEF to
  <2> QED  BY <1>12, <2>1, PlainImage DEF to
<1>15. Image(m.bytes \o b, pfn, to)
  <2> HIDE DEF b, to
  <2> QED  BY <1>12, <1>13, <1>14, ImageJoined DEF to
<1> HIDE DEF b
<1> QED  BY <1>11, <1>15

\* What the file has at an offset: memory in its pieces, notes where they are.
InLoad(i, o) == o >= Vmcore!Offset(i) /\ o < Vmcore!Offset(i + 1)
FileByte(o, c) ==
    /\ \A i \in DOMAIN loads :
         InLoad(i, o) => c = Vmcore!Old(Vmcore!Start(loads[i]) + (o - Vmcore!Offset(i)))
    /\ o >= Vmcore!NoteOffset /\ o < Vmcore!NoteOffset + Vmcore!sz_ptnote =>
         c = Vmcore!NotesBuf[o - Vmcore!NoteOffset + 1]
\* A piece of the file.
FilePart(at, b) == /\ at \in Nat /\ b \in Seq(DumpBytes)
                   /\ \A k \in 1 .. Len(b) : FileByte(at + (k - 1), b[k])

\* The pieces of memory begin after the notes.
LEMMA MemoryAfter ==
    ASSUME DumpBounds, DumpTyped, NEW i \in DOMAIN loads
    PROVE  /\ Vmcore!Offset(i) \in Nat /\ Vmcore!Offset(i + 1) \in Nat
           /\ Vmcore!vmcore_off \in Nat /\ Vmcore!vmcore_off <= Vmcore!Offset(i)
           /\ Vmcore!Offset(i) <= Vmcore!Offset(i + 1)
<1>1. Len(loads) \in Nat /\ i \in 1 .. Len(loads)
  BY DEF DumpTyped
<1>2. /\ 1 \in 1 .. Len(loads) + 1 /\ i \in 1 .. Len(loads) + 1 /\ i \in 1 .. Len(loads) + 1
      /\ i + 1 \in 1 .. Len(loads) + 1 /\ i + 1 \in i .. Len(loads) + 1
  BY <1>1
<1>3. Vmcore!Offset(1) <= Vmcore!Offset(i) /\ Vmcore!Offset(i) <= Vmcore!Offset(i + 1)
  BY <1>2, OffsetsOrdered
<1>4. Vmcore!Offset(1) \in Nat /\ Vmcore!Offset(1) = Vmcore!vmcore_off
  BY <1>2, Offsets
<1> QED  BY <1>2, <1>3, <1>4, Offsets

\* An offset is in one piece of memory at most.
LEMMA OneLoad ==
    ASSUME DumpBounds, DumpTyped, NEW i \in DOMAIN loads, NEW k \in DOMAIN loads,
           NEW o \in Int, InLoad(i, o), InLoad(k, o)
    PROVE  i = k
<1>1. Len(loads) \in Nat /\ i \in 1 .. Len(loads) /\ k \in 1 .. Len(loads)
  BY DEF DumpTyped
<1>2. ASSUME NEW a \in DOMAIN loads, NEW b \in DOMAIN loads, a < b, InLoad(a, o), InLoad(b, o)
      PROVE  FALSE
  <2>1. a \in 1 .. Len(loads) /\ b \in 1 .. Len(loads)
    BY DEF DumpTyped
  <2>2. a + 1 \in 1 .. Len(loads) + 1 /\ b \in a + 1 .. Len(loads) + 1
    BY <1>1, <1>2, <2>1
  <2>3. Vmcore!Offset(a + 1) <= Vmcore!Offset(b)
    BY <2>2, OffsetsOrdered
  <2>4. Vmcore!Offset(a + 1) \in Nat /\ Vmcore!Offset(b) \in Nat
    BY MemoryAfter
  <2> QED  BY <1>2, <2>3, <2>4 DEF InLoad
<1> QED  BY <1>1, <1>2

\* What each of the three parts of the file has.
LEMMA HeadersByte ==
    ASSUME DumpBounds, DumpTyped, NEW o \in Int, o < Vmcore!headers_sz, NEW c
    PROVE  FileByte(o, c)
<1>1. /\ Vmcore!headers_sz \in Nat /\ Vmcore!NoteOffset = Vmcore!headers_sz
      /\ Vmcore!notes_sz \in Nat /\ Vmcore!vmcore_off = Vmcore!headers_sz + Vmcore!notes_sz
  BY HeadersPlaced
<1>2. ASSUME NEW i \in DOMAIN loads PROVE ~InLoad(i, o)
  BY <1>1, MemoryAfter DEF InLoad
<1> QED  BY <1>1, <1>2 DEF FileByte

LEMMA NotesByte ==
    ASSUME DumpBounds, DumpTyped, NEW o \in Vmcore!headers_sz .. Vmcore!vmcore_off - 1, NEW j,
           j = o - Vmcore!headers_sz + 1
    PROVE  FileByte(o, IF j <= Len(Vmcore!NotesBuf) THEN Vmcore!NotesBuf[j] ELSE ZERO)
<1>1. /\ Vmcore!headers_sz \in Nat /\ Vmcore!NoteOffset = Vmcore!headers_sz
      /\ Vmcore!notes_sz \in Nat /\ Vmcore!vmcore_off = Vmcore!headers_sz + Vmcore!notes_sz
  BY HeadersPlaced
<1>2. ASSUME NEW i \in DOMAIN loads PROVE ~InLoad(i, o)
  BY <1>1, MemoryAfter DEF InLoad
<1>3. Len(Vmcore!NotesBuf) = Vmcore!sz_ptnote /\ Vmcore!sz_ptnote \in Nat
  BY NotesWhole, NotesSized
<1>4. o < Vmcore!NoteOffset + Vmcore!sz_ptnote =>
          j <= Len(Vmcore!NotesBuf) /\ j = o - Vmcore!NoteOffset + 1
  BY <1>1, <1>3
<1> QED  BY <1>2, <1>4 DEF FileByte

LEMMA MemoryByte ==
    ASSUME DumpBounds, DumpTyped, NEW i \in DOMAIN loads, NEW o \in Int, InLoad(i, o)
    PROVE  FileByte(o, Vmcore!Old(Vmcore!Start(loads[i]) + (o - Vmcore!Offset(i))))
<1>1. /\ Vmcore!headers_sz \in Nat /\ Vmcore!NoteOffset = Vmcore!headers_sz
      /\ Vmcore!notes_sz \in Nat /\ Vmcore!sz_ptnote <= Vmcore!notes_sz
      /\ Vmcore!vmcore_off = Vmcore!headers_sz + Vmcore!notes_sz
      /\ Vmcore!sz_ptnote \in Nat
  BY HeadersPlaced, NotesSized
<1>2. ~(o < Vmcore!NoteOffset + Vmcore!sz_ptnote)
  <2>1. Vmcore!vmcore_off <= Vmcore!Offset(i) /\ Vmcore!Offset(i) \in Nat
    BY MemoryAfter
  <2> QED  BY <1>1, <2>1 DEF InLoad
<1>3. \A k \in DOMAIN loads : InLoad(k, o) => k = i
  BY OneLoad
<1> QED  BY <1>2, <1>3 DEF FileByte

\* A byte of a page is like its first.
LEMMA OldInPage ==
    ASSUME DumpBounds, NEW a \in Nat, NEW d \in 0 .. Vmcore!ToPageEnd(a) - 1
    PROVE  Vmcore!Old(a + d) = IF a \div PAGE_SIZE \in balloon THEN ZERO ELSE <<"old", a + d>>
<1> DEFINE q == a \div PAGE_SIZE
           r == a % PAGE_SIZE
<1>1. PAGE_SIZE \in Nat \ {0}
  BY DEF DumpBounds
<1>2. q \in Nat /\ r \in 0 .. PAGE_SIZE - 1 /\ q * PAGE_SIZE \in Nat /\ a = q * PAGE_SIZE + r
  BY <1>1, Pages
<1>3. d \in 0 .. PAGE_SIZE - r - 1
  BY DEF Vmcore!ToPageEnd
<1> HIDE DEF q, r
<1>4. r + d \in 0 .. PAGE_SIZE - 1 /\ a + d = q * PAGE_SIZE + (r + d)
  BY <1>1, <1>2, <1>3
<1>5. (q * PAGE_SIZE + (r + d)) \div PAGE_SIZE = q
  BY <1>1, <1>2, <1>4, InPage
<1>6. (a + d) \div PAGE_SIZE = q
  BY <1>4, <1>5
<1> QED  BY <1>6 DEF Vmcore!Old, q

\* Two parts of the file, one where the other ends, are one.
LEMMA PartsJoined ==
    ASSUME NEW at \in Nat, NEW a, NEW b, FilePart(at, a), FilePart(at + Len(a), b)
    PROVE  FilePart(at, a \o b) /\ Len(a \o b) = Len(a) + Len(b) /\ Len(b) \in Nat
<1>1. a \in Seq(DumpBytes) /\ b \in Seq(DumpBytes)
  BY DEF FilePart
<1>2. /\ a \o b \in Seq(DumpBytes) /\ Len(a \o b) = Len(a) + Len(b)
      /\ \A k \in 1 .. Len(a) + Len(b) :
           (a \o b)[k] = IF k <= Len(a) THEN a[k] ELSE b[k - Len(a)]
  BY <1>1, Joined
<1>3. Len(a) \in Nat /\ Len(b) \in Nat
  BY <1>1
<1>4. ASSUME NEW k \in 1 .. Len(a \o b) PROVE FileByte(at + (k - 1), (a \o b)[k])
  <2>1. k \in 1 .. Len(a) + Len(b)
    BY <1>2
  <2>2. CASE k <= Len(a)
    <3>1. k \in 1 .. Len(a)
      BY <2>1, <2>2
    <3> QED  BY <1>2, <2>1, <2>2, <3>1 DEF FilePart
  <2>3. CASE ~(k <= Len(a))
    <3>1. k - Len(a) \in 1 .. Len(b) /\ at + Len(a) + ((k - Len(a)) - 1) = at + (k - 1)
      BY <1>3, <2>1, <2>3
    <3>2. FileByte(at + Len(a) + ((k - Len(a)) - 1), b[k - Len(a)])
      BY <3>1 DEF FilePart
    <3> QED  BY <1>2, <2>1, <2>3, <3>1, <3>2
  <2> QED  BY <2>2, <2>3
<1> QED  BY <1>2, <1>3, <1>4 DEF FilePart

\* What is held at each stage of the setup, and the list of the pieces of memory.
DumpHeld ==
    /\ stage = "off" => held = {}
    /\ stage \in {"ident", "headers"} => held = {"elfcorehdr"}
    /\ stage = "merge" => held = {"elfcorehdr", "elfcorebuf"}
    /\ stage = "list" => held = {"elfcorehdr"} \cup Vmcore!Bufs
    /\ stage \in {"rest", "reading"} => held = Vmcore!Bufs \cup {"proc_vmcore"}
    /\ stage = "unseen" => held = Vmcore!Bufs
    /\ stage \in {"failed", "gone"} => held \subseteq {"elfcorehdr"}
DumpListed ==
    /\ vmcore_list \in Seq([paddr : Nat, size : Nat]) /\ Len(vmcore_list) <= Len(loads)
    /\ \A k \in DOMAIN vmcore_list : vmcore_list[k].size = Vmcore!Size(loads[k])
    /\ stage \in {"rest", "reading"} => Len(vmcore_list) = Len(loads)
    /\ stage = "gone" => vmcore_list = <<>>
\* What a read has copied so far, and what was shown last, are parts of the file.
DumpCopied == /\ fpos \in Nat /\ buflen \in Nat /\ FilePart(fpos - Len(acc), acc)
              /\ FilePart(shown.at, shown.bytes)
DumpInv == DumpBounds /\ DumpTyped /\ DumpHeld /\ DumpListed /\ DumpCopied

LEMMA Lesser ==
    ASSUME NEW x \in Int, NEW y \in Int
    PROVE  Vmcore!Min({x, y}) = IF x <= y THEN x ELSE y
BY DEF Vmcore!Min

\* The layout of the file does not change.
LEMMA DumpStays ==
    ASSUME UNCHANGED Vmcore!core
    PROVE  /\ DumpTyped' <=> DumpTyped
           /\ \A at, b : FilePart(at, b)' <=> FilePart(at, b)
           /\ \A i : Vmcore!Size(loads[i])' = Vmcore!Size(loads[i])
<1>1. notes' = notes /\ loads' = loads /\ balloon' = balloon /\ elfclass' = elfclass
  BY DEF Vmcore!core
<1>2. /\ Vmcore!sz_ptnote' = Vmcore!sz_ptnote /\ Vmcore!headers_sz' = Vmcore!headers_sz
      /\ Vmcore!NoteOffset' = Vmcore!NoteOffset /\ Vmcore!NotesBuf' = Vmcore!NotesBuf
  BY <1>1 DEF Vmcore!sz_ptnote, Vmcore!headers_sz, Vmcore!NoteOffset, Vmcore!NotesBuf,
              Vmcore!NoteBytes, Vmcore!phnum
<1>3. Vmcore!vmcore_off' = Vmcore!vmcore_off
  BY <1>2 DEF Vmcore!vmcore_off, Vmcore!notes_sz
<1>4. \A i : Vmcore!Offset(i)' = Vmcore!Offset(i)
  BY <1>1, <1>3 DEF Vmcore!Offset
<1>5. \A a : Vmcore!Old(a)' = Vmcore!Old(a)
  BY <1>1 DEF Vmcore!Old
<1>6. \A i : Vmcore!Size(loads[i])' = Vmcore!Size(loads[i])
  BY <1>1
<1>7. \A i, o : InLoad(i, o)' <=> InLoad(i, o)
  <2> SUFFICES ASSUME NEW i, NEW o PROVE InLoad(i, o)' <=> InLoad(i, o)
    OBVIOUS
  <2>1. Vmcore!Offset(i)' = Vmcore!Offset(i) /\ Vmcore!Offset(i + 1)' = Vmcore!Offset(i + 1)
    BY <1>4
  <2> QED  BY <2>1 DEF InLoad
<1>8. \A o, c : FileByte(o, c)' <=> FileByte(o, c)
  BY <1>1, <1>2, <1>4, <1>5, <1>7 DEF FileByte
<1>9. \A at, b : FilePart(at, b)' <=> FilePart(at, b)
  BY <1>8 DEF FilePart
<1>10. DumpTyped' <=> DumpTyped
  BY <1>1 DEF DumpTyped
<1> QED  BY <1>6, <1>9, <1>10

\* A piece that is part of the file is copied.
LEMMA PieceCopied ==
    ASSUME DumpCopied, NEW b, FilePart(fpos, b), Len(b) <= buflen, Vmcore!Piece(b)
    PROVE  DumpCopied'
<1> DEFINE at == fpos - Len(acc)
<1>1. fpos \in Nat /\ buflen \in Nat /\ at \in Nat /\ acc \in Seq(DumpBytes)
  BY DEF DumpCopied, FilePart
<1>2. Len(acc) \in Nat /\ at + Len(acc) = fpos
  BY <1>1
<1>3. FilePart(at, acc) /\ FilePart(at + Len(acc), b)
  BY <1>2 DEF DumpCopied
<1>4. FilePart(at, acc \o b) /\ Len(acc \o b) = Len(acc) + Len(b) /\ Len(b) \in Nat
  <2> HIDE DEF at
  <2> QED  BY <1>1, <1>3, PartsJoined
<1>5. /\ acc' = acc \o b /\ fpos' = fpos + Len(b) /\ buflen' = buflen - Len(b)
      /\ UNCHANGED Vmcore!core /\ shown' = shown
  BY DEF Vmcore!Piece
<1>6. fpos' - Len(acc') = at /\ fpos' \in Nat /\ buflen' \in Nat
  BY <1>1, <1>2, <1>4, <1>5
<1>7. PICK x, y : x = at /\ y = acc \o b
  OBVIOUS
<1>8. FilePart(x, y)'
  <2>1. FilePart(x, y)
    BY <1>4, <1>7
  <2> QED  BY <1>5, <2>1, DumpStays
<1>9. x = fpos' - Len(acc') /\ y = acc'
  BY <1>5, <1>6, <1>7
<1>10. FilePart(fpos - Len(acc), acc)'
  BY <1>8, <1>9
<1>11. FilePart(shown.at, shown.bytes)'
  <2>1. PICK u, v : u = shown.at /\ v = shown.bytes
    OBVIOUS
  <2>2. FilePart(u, v)'
    <3>1. FilePart(u, v)
      BY <2>1 DEF DumpCopied
    <3> QED  BY <1>5, <3>1, DumpStays
  <2>3. u = shown'.at /\ v = shown'.bytes
    BY <1>5, <2>1
  <2> QED  BY <2>2, <2>3
<1> QED  BY <1>6, <1>10, <1>11 DEF DumpCopied

\* What has been copied and shown stays, when neither changes.
LEMMA CopiedStays ==
    ASSUME DumpCopied, UNCHANGED <<Vmcore!core, fpos, buflen, acc, shown>>
    PROVE  DumpCopied'
<1>1. UNCHANGED Vmcore!core /\ fpos' = fpos /\ buflen' = buflen /\ acc' = acc /\ shown' = shown
  OBVIOUS
<1>2. PICK x, y, u, v : x = fpos - Len(acc) /\ y = acc /\ u = shown.at /\ v = shown.bytes
  OBVIOUS
<1>3. FilePart(x, y) /\ FilePart(u, v)
  BY <1>2 DEF DumpCopied
<1>4. FilePart(x, y)' /\ FilePart(u, v)'
  BY <1>1, <1>3, DumpStays
<1>5. x = fpos' - Len(acc') /\ y = acc' /\ u = shown'.at /\ v = shown'.bytes
  BY <1>1, <1>2
<1>6. FilePart(fpos - Len(acc), acc)'
  BY <1>4, <1>5
<1>7. FilePart(shown.at, shown.bytes)'
  BY <1>4, <1>5
<1> QED  BY <1>1, <1>6, <1>7 DEF DumpCopied

\* A part of the file is shown, and the copy begins anew.
LEMMA ShownNext ==
    ASSUME DumpCopied, UNCHANGED <<Vmcore!core, fpos>>, buflen' \in Nat, acc' = <<>>,
           FilePart(shown'.at, shown'.bytes)
    PROVE  DumpCopied'
<1>1. UNCHANGED Vmcore!core /\ fpos' = fpos /\ fpos \in Nat
  BY DEF DumpCopied
<1>2. PICK x, y, u, v : x = fpos' - Len(acc') /\ y = acc' /\ u = shown'.at /\ v = shown'.bytes
  OBVIOUS
<1>3. x = fpos /\ y = <<>>
  BY <1>1, <1>2
<1>4. FilePart(x, y) /\ FilePart(u, v)
  BY <1>1, <1>2, <1>3 DEF FilePart
<1>5. FilePart(x, y)' /\ FilePart(u, v)'
  BY <1>1, <1>4, DumpStays
<1>6. FilePart(fpos - Len(acc), acc)'
  BY <1>2, <1>5
<1>7. FilePart(shown.at, shown.bytes)'
  BY <1>2, <1>5
<1> QED  BY <1>1, <1>6, <1>7 DEF DumpCopied

\* As many bytes as there are, or are asked for.
LEMMA UptoEnd ==
    ASSUME fpos \in Nat, buflen \in Nat, NEW end \in Nat, fpos < end
    PROVE  /\ Vmcore!Upto(end) \in Nat /\ Vmcore!Upto(end) <= buflen
           /\ fpos + Vmcore!Upto(end) <= end
<1>1. end - fpos \in Int /\ buflen \in Int
  OBVIOUS
<1>2. Vmcore!Upto(end) = IF end - fpos <= buflen THEN end - fpos ELSE buflen
  BY <1>1, Lesser DEF Vmcore!Upto
<1> QED  BY <1>2

\* Each of the reads copies a part of the file.
LEMMA HeadersCopied ==
    ASSUME DumpInv, Vmcore!ReadHeaders
    PROVE  DumpCopied'
<1> DEFINE n == Vmcore!Upto(Vmcore!headers_sz)
           b == [k \in 1 .. n |-> <<"headers", fpos + k - 1>>]
<1>1. DumpBounds /\ DumpTyped /\ DumpCopied /\ fpos \in Nat /\ buflen \in Nat
  BY DEF DumpInv, DumpCopied
<1>2. Vmcore!headers_sz \in Nat /\ fpos < Vmcore!headers_sz
  BY <1>1, HeadersPlaced DEF Vmcore!ReadHeaders
<1>3. n \in Nat /\ n <= buflen /\ fpos + n <= Vmcore!headers_sz
  BY <1>1, <1>2, UptoEnd
<1>4. Vmcore!Piece(b)
  BY DEF Vmcore!ReadHeaders
<1> HIDE DEF n
<1>5. ASSUME NEW k \in 1 .. n
      PROVE  <<"headers", fpos + k - 1>> \in DumpBytes /\ FileByte(fpos + (k - 1), b[k])
  <2>1. fpos + k - 1 \in Int /\ fpos + (k - 1) \in Int /\ fpos + (k - 1) < Vmcore!headers_sz
    BY <1>1, <1>2, <1>3
  <2>2. <<"headers", fpos + k - 1>> \in DumpBytes
    BY <2>1 DEF DumpBytes
  <2> HIDE DEF b
  <2> QED  BY <1>1, <2>1, <2>2, HeadersByte
<1>6. b \in Seq(DumpBytes) /\ Len(b) = n
  BY <1>3, <1>5
<1> HIDE DEF b
<1>7. FilePart(fpos, b)
  BY <1>1, <1>5, <1>6 DEF FilePart
<1> QED  BY <1>1, <1>3, <1>4, <1>6, <1>7, PieceCopied

LEMMA NotesCopied ==
    ASSUME DumpInv, Vmcore!ReadNotes
    PROVE  DumpCopied'
<1> DEFINE n == Vmcore!Upto(Vmcore!vmcore_off)
           j(k) == fpos - Vmcore!headers_sz + k
           c(k) == IF j(k) <= Len(Vmcore!NotesBuf) THEN Vmcore!NotesBuf[j(k)] ELSE ZERO
           b == [k \in 1 .. n |-> c(k)]
<1>1. DumpBounds /\ DumpTyped /\ DumpCopied /\ fpos \in Nat /\ buflen \in Nat
  BY DEF DumpInv, DumpCopied
<1>2. /\ Vmcore!headers_sz \in Nat /\ Vmcore!vmcore_off \in Nat
      /\ Vmcore!headers_sz <= fpos /\ fpos < Vmcore!vmcore_off
  <2>1. Vmcore!headers_sz \in Nat /\ Vmcore!vmcore_off \in Nat
    BY <1>1, HeadersPlaced
  <2>2. fpos \in Vmcore!headers_sz .. Vmcore!vmcore_off - 1
    BY DEF Vmcore!ReadNotes
  <2> QED  BY <2>1, <2>2
<1>3. n \in Nat /\ n <= buflen /\ fpos + n <= Vmcore!vmcore_off
  BY <1>1, <1>2, UptoEnd
<1>4. Vmcore!Piece(b)
  BY DEF Vmcore!ReadNotes
<1> HIDE DEF n
<1>5. ASSUME NEW k \in 1 .. n
      PROVE  c(k) \in DumpBytes /\ FileByte(fpos + (k - 1), c(k))
  <2>1. /\ j(k) \in Nat \ {0} /\ j(k) = (fpos + (k - 1)) - Vmcore!headers_sz + 1
        /\ fpos + (k - 1) \in Vmcore!headers_sz .. Vmcore!vmcore_off - 1
    BY <1>1, <1>2, <1>3
  <2>2. Vmcore!NotesBuf \in Seq({"note"} \X Nat \X Nat)
    BY <1>1, NotesWhole
  <2> HIDE DEF j
  <2>3. j(k) <= Len(Vmcore!NotesBuf) => Vmcore!NotesBuf[j(k)] \in {"note"} \X Nat \X Nat
    BY <2>1, <2>2
  <2>4. c(k) \in DumpBytes
    BY <2>3 DEF DumpBytes
  <2>5. FileByte(fpos + (k - 1), c(k))
    BY <1>1, <2>1, NotesByte
  <2> QED  BY <2>4, <2>5
<1> HIDE DEF c
<1>6. b \in Seq(DumpBytes) /\ Len(b) = n /\ \A k \in 1 .. n : b[k] = c(k)
  BY <1>3, <1>5
<1> HIDE DEF b
<1>7. FilePart(fpos, b)
  BY <1>1, <1>5, <1>6 DEF FilePart
<1> QED  BY <1>1, <1>3, <1>4, <1>6, <1>7, PieceCopied

LEMMA MemoryCopied ==
    ASSUME DumpInv, NEW i \in DOMAIN loads, Vmcore!ReadMemory(i)
    PROVE  DumpCopied'
<1> DEFINE a == Vmcore!Start(loads[i]) + fpos - Vmcore!Offset(i)
           n == Vmcore!Min({Vmcore!Upto(Vmcore!Offset(i + 1)), Vmcore!ToPageEnd(a)})
           c(k) == IF a \div PAGE_SIZE \in balloon THEN ZERO ELSE <<"old", a + k - 1>>
           b == [k \in 1 .. n |-> c(k)]
<1>1. DumpBounds /\ DumpTyped /\ DumpCopied /\ fpos \in Nat /\ buflen \in Nat
  BY DEF DumpInv, DumpCopied
<1>2. /\ Vmcore!Offset(i) \in Nat /\ Vmcore!Offset(i + 1) \in Nat
      /\ Vmcore!Offset(i) <= fpos /\ fpos < Vmcore!Offset(i + 1)
  <2>1. Vmcore!Offset(i) \in Nat /\ Vmcore!Offset(i + 1) \in Nat
    BY <1>1, MemoryAfter
  <2>2. fpos \in Vmcore!Offset(i) .. Vmcore!Offset(i + 1) - 1
    BY DEF Vmcore!ReadMemory
  <2> QED  BY <2>1, <2>2
<1>3. Vmcore!Start(loads[i]) \in Nat
  BY <1>1, MemoryPlaced
<1>4. a \in Nat
  BY <1>1, <1>2, <1>3
<1>5. Vmcore!Piece(b)
  BY DEF Vmcore!ReadMemory
<1> DEFINE up == Vmcore!Upto(Vmcore!Offset(i + 1))
<1>6. up \in Nat /\ up <= buflen /\ fpos + up <= Vmcore!Offset(i + 1)
  BY <1>1, <1>2, UptoEnd
<1>7. Vmcore!ToPageEnd(a) \in Nat
  <2>1. a % PAGE_SIZE \in 0 .. PAGE_SIZE - 1 /\ PAGE_SIZE \in Nat
    <3> HIDE DEF a
    <3> QED  BY <1>1, <1>4, Pages DEF DumpBounds
  <2> HIDE DEF a
  <2> QED  BY <2>1 DEF Vmcore!ToPageEnd
<1> HIDE DEF up
<1>8. n \in Nat /\ n <= up /\ n <= Vmcore!ToPageEnd(a)
  <2>1. n = IF up <= Vmcore!ToPageEnd(a) THEN up ELSE Vmcore!ToPageEnd(a)
    <3> HIDE DEF a
    <3> QED  BY <1>6, <1>7, Lesser DEF up
  <2> HIDE DEF a, n
  <2> QED  BY <1>6, <1>7, <2>1
<1> HIDE DEF n
<1>9. ASSUME NEW k \in 1 .. n
      PROVE  c(k) \in DumpBytes /\ FileByte(fpos + (k - 1), c(k))
  <2>1. a + k - 1 \in Int /\ a + (k - 1) = a + k - 1
    <3> HIDE DEF a
    <3> QED  BY <1>4
  <2>2. c(k) \in DumpBytes
    <3> HIDE DEF a
    <3> QED  BY <2>1 DEF DumpBytes
  <2>3. k - 1 \in 0 .. Vmcore!ToPageEnd(a) - 1
    <3> HIDE DEF a
    <3> QED  BY <1>7, <1>8
  <2>4. Vmcore!Old(a + (k - 1)) = c(k)
    <3> HIDE DEF a
    <3> QED  BY <1>1, <1>4, <2>1, <2>3, OldInPage
  <2>5. /\ fpos + (k - 1) \in Int /\ fpos + (k - 1) >= Vmcore!Offset(i)
        /\ fpos + (k - 1) < Vmcore!Offset(i + 1)
    BY <1>1, <1>2, <1>6, <1>8
  <2>6. Vmcore!Start(loads[i]) + ((fpos + (k - 1)) - Vmcore!Offset(i)) = a + (k - 1)
    BY <1>1, <1>2, <1>3
  <2> HIDE DEF a, c
  <2>7. FileByte(fpos + (k - 1),
                 Vmcore!Old(Vmcore!Start(loads[i]) + ((fpos + (k - 1)) - Vmcore!Offset(i))))
    BY <1>1, <2>5, MemoryByte DEF InLoad
  <2> QED  BY <2>2, <2>4, <2>6, <2>7
<1> HIDE DEF c, a
<1>10. b \in Seq(DumpBytes) /\ Len(b) = n /\ \A k \in 1 .. n : b[k] = c(k)
  BY <1>8, <1>9
<1> HIDE DEF b
<1>11. FilePart(fpos, b)
  BY <1>1, <1>9, <1>10 DEF FilePart
<1>12. Len(b) <= buflen
  BY <1>1, <1>6, <1>8, <1>10
<1> QED  BY <1>1, <1>5, <1>11, <1>12, PieceCopied

\* A mapping within a piece of memory shows a part of the file.
LEMMA MappingShown ==
    ASSUME DumpInv, NEW i \in DOMAIN loads, NEW first \in Nat, NEW n \in Nat,
           Vmcore!Mmap(i, first, n)
    PROVE  FilePart(shown'.at, shown'.bytes)
<1> DEFINE P == PAGE_SIZE
           start == Vmcore!Start(loads[i])
           q == loads[i].paddr \div P
           o == Vmcore!Offset(i) + first * P
           pfn == start \div P + first
           b == Vmcore!Remap(pfn, n)
<1>1. DumpBounds /\ DumpTyped /\ P \in Nat \ {0}
  BY DEF DumpInv, DumpBounds
<1>2. /\ Vmcore!Offset(i) \in Nat /\ Vmcore!Offset(i + 1) \in Nat
      /\ start \in Nat /\ loads[i].paddr \in Nat
  BY <1>1, MemoryAfter, MemoryPlaced
<1>3. o + n * P <= Vmcore!Offset(i + 1) /\ shown'.at = o /\ shown'.bytes = b
  BY DEF Vmcore!Mmap
<1>4. q \in Nat /\ q * P \in Nat /\ start = q * P + 0 /\ 0 \in 0 .. P - 1
  <2>1. start = q * P
    BY DEF Vmcore!Start, Vmcore!RoundDown
  <2>2. q \in Nat /\ q * P \in Nat
    <3> HIDE DEF P
    <3> QED  BY <1>1, <1>2, Pages
  <2> HIDE DEF q, P, start
  <2> QED  BY <1>1, <2>1, <2>2
<1>5. start \div P = q
  <2> HIDE DEF q, P, start
  <2> QED  BY <1>1, <1>4, InPage
<1>6. pfn = q + first /\ pfn \in Nat
  BY <1>4, <1>5
<1>7. Image(b, pfn, pfn + n)
  <2> HIDE DEF pfn
  <2> QED  BY <1>1, <1>6, RemapRight
<1> HIDE DEF b, pfn, q, start, P
<1>8. /\ first * P \in Nat /\ n * P \in Nat /\ pfn * P = start + first * P
      /\ ((pfn + n) - pfn) * P = n * P
  <2>1. first * P \in Nat /\ n * P \in Nat
    BY <1>1, Z3
  <2>2. (q + first) * P = q * P + first * P
    BY <1>1, <1>4, Z3
  <2>3. (pfn + n) - pfn = n
    BY <1>6
  <2> QED  BY <1>4, <1>6, <2>1, <2>2, <2>3
<1> DEFINE f == first * P
           w == n * P
<1>9. b \in Seq(DumpBytes) /\ Len(b) = w
  BY <1>7, <1>8 DEF Image, P
<1>10. ASSUME NEW k \in 1 .. Len(b) PROVE FileByte(o + (k - 1), b[k])
  <2>1. b[k] = Vmcore!Old(pfn * P + (k - 1))
    BY <1>7 DEF Image, P
  <2> DEFINE begin == Vmcore!Offset(i)
  <2>2. /\ o + (k - 1) \in Int /\ o + (k - 1) >= begin
        /\ o + (k - 1) < Vmcore!Offset(i + 1)
        /\ start + ((o + (k - 1)) - begin) = pfn * P + (k - 1)
    <3>1. f \in Nat /\ w \in Nat /\ begin \in Nat /\ k \in 1 .. w /\ begin + f + w <= Vmcore!Offset(i + 1)
          /\ pfn * P = start + f
      BY <1>2, <1>3, <1>8, <1>9
    <3>2. o = begin + f
      OBVIOUS
    <3> HIDE DEF f, w, begin, o
    <3> QED  BY <1>2, <3>1, <3>2
  <2> HIDE DEF o
  <2>3. FileByte(o + (k - 1), Vmcore!Old(start + ((o + (k - 1)) - begin)))
    BY <1>1, <2>2, MemoryByte DEF InLoad, start
  <2> QED  BY <2>1, <2>2, <2>3
<1>11. o \in Nat
  <2> HIDE DEF f
  <2> QED  BY <1>2, <1>8 DEF f
<1> QED  BY <1>3, <1>9, <1>10, <1>11 DEF FilePart

\* One of some things, or two.
LEMMA Short ==
    ASSUME NEW S, NEW T, S \subseteq T, NEW s \in {<<a>> : a \in S} \cup {<<a, b>> : a, b \in S}
    PROVE  s \in Seq(T) /\ s # <<>>
<1>1. CASE s \in {<<a>> : a \in S}
  <2>1. PICK a \in S : s = <<a>>
    BY <1>1
  <2>2. a \in T
    OBVIOUS
  <2> QED  BY <2>1, <2>2
<1>2. CASE s \in {<<a, b>> : a, b \in S}
  <2>1. PICK a \in S, b \in S : s = <<a, b>>
    BY <1>2
  <2>2. a \in T /\ b \in T
    OBVIOUS
  <2> QED  BY <2>1, <2>2
<1> QED  BY <1>1, <1>2

\* The setup begins with nothing; the headers are what they may be.
LEMMA DumpBegins == DumpBounds /\ Vmcore!VmcoreInit => DumpInv
<1> SUFFICES ASSUME DumpBounds, Vmcore!VmcoreInit PROVE DumpInv
  OBVIOUS
<1>1. Vmcore!Notes \subseteq DumpNotes
  <2>1. <<1>> \in Seq(Nat) /\ <<2, 1>> \in Seq(Nat)
    OBVIOUS
  <2>2. ASSUME NEW x \in Vmcore!Notes PROVE x \in DumpNotes
    <3>1. PICK s \in {<<1>>, <<2, 1>>} : x = [sizes |-> s, room |-> 2]
      BY DEF Vmcore!Notes
    <3>2. s \in Seq(Nat)
      BY <2>1
    <3> QED  BY <3>1, <3>2 DEF DumpNotes
  <2> QED  BY <2>2
<1>2. Vmcore!Loads \subseteq DumpLoads
  BY DEF Vmcore!Loads, DumpLoads, DumpBounds
<1>3. notes \in Seq(DumpNotes) /\ notes # <<>>
  <2>1. notes \in {<<a>> : a \in Vmcore!Notes} \cup {<<a, b>> : a, b \in Vmcore!Notes}
    BY DEF Vmcore!VmcoreInit
  <2> QED  BY <1>1, <2>1, Short
<1>4. loads \in Seq(DumpLoads)
  <2>1. loads \in {<<a>> : a \in Vmcore!Loads} \cup {<<a, b>> : a, b \in Vmcore!Loads}
    BY DEF Vmcore!VmcoreInit
  <2> QED  BY <1>2, <2>1, Short
<1>5. DumpTyped
  BY <1>3, <1>4 DEF DumpTyped, Vmcore!VmcoreInit
<1>6. DumpHeld /\ DumpListed
  BY <1>4 DEF DumpHeld, DumpListed, Vmcore!VmcoreInit
<1>7. DumpCopied
  BY DEF DumpCopied, FilePart, Vmcore!VmcoreInit
<1> QED  BY <1>5, <1>6, <1>7 DEF DumpInv

\* The steps of the setup.
LEMMA SetupKept ==
    ASSUME DumpInv,
           \/ Vmcore!elfcorehdr_alloc \/ Vmcore!parse_crash_elf_headers \/ Vmcore!LoadHeaders
           \/ Vmcore!MergeNotes \/ Vmcore!AddMemory \/ Vmcore!SetUpFails \/ Vmcore!CreateEntry
           \/ Vmcore!vmcore_cleanup
    PROVE  DumpHeld' /\ DumpListed' /\ UNCHANGED <<Vmcore!core, fpos, buflen, acc, shown>>
<1>1. DumpHeld /\ DumpListed /\ DumpTyped /\ DumpBounds
  BY DEF DumpInv
<1>2. UNCHANGED <<Vmcore!core, fpos, buflen, acc, shown>>
  BY DEF Vmcore!elfcorehdr_alloc, Vmcore!parse_crash_elf_headers, Vmcore!LoadHeaders,
         Vmcore!MergeNotes, Vmcore!AddMemory, Vmcore!SetUpFails, Vmcore!CreateEntry,
         Vmcore!vmcore_cleanup, Vmcore!SetUp
<1>3. DumpHeld'
  BY <1>1 DEF Vmcore!elfcorehdr_alloc, Vmcore!parse_crash_elf_headers, Vmcore!LoadHeaders,
         Vmcore!MergeNotes, Vmcore!AddMemory, Vmcore!SetUpFails, Vmcore!CreateEntry,
         Vmcore!vmcore_cleanup, Vmcore!SetUp, Vmcore!free_elfcorebuf, Vmcore!Bufs, DumpHeld
<1>4. loads' = loads /\ \A k : Vmcore!Size(loads[k])' = Vmcore!Size(loads[k])
  BY <1>2, DumpStays DEF Vmcore!core
<1>5. ASSUME Vmcore!AddMemory PROVE DumpListed'
  <2> DEFINE n == Len(vmcore_list)
             l == loads[n + 1]
             new == [paddr |-> Vmcore!Start(l), size |-> Vmcore!Size(l)]
  <2>1. /\ n < Len(loads) /\ vmcore_list' = Append(vmcore_list, new)
        /\ stage = "list" /\ stage' = "list"
    BY <1>5 DEF Vmcore!AddMemory, Vmcore!SetUp
  <2>2. vmcore_list \in Seq([paddr : Nat, size : Nat]) /\ n \in Nat /\ Len(loads) \in Nat
    BY <1>1 DEF DumpListed, DumpTyped
  <2>3. n + 1 \in DOMAIN loads
    BY <1>1, <2>1, <2>2 DEF DumpTyped
  <2>4. new \in [paddr : Nat, size : Nat] /\ new.size = Vmcore!Size(loads[n + 1])
    BY <1>1, <2>3, MemoryPlaced
  <2> HIDE DEF new
  <2>5. /\ vmcore_list' \in Seq([paddr : Nat, size : Nat]) /\ Len(vmcore_list') = n + 1
        /\ DOMAIN vmcore_list' = 1 .. n + 1 /\ DOMAIN vmcore_list = 1 .. n
        /\ vmcore_list'[n + 1] = new /\ \A k \in 1 .. n : vmcore_list'[k] = vmcore_list[k]
    BY <2>1, <2>2, <2>4
  <2>6. ASSUME NEW k \in 1 .. n + 1 PROVE vmcore_list'[k].size = Vmcore!Size(loads[k])
    <3>1. CASE k \in 1 .. n
      BY <1>1, <2>5, <3>1 DEF DumpListed
    <3>2. CASE k = n + 1
      BY <2>4, <2>5, <3>2
    <3> QED  BY <2>2, <3>1, <3>2
  <2>7. \A k \in DOMAIN vmcore_list' : vmcore_list'[k].size = Vmcore!Size(loads[k])'
    BY <1>4, <2>5, <2>6
  <2>8. Len(vmcore_list') <= Len(loads')
    BY <1>4, <2>1, <2>2, <2>5
  <2> QED  BY <2>1, <2>5, <2>7, <2>8 DEF DumpListed
<1>6. ASSUME Vmcore!vmcore_cleanup PROVE DumpListed'
  <2>1. vmcore_list' = <<>> /\ stage' = "gone"
    BY <1>6 DEF Vmcore!vmcore_cleanup
  <2>2. Len(loads') \in Nat
    BY <1>1, <1>4 DEF DumpTyped
  <2> QED  BY <2>1, <2>2 DEF DumpListed
<1>7. ASSUME \/ Vmcore!elfcorehdr_alloc \/ Vmcore!parse_crash_elf_headers
             \/ Vmcore!LoadHeaders \/ Vmcore!MergeNotes \/ Vmcore!SetUpFails
             \/ Vmcore!CreateEntry
      PROVE  DumpListed'
  <2>1. /\ vmcore_list' = vmcore_list /\ stage' # "gone"
        /\ stage' \in {"rest", "reading"} => Len(vmcore_list) = Len(loads)
    BY <1>7 DEF Vmcore!elfcorehdr_alloc, Vmcore!parse_crash_elf_headers, Vmcore!LoadHeaders,
         Vmcore!MergeNotes, Vmcore!SetUpFails, Vmcore!CreateEntry, Vmcore!SetUp
  <2> QED  BY <1>1, <1>4, <2>1 DEF DumpListed
<1> QED  BY <1>2, <1>3, <1>5, <1>6, <1>7

\* When the setup does not change, what it has made stays.
LEMMA SetupStays ==
    ASSUME DumpInv, UNCHANGED <<Vmcore!core, Vmcore!setup>>,
           stage' = stage \/ (stage \in {"rest", "reading"} /\ stage' \in {"rest", "reading"})
    PROVE  DumpHeld' /\ DumpListed'
<1>1. DumpHeld /\ DumpListed
  BY DEF DumpInv
<1>2. held' = held /\ vmcore_list' = vmcore_list
  BY DEF Vmcore!setup
<1>3. loads' = loads /\ \A k : Vmcore!Size(loads[k])' = Vmcore!Size(loads[k])
  BY DumpStays DEF Vmcore!core
<1>4. DumpHeld'
  BY <1>1, <1>2 DEF DumpHeld
<1>5. DumpListed'
  BY <1>1, <1>2, <1>3 DEF DumpListed
<1> QED  BY <1>4, <1>5

\* A part of the file is shown, while no read goes on.
LEMMA MappingKept ==
    ASSUME DumpCopied, UNCHANGED <<Vmcore!core, fpos, buflen, acc>>,
           FilePart(shown'.at, shown'.bytes)
    PROVE  DumpCopied'
<1>1. UNCHANGED Vmcore!core /\ fpos' = fpos /\ buflen' = buflen /\ acc' = acc
  OBVIOUS
<1>2. PICK x, y, u, v : x = fpos - Len(acc) /\ y = acc /\ u = shown'.at /\ v = shown'.bytes
  OBVIOUS
<1>3. FilePart(x, y) /\ FilePart(u, v)
  BY <1>2 DEF DumpCopied
<1>4. FilePart(x, y)' /\ FilePart(u, v)'
  BY <1>1, <1>3, DumpStays
<1>5. x = fpos' - Len(acc') /\ y = acc'
  BY <1>1, <1>2
<1>6. FilePart(fpos - Len(acc), acc)'
  BY <1>4, <1>5
<1>7. FilePart(shown.at, shown.bytes)'
  BY <1>2, <1>4
<1> QED  BY <1>1, <1>6, <1>7 DEF DumpCopied

\* Every step keeps the invariant.
LEMMA DumpKept == DumpInv /\ [Vmcore!VmcoreNext]_(Vmcore!vmcoreVars) => DumpInv'
<1> SUFFICES ASSUME DumpInv, [Vmcore!VmcoreNext]_(Vmcore!vmcoreVars) PROVE DumpInv'
  OBVIOUS
<1>1. DumpBounds /\ DumpTyped /\ DumpCopied
  BY DEF DumpInv
<1>2. UNCHANGED Vmcore!core => DumpTyped'
  BY <1>1, DumpStays
<1>3. DumpBounds'
  BY <1>1 DEF DumpBounds
<1>4. CASE \/ Vmcore!elfcorehdr_alloc \/ Vmcore!parse_crash_elf_headers \/ Vmcore!LoadHeaders
           \/ Vmcore!MergeNotes \/ Vmcore!AddMemory \/ Vmcore!SetUpFails \/ Vmcore!CreateEntry
           \/ Vmcore!vmcore_cleanup
  <2>1. DumpHeld' /\ DumpListed' /\ UNCHANGED <<Vmcore!core, fpos, buflen, acc, shown>>
    BY <1>4, SetupKept
  <2>2. DumpCopied'
    BY <1>1, <2>1, CopiedStays
  <2> QED  BY <1>2, <1>3, <2>1, <2>2 DEF DumpInv
<1>5. CASE \E n \in DumpCounts : Vmcore!ReadVmcore(n)
  <2>1. PICK n \in DumpCounts : Vmcore!ReadVmcore(n)
    BY <1>5
  <2>2. /\ UNCHANGED <<Vmcore!core, Vmcore!setup, fpos, shown>> /\ acc' = <<>>
        /\ stage = "rest" /\ stage' = "reading" /\ fpos < Vmcore!vmcore_size
        /\ buflen' = Vmcore!Min({n, Vmcore!vmcore_size - fpos})
    BY <2>1 DEF Vmcore!ReadVmcore
  <2>3. n \in Nat /\ fpos \in Nat /\ Vmcore!vmcore_size \in Nat
    <3>1. Len(loads) + 1 \in 1 .. Len(loads) + 1
      BY <1>1 DEF DumpTyped
    <3> QED  BY <1>1, <3>1, Offsets DEF DumpBounds, DumpCopied, Vmcore!vmcore_size
  <2>4. buflen' \in Nat
    <3>1. Vmcore!Min({n, Vmcore!vmcore_size - fpos}) =
              IF n <= Vmcore!vmcore_size - fpos THEN n ELSE Vmcore!vmcore_size - fpos
      BY <2>3, Lesser
    <3> QED  BY <2>2, <2>3, <3>1
  <2>5. FilePart(shown'.at, shown'.bytes)
    BY <1>1, <2>2 DEF DumpCopied
  <2>6. DumpCopied'
    BY <1>1, <2>2, <2>4, <2>5, ShownNext
  <2>7. DumpHeld' /\ DumpListed'
    BY <2>2, SetupStays
  <2> QED  BY <1>2, <1>3, <2>2, <2>6, <2>7 DEF DumpInv
<1>6. CASE Vmcore!ReadHeaders \/ Vmcore!ReadNotes \/ \E i \in DOMAIN loads : Vmcore!ReadMemory(i)
  <2>1. DumpCopied'
    BY <1>6, HeadersCopied, NotesCopied, MemoryCopied
  <2>2. UNCHANGED <<Vmcore!core, Vmcore!setup, stage>>
    BY <1>6 DEF Vmcore!ReadHeaders, Vmcore!ReadNotes, Vmcore!ReadMemory, Vmcore!Piece
  <2>3. DumpHeld' /\ DumpListed'
    BY <2>2, SetupStays
  <2> QED  BY <1>2, <1>3, <2>1, <2>2, <2>3 DEF DumpInv
<1>7. CASE Vmcore!ReadReturns \/ Vmcore!ReadFaults
  <2>1. /\ UNCHANGED <<Vmcore!core, Vmcore!setup, fpos>> /\ acc' = <<>>
        /\ stage = "reading" /\ stage' = "rest"
    BY <1>7 DEF Vmcore!ReadReturns, Vmcore!ReadFaults
  <2>2. buflen' \in Nat
    BY <1>1, <1>7 DEF Vmcore!ReadReturns, Vmcore!ReadFaults, DumpCopied
  <2>3. FilePart(shown'.at, shown'.bytes)
    <3>1. CASE Vmcore!ReadReturns
      <4>1. shown'.at = fpos - Len(acc) /\ shown'.bytes = acc
        BY <3>1 DEF Vmcore!ReadReturns
      <4> QED  BY <1>1, <4>1 DEF DumpCopied
    <3>2. CASE Vmcore!ReadFaults
      BY <1>1, <3>2 DEF Vmcore!ReadFaults, DumpCopied
    <3> QED  BY <1>7, <3>1, <3>2
  <2>4. DumpCopied'
    BY <1>1, <2>1, <2>2, <2>3, ShownNext
  <2>5. DumpHeld' /\ DumpListed'
    BY <2>1, SetupStays
  <2> QED  BY <1>2, <1>3, <2>1, <2>4, <2>5 DEF DumpInv
<1>8. CASE \E i \in DOMAIN loads, first \in 0 .. 1, n \in 1 .. 2 : Vmcore!Mmap(i, first, n)
  <2>1. PICK i \in DOMAIN loads, first \in 0 .. 1, n \in 1 .. 2 : Vmcore!Mmap(i, first, n)
    BY <1>8
  <2>2. FilePart(shown'.at, shown'.bytes)
    <3>1. first \in Nat /\ n \in Nat
      OBVIOUS
    <3> QED  BY <2>1, <3>1, MappingShown
  <2>3. UNCHANGED <<Vmcore!core, Vmcore!setup, fpos, buflen, acc, stage>>
    BY <2>1 DEF Vmcore!Mmap
  <2>4. DumpCopied'
    BY <1>1, <2>2, <2>3, MappingKept
  <2>5. DumpHeld' /\ DumpListed'
    BY <2>3, SetupStays
  <2> QED  BY <1>2, <1>3, <2>3, <2>4, <2>5 DEF DumpInv
<1>9. CASE UNCHANGED Vmcore!vmcoreVars
  <2>1. UNCHANGED <<Vmcore!core, Vmcore!setup, fpos, buflen, acc, stage, shown>>
    BY <1>9 DEF Vmcore!vmcoreVars
  <2>2. DumpCopied'
    BY <1>1, <2>1, CopiedStays
  <2>3. DumpHeld' /\ DumpListed'
    BY <2>1, SetupStays
  <2> QED  BY <1>2, <1>3, <2>1, <2>2, <2>3 DEF DumpInv
<1> QED  BY <1>4, <1>5, <1>6, <1>7, <1>8, <1>9 DEF Vmcore!VmcoreNext

\* What the headers say of the memory is what is shown.
LEMMA MemoryShown ==
    ASSUME DumpInv, elfclass = 64 \/ Vmcore!vmcore_size <= WORD,
           NEW i \in DOMAIN loads, NEW k \in 0 .. loads[i].memsz - 1,
           Vmcore!LoadOffset(i) + k \in Vmcore!Shows
    PROVE  Vmcore!At(Vmcore!LoadOffset(i) + k) = Vmcore!Old(loads[i].paddr + k)
<1> DEFINE start == Vmcore!Start(loads[i])
           begin == Vmcore!Offset(i)
           x == begin + (loads[i].paddr - start)
           o == Vmcore!LoadOffset(i) + k
           j == o - shown.at + 1
<1>1. DumpBounds /\ DumpTyped /\ FilePart(shown.at, shown.bytes)
  BY DEF DumpInv, DumpCopied
<1>2. /\ start \in Nat /\ Vmcore!Size(loads[i]) \in Nat /\ begin \in Nat
      /\ loads[i].paddr \in Nat /\ loads[i].memsz \in Nat /\ start <= loads[i].paddr
      /\ loads[i].paddr + loads[i].memsz <= start + Vmcore!Size(loads[i])
      /\ Vmcore!Offset(i + 1) = begin + Vmcore!Size(loads[i])
  BY <1>1, MemoryPlaced, MemoryAfter, Offsets
<1>3. x \in Nat /\ begin <= x /\ x + k < Vmcore!Offset(i + 1) /\ k \in Nat
  <2> HIDE DEF start, begin
  <2> QED  BY <1>2
<1>4. Vmcore!Offset(i + 1) <= Vmcore!vmcore_size /\ Vmcore!vmcore_size \in Nat
  <2>1. Len(loads) \in Nat /\ i \in 1 .. Len(loads)
    BY <1>1 DEF DumpTyped
  <2>2. i + 1 \in 1 .. Len(loads) + 1 /\ Len(loads) + 1 \in i + 1 .. Len(loads) + 1
        /\ Len(loads) + 1 \in 1 .. Len(loads) + 1
    BY <2>1
  <2> QED  BY <1>1, <2>2, Offsets, OffsetsOrdered DEF Vmcore!vmcore_size
<1>5. Vmcore!LoadOffset(i) = x
  <2>1. Vmcore!LoadOffset(i) = Vmcore!Off(x)
    BY DEF Vmcore!LoadOffset
  <2>2. CASE elfclass = 64
    BY <2>1, <2>2 DEF Vmcore!Off
  <2>3. CASE elfclass # 64
    <3>1. Vmcore!Offset(i + 1) \in Nat
      BY <1>1, MemoryAfter
    <3> HIDE DEF x
    <3>2. x \in Nat /\ x < WORD /\ WORD \in Nat \ {0}
      BY <1>1, <1>3, <1>4, <2>3, <3>1 DEF DumpBounds
    <3>3. x % WORD = x
      BY <3>2, Z3
    <3> QED  BY <2>1, <3>3 DEF Vmcore!Off
  <2> QED  BY <2>2, <2>3
<1> HIDE DEF x
<1>6. /\ o = x + k /\ o \in Nat /\ shown.at \in Nat /\ Len(shown.bytes) \in Nat
      /\ o \in shown.at .. shown.at + Len(shown.bytes) - 1
  BY <1>1, <1>3, <1>5 DEF FilePart, Vmcore!Shows
<1> HIDE DEF o
<1>7. j \in 1 .. Len(shown.bytes) /\ shown.at + (j - 1) = o
  BY <1>6
<1>8. FileByte(o, shown.bytes[j])
  <2> HIDE DEF j
  <2> QED  BY <1>1, <1>7 DEF FilePart
<1>9. InLoad(i, o)
  <2>1. Vmcore!Offset(i + 1) \in Nat
    BY <1>1, MemoryAfter
  <2> QED  BY <1>2, <1>3, <1>6, <2>1 DEF InLoad
<1>10. shown.bytes[j] = Vmcore!Old(start + (o - begin))
  <2> HIDE DEF j
  <2> QED  BY <1>8, <1>9 DEF FileByte
<1>11. start + (o - begin) = loads[i].paddr + k
  <2> DEFINE p == loads[i].paddr
  <2>1. start \in Nat /\ begin \in Nat /\ p \in Nat /\ k \in Nat /\ o = begin + (p - start) + k
    BY <1>2, <1>3, <1>6 DEF x
  <2> HIDE DEF start, begin, p
  <2>2. start + (o - begin) = p + k
    BY <2>1
  <2> QED  BY <2>2 DEF p
<1>12. Vmcore!At(o) = shown.bytes[j]
  BY DEF Vmcore!At
<1> QED  BY <1>10, <1>11, <1>12 DEF o

\* So is what they say of the notes.
LEMMA NotesShown ==
    ASSUME DumpInv,
           NEW o \in Vmcore!Shows \cap Vmcore!NoteOffset .. Vmcore!NoteOffset + Vmcore!sz_ptnote - 1
    PROVE  Vmcore!At(o) = Vmcore!NotesBuf[o - Vmcore!NoteOffset + 1]
<1> DEFINE j == o - shown.at + 1
<1>1. DumpBounds /\ DumpTyped /\ FilePart(shown.at, shown.bytes)
  BY DEF DumpInv, DumpCopied
<1>2. Vmcore!NoteOffset \in Nat /\ Vmcore!sz_ptnote \in Nat
  BY <1>1, HeadersPlaced, NotesSized
<1>3. /\ shown.at \in Nat /\ Len(shown.bytes) \in Nat /\ o \in Int
      /\ o \in shown.at .. shown.at + Len(shown.bytes) - 1
      /\ o >= Vmcore!NoteOffset /\ o < Vmcore!NoteOffset + Vmcore!sz_ptnote
  BY <1>1, <1>2 DEF FilePart, Vmcore!Shows
<1>4. j \in 1 .. Len(shown.bytes) /\ shown.at + (j - 1) = o
  BY <1>3
<1>5. FileByte(o, shown.bytes[j])
  <2> HIDE DEF j
  <2> QED  BY <1>1, <1>4 DEF FilePart
<1>6. shown.bytes[j] = Vmcore!NotesBuf[o - Vmcore!NoteOffset + 1]
  <2> HIDE DEF j
  <2> QED  BY <1>3, <1>5 DEF FileByte
<1> QED  BY <1>6 DEF Vmcore!At

\* The invariant has what is asked of the file.
LEMMA DumpRight == DumpInv => Vmcore!CoreRight
<1> SUFFICES ASSUME DumpInv PROVE Vmcore!CoreRight
  OBVIOUS
<1>1. DumpHeld /\ DumpListed /\ DumpTyped
  BY DEF DumpInv
<1>2. ASSUME stage \in {"rest", "reading"}
      PROVE  Vmcore!vmcore_off + Vmcore!SumOf([i \in DOMAIN vmcore_list |-> vmcore_list[i].size])
                 = Vmcore!vmcore_size
  <2> DEFINE n == Len(loads)
  <2>1. n \in Nat /\ DOMAIN vmcore_list = 1 .. n
    BY <1>1, <1>2 DEF DumpListed, DumpTyped
  <2>2. (n + 1) - 1 = n
    BY <2>1
  <2>3. [i \in DOMAIN vmcore_list |-> vmcore_list[i].size] = [j \in 1 .. n |-> Vmcore!Size(loads[j])]
    BY <1>1, <2>1 DEF DumpListed
  <2>4. Vmcore!vmcore_size = Vmcore!vmcore_off + Vmcore!SumOf([j \in 1 .. (n + 1) - 1 |-> Vmcore!Size(loads[j])])
    BY DEF Vmcore!vmcore_size, Vmcore!Offset
  <2> HIDE DEF n
  <2> QED  BY <2>2, <2>3, <2>4
<1>3. elfclass = 64 \/ Vmcore!vmcore_size <= WORD =>
          \A i \in DOMAIN loads : \A k \in 0 .. loads[i].memsz - 1 :
              Vmcore!LoadOffset(i) + k \in Vmcore!Shows =>
                  Vmcore!At(Vmcore!LoadOffset(i) + k) = Vmcore!Old(loads[i].paddr + k)
  BY MemoryShown
<1>4. \A o \in Vmcore!Shows \cap Vmcore!NoteOffset .. Vmcore!NoteOffset + Vmcore!sz_ptnote - 1 :
          Vmcore!At(o) = Vmcore!NotesBuf[o - Vmcore!NoteOffset + 1]
  BY NotesShown
<1>5. /\ stage \in {"rest", "reading"} => held = Vmcore!Bufs \cup {"proc_vmcore"}
      /\ stage \in {"failed", "gone"} => held \subseteq {"elfcorehdr"}
      /\ stage = "gone" => vmcore_list = <<>>
  BY <1>1 DEF DumpHeld, DumpListed
<1> QED  BY <1>2, <1>3, <1>4, <1>5 DEF Vmcore!CoreRight

\* A crashed kernel's memory is shown where its headers say, whatever the reads and mappings.
THEOREM DumpShown == Vmcore!VmcoreInit /\ [][Vmcore!VmcoreNext]_(Vmcore!vmcoreVars) => []Vmcore!CoreRight
<1>1. Vmcore!VmcoreInit => DumpInv
  BY DumpBegins, ProgramBounds
<1> QED  BY <1>1, DumpKept, DumpRight, PTL
-----------------------------------------------------------------------------
(***************************************************************************)
(* The nine programs together, as they are checked: one of them runs.      *)
(***************************************************************************)
\* The invariant is that of the program that runs.
ProgramsInv == /\ In("Loose", LooseInv) /\ In("Circular", RingInv)
               /\ In("Advanced", AdvancedInv) /\ In("Broken", BrokenParts)
               /\ In("Calls", CallsParts) /\ In("Dirty", DirtyInv) /\ In("Oom", OomInv)
               /\ In("Core", ReaderInv) /\ In("Vmcore", DumpInv)

\* It holds at first, ...
LEMMA ProgramsBegin == ProgramsInit => ProgramsInv
BY LooseBegins, RingBegins, AdvancedBegins, BrokenBegins, CallsBegin, DirtyBegins,
   OomBegins, CoreBegins, DumpBegins, ProgramBounds DEF ProgramsInit, ProgramsInv, In

\* ... and a step is one of the program that runs, or leaves its variables alone.
LEMMA ProgramsGoOn == ProgramsInv /\ [ProgramsNext]_slots => ProgramsInv'
<1> SUFFICES ASSUME ProgramsInv, [ProgramsNext]_slots PROVE ProgramsInv'
  OBVIOUS
<1> USE DEF ProgramsInv, In
<1>1. CASE LooseStep
  BY <1>1, LooseGoesOn DEF LooseStep
<1>2. CASE CircularStep
  BY <1>2, RingGoesOn DEF CircularStep
<1>3. CASE AdvancedStep
  BY <1>3, AdvancedGoesOn DEF AdvancedStep
<1>4. CASE BrokenStep
  BY <1>4, BrokenGoesOn DEF BrokenStep
<1>5. CASE CallsStep
  BY <1>5, CallsGoOn DEF CallsStep
<1>6. CASE DirtyStep
  BY <1>6, DirtyKept DEF DirtyStep
<1>7. CASE OomStep
  BY <1>7, OomKept, ProgramBounds DEF OomStep
<1>8. CASE CoreStep
  BY <1>8, ReaderStep, ProgramBounds DEF CoreStep
<1>9. CASE VmcoreStep
  BY <1>9, DumpKept DEF VmcoreStep
<1>10. CASE UNCHANGED slots
  <2>1. /\ UNCHANGED program /\ UNCHANGED <<x1, x2, x3, x4, x5, x6, x7, x8, x9>>
        /\ UNCHANGED <<x10, x11, x12, x13, x14>>
    BY <1>10 DEF slots, Rest9
  <2>2. UNCHANGED Loose!vars
    BY <2>1 DEF Loose!vars, Loose!lock, Loose!list, Loose!history
  <2>3. UNCHANGED Circ!vars
    BY <2>1 DEF Circ!vars, Circ!module, Circ!ring
  <2>4. UNCHANGED Adv!vars
    BY <2>1 DEF Adv!vars, Adv!inserted, Adv!name, Adv!path
  <2>5. UNCHANGED Broken!brokenVars
    BY <2>1 DEF Broken!brokenVars, Broken!shared, Broken!history
  <2>6. UNCHANGED Calls!callVars
    BY <2>1 DEF Calls!callVars, Calls!list, Calls!names, Calls!counts
  <2>7. UNCHANGED Dirty!dirtyVars
    BY <2>1 DEF Dirty!dirtyVars, Dirty!pages
  <2>8. UNCHANGED Oom!oomVars
    BY <2>1 DEF Oom!oomVars
  <2>9. UNCHANGED Core!kcoreVars
    BY <2>1 DEF Core!kcoreVars, Core!hotplugs, Core!kclists, Core!openers, Core!reader
  <2>10. UNCHANGED Vmcore!vmcoreVars
    BY <2>1 DEF Vmcore!vmcoreVars, Vmcore!core, Vmcore!setup
  <2> QED  BY <2>1, <2>2, <2>3, <2>4, <2>5, <2>6, <2>7, <2>8, <2>9, <2>10, LooseGoesOn,
              RingGoesOn, AdvancedGoesOn, BrokenGoesOn, CallsGoOn, DirtyKept, OomKept,
              ReaderStep, DumpKept, ProgramBounds
<1> QED  BY <1>1, <1>2, <1>3, <1>4, <1>5, <1>6, <1>7, <1>8, <1>9, <1>10 DEF ProgramsNext

\* In any behaviour of any of the nine programs its invariant holds.
THEOREM ProgramsSafe == ProgramsSpec => []ProgramsInv
BY ProgramsBegin, ProgramsGoOn, PTL DEF ProgramsSpec

\* For any processes, requests, sizes and lengths: no chunk of the linked list is used
\* after it is freed while the rwlock holds, and none that is freed is in the list while
\* writes are kept apart, though a clearing takes out one chunk at a time; no byte outside
\* the circular buffer is used unless sizes race, and no path of a mount after its buffer
\* is swapped.
THEOREM MemoryIsSafe == ProgramsSpec => []MemorySafe
<1>1. ProgramsInv => MemorySafe
  BY DEF ProgramsInv, In, MemorySafe, LooseInv, RingInv, AdvancedInv
<1> QED  BY <1>1, ProgramsSafe, PTL

\* For any processes and writes: no chunk is lost but from writes that overlap without a
\* lock, and the last undisturbed write is in the circular buffer.
THEOREM WritesAreKept == ProgramsSpec => []WritesKept
<1>1. ProgramsInv => WritesKept
  BY DEF ProgramsInv, In, WritesKept, LooseInv, RingInv
<1> QED  BY <1>1, ProgramsSafe, PTL

\* For any processes, users, names, numbers and values: what the calls leave when they
\* are over fits together.
THEOREM RestIsRight == ProgramsSpec => []RightAtRest
<1>1. ProgramsInv => RightAtRest
  <2> SUFFICES ASSUME ProgramsInv PROVE RightAtRest
    OBVIOUS
  <2>1. In("Loose", Loose!LengthAtRest)
    BY DEF ProgramsInv, In, LooseInv
  <2>2. In("Advanced", Adv!NameMeasured /\ Adv!BuffersOwned)
    BY DEF ProgramsInv, In, AdvancedInv
  <2>3. In("Broken", Broken!AnswersRight /\ Broken!CallsCounted)
    BY BrokenWhole, ProgramBounds DEF ProgramsInv, In, BrokenInv
  <2>4. In("Calls", Calls!CallsRight)
    BY CallsWhole, ProgramBounds DEF ProgramsInv, In, CallsParts
  <2>5. In("Oom", Oom!AdjShared)
    BY OomRight DEF ProgramsInv, In
  <2> QED  BY <2>1, <2>2, <2>3, <2>4, <2>5 DEF RightAtRest
<1> QED  BY <1>1, ProgramsSafe, PTL

\* For any pages: those written after a clear of the soft-dirty bits are reported.
THEOREM WritesAreReported == ProgramsSpec => []WritesReported
<1>1. ProgramsInv => WritesReported
  BY DEF ProgramsInv, In, WritesReported, DirtyInv
<1> QED  BY <1>1, ProgramsSafe, PTL

\* For any blocks of memory, any openers and any number of hotplugs: the list of areas
\* follows the memory; the inode has the size of the entry when nobody is opening the file
\* and the last opening has met no other one; a reader finds where the headers place an area
\* that area; and the struct pages of all RAM are shown once, but for a range whose first
\* struct pages share a page with those of the range before.
THEOREM AreasAreKnown == ProgramsSpec => []AreasKnown
<1>1. ProgramsInv => AreasKnown
  BY VmemmapsAlwaysRight DEF ProgramsInv, In, AreasKnown, ReaderInv, KcoreInv, SizesKnown,
     Core!AreasKnown
<1> QED  BY <1>1, ProgramsSafe, PTL

\* For any sizes of a page, of a word and of reads: where the program headers of a crashed
\* kernel say that memory and notes are, reads and mappings show them, however they are
\* cut up; and the setup leaves nothing that can be read when it fails.
THEOREM CoreIsRight == ProgramsSpec => []CoreRight
<1>1. ProgramsInv => CoreRight
  BY DumpRight DEF ProgramsInv, In, CoreRight
<1> QED  BY <1>1, ProgramsSafe, PTL
=============================================================================
