---------------------------- MODULE LetterQueue -----------------------------
(***************************************************************************)
(* The ring buffer of letters of cw01 zad6 (and, word for word, of zad2):  *)
(* an array of QUEUE_SIZE = QUEUE_ELEMENTS + 1 cells, one of which stays   *)
(* free, so that QueueIn = QueueOut means empty.                           *)
(***************************************************************************)
EXTENDS Integers, Sequences

CONSTANTS QUEUE_ELEMENTS,
          Letters,            \* what the writers put
          NUL                 \* what a cell holds before that

ASSUME QueueElements == QUEUE_ELEMENTS \in Nat \ {0}
ASSUME NULNotALetter == NUL \notin Letters

VARIABLES Queue, QueueIn, QueueOut, QueueLen

queueVars == <<Queue, QueueIn, QueueOut, QueueLen>>

QUEUE_SIZE == QUEUE_ELEMENTS + 1

QueueInit == /\ Queue = [i \in 0 .. QUEUE_ELEMENTS |-> NUL]
             /\ QueueIn = 0 /\ QueueOut = 0 /\ QueueLen = 0

\* The cell after a cell of the ring.
\* Mutant: it wraps one cell too early.
AfterWrapsEarly(index) == (index + 1) % QUEUE_ELEMENTS
After(index) == (index + 1) % QUEUE_SIZE

QueueFull  == QueueIn = (QueueOut - 1 + QUEUE_SIZE) % QUEUE_SIZE
QueueEmpty == QueueIn = QueueOut

\* A full queue drops the letter (and returns -1, which no caller looks at).
QueuePut(new) ==
    IF QueueFull THEN UNCHANGED queueVars
    ELSE /\ Queue' = [Queue EXCEPT ![QueueIn] = new]
         /\ QueueIn' = After(QueueIn)
         /\ QueueLen' = QueueLen + 1
         /\ UNCHANGED QueueOut

\* What *old holds after QueueGet: unchanged when the queue is empty.
QueueRead(old) == IF QueueEmpty THEN old ELSE Queue[QueueOut]

QueueGet ==
    IF QueueEmpty THEN UNCHANGED queueVars
    ELSE /\ QueueLen' = QueueLen - 1
         /\ QueueOut' = After(QueueOut)
         /\ UNCHANGED <<Queue, QueueIn>>

-----------------------------------------------------------------------------
\* The contents, oldest letter first.
QueueItems ==
    [i \in 1 .. QueueLen |-> Queue[(QueueOut + i - 1) % QUEUE_SIZE]]

QueueTypeOK == /\ Queue \in [0 .. QUEUE_ELEMENTS -> Letters \cup {NUL}]
               /\ QueueIn \in 0 .. QUEUE_ELEMENTS
               /\ QueueOut \in 0 .. QUEUE_ELEMENTS
               /\ QueueLen \in 0 .. QUEUE_ELEMENTS

\* The two indices and the separate length say the same thing: this is what
\* lets the callers test QueueLen instead of the return codes.
QueueConsistent == QueueIn = QueueOut + QueueLen
                   \/ QueueIn + QUEUE_SIZE = QueueOut + QueueLen
=============================================================================
