--------------------------- MODULE BrokenDevices ---------------------------
(***************************************************************************)
(* /dev/broken between insmod and rmmod: four modules that are to crash    *)
(* (cw04/debug/oops/1-4), and how each was repaired (cw05/debug/1-4).      *)
(* The first, second and fourth give a reader a text of their own making;  *)
(* the fourth counts the digits of what is written.  The third keeps that  *)
(* in buf1, puts the name of the process of that number in its place, and  *)
(* formats a reader's answer in buf2.  There are no locks.  (DriverModules *)
(* has how the modules come and go.)  A text is the number that it stands  *)
(* for, 0 for none; no process has a number for its name.  What touches a  *)
(* shared variable once is one step here.                                  *)
(***************************************************************************)
EXTENDS Integers, Sequences, FiniteSets

CONSTANTS Procs, Numbers,       \* who uses it; what is written
          MaxLen, MaxCalls      \* bounds: of a text to be counted; calls

VARIABLES version,              \* which of the eight it is
          buf1, buf2,           \* <<"raw" or "name" or "spoilt", number>>
          numbers_count,
          counts,               \* read_count and write_count
          memory,               \* the callers whose mybuf is allocated
          f_pos,                \* of each process's file
          pc, local,            \* where each process is, its variables
          calls,                \* bound
          done,                 \* history: how often each counter was to be incremented
          counted,              \* history: the text that was counted last, and what had
                                \* been in the place behind it
          wrote,                \* history: the last number written; have calls overlapped
          quiet                 \* history: readers during whose read nobody wrote

shared     == <<buf1, buf2, numbers_count, memory>>
history    == <<done, counted, wrote, quiet>>
brokenVars == <<version, shared, counts, f_pos, pc, local, calls, history>>

Oops    == {"oops1", "oops2", "oops3", "oops4"}
Naming  == {"oops3", "debug3"}
Digits  == {"oops4", "debug4"}
Chars   == {"digit", "letter", "zero"}
Texts   == UNION {[1 .. n -> Chars] : n \in 1 .. MaxLen}
NoCall  == [count |-> "read", old |-> 0, pid |-> 0]
Zero    == [read |-> 0, write |-> 0]

BrokenInit ==
    /\ version \in Oops \cup {"debug1", "debug2", "debug3", "debug4"}
    /\ buf1 = <<"raw", 0>> /\ buf2 = <<"raw", 0>> /\ numbers_count = 0
    /\ counts = Zero /\ memory = {} /\ f_pos = [p \in Procs |-> 0]
    /\ pc = [p \in Procs |-> "user"] /\ local = [p \in Procs |-> NoCall] /\ calls = 0
    /\ done = Zero /\ counted = <<>> /\ wrote = [last |-> 0, together |-> FALSE] /\ quiet = {}

Goto(p, from, to) == pc[p] = from /\ pc' = [pc EXCEPT ![p] = to]
\* A call begins; others may be under way.
Call(p, to) == /\ Goto(p, "user", to) /\ calls < MaxCalls /\ calls' = calls + 1
Writers == {p \in Procs : pc[p] \in {"parsing", "filling"}}

-----------------------------------------------------------------------------
\* read_count++ and write_count++, at the end of a call.
LoadCount(p) == LET c == local[p].count IN
    /\ Goto(p, "counting", "storing")
    /\ local' = [local EXCEPT ![p].old = counts[c]]
    /\ done' = [done EXCEPT ![c] = @ + 1]
    /\ UNCHANGED <<version, shared, counts, f_pos, calls, counted, wrote, quiet>>
StoreCount(p) == /\ Goto(p, "storing", "user")
                 /\ counts' = [counts EXCEPT ![local[p].count] = local[p].old + 1]
                 /\ local' = [local EXCEPT ![p] = NoCall]
                 /\ UNCHANGED <<version, shared, f_pos, calls, history>>

-----------------------------------------------------------------------------
\* broken_read of 1, 2 and 4 makes its text in a buffer of its own; oops2 makes it in
\* the module's, which is NULL ...
Filled  == IF version = "oops2" THEN "dead" ELSE "filled"
Fill(p) == /\ version \notin Naming
           /\ Call(p, Filled)
           /\ memory' = memory \cup {p}
           /\ UNCHANGED <<version, buf1, buf2, numbers_count, counts, f_pos, local, history>>
\* ... copies it out, which may fail, and frees it; oops1 frees the user's.
Copied      == IF version = "oops1" THEN "dead" ELSE "counting"
CopyText(p) == /\ Goto(p, "filled", Copied)
               /\ memory' = IF Copied = "dead" THEN memory ELSE memory \ {p}
               /\ f_pos' \in {f_pos, [f_pos EXCEPT ![p] = 1]}
               /\ UNCHANGED <<version, buf1, buf2, numbers_count, counts, local, calls, history>>

-----------------------------------------------------------------------------
\* broken_write of 3: the text is copied, parsed where it lies and replaced.
CopyIn(p, n) == /\ version \in Naming
                /\ Call(p, "parsing")
                /\ buf1' = <<"raw", n>>
                /\ wrote' = [last |-> n, together |-> wrote.together \/ Writers # {}]
                /\ quiet' = {}
                /\ UNCHANGED <<version, buf2, numbers_count, counts, memory, f_pos, local,
                               done, counted>>
Number == IF buf1[1] = "raw" THEN buf1[2] ELSE 0
\* oops3 has simple_strtol put the end of the number into buf1 as well.
Parse(p) == /\ Goto(p, "parsing", IF Number < 1 THEN "counting" ELSE "filling")
            /\ local' = [local EXCEPT ![p].pid = Number, ![p].count = "write"]
            /\ buf1' = IF version = "oops3" THEN <<"spoilt", 0>> ELSE buf1
            /\ UNCHANGED <<version, buf2, numbers_count, counts, memory, f_pos, calls, history>>
\* oops3 takes the number of a process for the address of its name, if there is one.
fill_buffer_with_process_name(p) ==
    /\ \/ Goto(p, "filling", "counting") /\ buf1' = <<"name", local[p].pid>>
       \/ version = "oops3" /\ Goto(p, "filling", "dead") /\ UNCHANGED buf1
    /\ local' = [local EXCEPT ![p].pid = 0]
    /\ UNCHANGED <<version, buf2, numbers_count, counts, memory, f_pos, calls, history>>

\* broken_read of 3 formats its answer, and copies it.
Format(p)  == /\ version \in Naming
              /\ Call(p, "formatted")
              /\ buf2' = buf1
              /\ quiet' = IF Writers = {} THEN quiet \cup {p} ELSE quiet
              /\ UNCHANGED <<version, buf1, numbers_count, counts, memory, f_pos, local,
                             done, counted, wrote>>
CopyOut(p) == /\ Goto(p, "formatted", "counting")
              /\ quiet' = quiet \ {p}
              /\ f_pos' = [f_pos EXCEPT ![p] = 1]
              /\ UNCHANGED <<version, shared, counts, local, calls, done, counted, wrote>>

-----------------------------------------------------------------------------
\* broken_write of 4: the 0 is put one place too far behind the text, and what the
\* memory holds before it is counted too; count_numbers goes on before it looks.
count_numbers(str) ==
    LET end == CHOOSE i \in DOMAIN str : str[i] = "zero" /\ \A j \in 1 .. i - 1 : str[j] # "zero"
    IN  Cardinality({i \in 2 .. end : str[i] = "digit"})
Count(p, t, c) == /\ version = "debug4"
                  /\ Call(p, "counting")
                  /\ local' = [local EXCEPT ![p].count = "write"]
                  /\ counted' = <<t, c>>
                  /\ numbers_count' = count_numbers(t \o <<c, "zero">>)
                  /\ UNCHANGED <<version, buf1, buf2, counts, memory, f_pos, done, wrote, quiet>>
\* Nothing, or a text that faults, is not counted, but the call is.
CountFails(p) == /\ version = "debug4"
                 /\ Call(p, "counting")
                 /\ local' = [local EXCEPT ![p].count = "write"]
                 /\ UNCHANGED <<version, shared, counts, f_pos, history>>
\* oops4 forgets where its buffer is, debug4 does not look if there is one; both write
\* to where it is not.
NoBuffer(p) == /\ version \in Digits
               /\ Call(p, "dead")
               /\ memory' = IF version = "oops4" THEN memory \cup {p} ELSE memory
               /\ UNCHANGED <<version, buf1, buf2, numbers_count, counts, f_pos, local, history>>

BrokenNext == \/ \E p \in Procs : \/ LoadCount(p) \/ StoreCount(p)
                                  \/ Fill(p) \/ CopyText(p)
                                  \/ \E n \in Numbers : CopyIn(p, n)
                                  \/ Parse(p) \/ fill_buffer_with_process_name(p)
                                  \/ Format(p) \/ CopyOut(p)
                                  \/ \E t \in Texts, c \in Chars : Count(p, t, c)
                                  \/ CountFails(p) \/ NoBuffer(p)

-----------------------------------------------------------------------------
DigitsOf(t) == Cardinality({i \in DOMAIN t : t[i] = "digit" /\ \A j \in 1 .. i : t[j] # "zero"})
Dead == {p \in Procs : pc[p] = "dead"}

\* Whatever writes overlap, when they are over buf1 has no number that waits for its
\* name, and it has that of the last write if none did; only oops3 spoils it.  Reads
\* spoil each other's buf2 only when somebody writes.  The count is wrong by one at most.
AnswersRight ==
    /\ Writers = {} /\ Dead = {} =>
          /\ buf1[1] = "raw" => buf1[2] = 0
          /\ ~wrote.together =>
                IF wrote.last > 0 THEN buf1 = <<"name", wrote.last>>
                ELSE buf1 = <<"raw", 0>> \/ (version = "oops3" /\ buf1 = <<"spoilt", 0>>)
    /\ \A p \in quiet : buf2 = buf1
    /\ counted # <<>> => numbers_count - DigitsOf(counted[1]) \in {-1, 0, 1}

\* A buffer belongs to a call that is under way, or is lost with the process that
\* died in it, which in the repaired modules nobody does who gets memory.  The counters
\* lose calls, but have none that has not been.
CallsCounted ==
    /\ memory = {p \in Procs : pc[p] = "filled"}
                \cup (IF version \in Oops \ {"oops3"} THEN Dead ELSE {})
    /\ version \in {"debug1", "debug2", "debug3"} => Dead = {}
    /\ \A c \in DOMAIN counts :
          LET storing == {p \in Procs : pc[p] = "storing" /\ local[p].count = c}
          IN  /\ counts[c] + (IF storing = {} THEN 0 ELSE 1) <= done[c]
              /\ \A p \in storing : local[p].old < done[c]
=============================================================================
