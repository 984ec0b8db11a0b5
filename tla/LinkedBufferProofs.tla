------------------------- MODULE LinkedBufferProofs -------------------------
(***************************************************************************)
(* /dev/linked with the semaphore or the mutex, for any number of          *)
(* processes, any writes, any sizes of the chunks and of the buffers: the  *)
(* inductive invariant, and the refinement of LinkedDevice.  What the loop *)
(* of a read computes is proved by induction over the list.                *)
(***************************************************************************)
EXTENDS LinkedBuffer, SequenceTheorems, WellFoundedInduction, TLAPS

\* The natural numbers are well-founded, ...
Less == {pair \in Nat \X Nat : pair[1] < pair[2]}

LEMMA LessWellFounded == IsWellFoundedOn(Less, Nat)
<1>1. OpToRel(<, Nat) = Less
  BY Zenon DEF OpToRel, Less
<1> QED  BY <1>1, NatLessThanWellFounded, Zenon

\* ... hence what holds of 0 and is passed on holds of all: induction, for the set of
\* the numbers of which it holds.
LEMMA Induction ==
    ASSUME NEW T, 0 \in T, \A n \in Nat : n \in T => n + 1 \in T
    PROVE  Nat \subseteq T
<1> SUFFICES ASSUME Nat \ T # {} PROVE FALSE
  OBVIOUS
<1>1. PICK x \in Nat \ T : \A y \in Nat \ T : <<y, x>> \notin Less
  BY LessWellFounded, WFMin
<1>2. x # 0 /\ x - 1 \in Nat /\ x = (x - 1) + 1 /\ x - 1 < x
  BY <1>1
<1>3. <<x - 1, x>> \in Less
  BY <1>1, <1>2 DEF Less
<1> QED  BY <1>1, <1>2, <1>3

\* Up to n: as Induction.
LEMMA InductionUpTo ==
    ASSUME NEW n \in Nat, NEW T, 0 \in T, \A k \in 1 .. n : k - 1 \in T => k \in T
    PROVE  0 .. n \subseteq T
<1> DEFINE U == {k \in Nat : k <= n => k \in T}
<1>1. 0 \in U
  OBVIOUS
<1>2. ASSUME NEW k \in Nat, k \in U PROVE k + 1 \in U
  <2>1. CASE k + 1 <= n
    BY <1>2, <2>1
  <2> QED  BY <2>1
<1>3. Nat \subseteq U
  <2> HIDE DEF U
  <2> QED  BY <1>1, <1>2, Induction
<1> QED  BY <1>3

\* f begins with base and goes from each number to the next by a step.
Goes(f, n, T, base, step) == /\ f \in [0 .. n -> T] /\ f[0] = base
                             /\ \A k \in 1 .. n : f[k] = step[k][f[k - 1]]

\* There is such a function: what is defined by recursion along 0 .. n exists.
LEMMA Recursion ==
    ASSUME NEW n \in Nat, NEW T, NEW base \in T, NEW step \in [1 .. n -> [T -> T]]
    PROVE  \E f : Goes(f, n, T, base, step)
<1> DEFINE Right(f, m) == /\ f \in [0 .. m -> T] /\ f[0] = base
                          /\ \A k \in 1 .. m : f[k] = step[k][f[k - 1]]
           U == {m \in 0 .. n : \E f : Right(f, m)}
<1>1. 0 \in U
  <2> DEFINE g == [k \in 0 .. 0 |-> base]
  <2>1. g \in [0 .. 0 -> T] /\ g[0] = base /\ 1 .. 0 = {}
    OBVIOUS
  <2>2. Right(g, 0)
    <3> HIDE DEF g
    <3> QED  BY <2>1
  <2>3. \E f : Right(f, 0)
    <3> HIDE DEF Right, g
    <3> QED  BY <2>2
  <2> QED  BY <2>3
<1>2. ASSUME NEW m \in 1 .. n, m - 1 \in U PROVE m \in U
  <2>1. PICK f : Right(f, m - 1)
    BY <1>2
  <2> DEFINE g == [k \in 0 .. m |-> IF k = m THEN step[m][f[m - 1]] ELSE f[k]]
  <2>2. f[m - 1] \in T /\ step[m][f[m - 1]] \in T
    BY <2>1
  <2>3. g \in [0 .. m -> T] /\ g[0] = base
    BY <2>1, <2>2
  <2>4. ASSUME NEW k \in 1 .. m PROVE g[k] = step[k][g[k - 1]]
    <3>1. g[k - 1] = f[k - 1]
      OBVIOUS
    <3>2. CASE k = m
      BY <3>1, <3>2
    <3>3. CASE k # m
      BY <2>1, <3>1, <3>3
    <3> QED  BY <3>2, <3>3
  <2>5. Right(g, m)
    BY <2>3, <2>4
  <2>6. \E h : Right(h, m)
    <3> HIDE DEF Right, g
    <3> QED  BY <2>5
  <2>7. m \in 0 .. n
    OBVIOUS
  <2> HIDE DEF Right
  <2> QED  BY <2>6, <2>7
<1>3. n \in U
  <2>1. 0 .. n \subseteq U
    <3> HIDE DEF U
    <3> QED  BY <1>1, <1>2, InductionUpTo
  <2> QED  BY <2>1
<1> QED  BY <1>3 DEF Goes

-----------------------------------------------------------------------------
Sized(s) == Len(s) \in Nat /\ \A k \in 1 .. Len(s) : s[k].length \in Nat

Summed(s) == /\ Sums(s) \in [0 .. Len(s) -> Nat] /\ Sums(s)[0] = 0
             /\ \A k \in 1 .. Len(s) : Sums(s)[k] = Sums(s)[k - 1] + s[k].length

\* The sums of the lengths are what their definition says.
LEMMA SumsAre == ASSUME NEW s, Sized(s) PROVE Summed(s)
<1> DEFINE n == Len(s)
           step == [k \in 1 .. n |-> [x \in Nat |-> x + s[k].length]]
           Def(f) == f = [k \in 0 .. n |-> IF k = 0 THEN 0 ELSE f[k - 1] + s[k].length]
<1>1. n \in Nat /\ step \in [1 .. n -> [Nat -> Nat]]
  BY DEF Sized
<1>2. \E f \in [0 .. n -> Nat] : f[0] = 0 /\ \A k \in 1 .. n : f[k] = step[k][f[k - 1]]
  <2>1. 0 \in Nat
    OBVIOUS
  <2> HIDE DEF n, step
  <2>2. \E f : Goes(f, n, Nat, 0, step)
    BY <1>1, <2>1, Recursion
  <2> QED  BY <2>2 DEF Goes
<1>3. PICK f \in [0 .. n -> Nat] : f[0] = 0 /\ \A k \in 1 .. n : f[k] = step[k][f[k - 1]]
  BY <1>2
<1>4. Def(f)
  <2>1. ASSUME NEW k \in 1 .. n PROVE f[k] = f[k - 1] + s[k].length
    <3>1. k - 1 \in 0 .. n
      BY <1>1
    <3>2. f[k] = step[k][f[k - 1]] /\ f[k - 1] \in Nat
      <4> HIDE DEF step, n
      <4> QED  BY <1>3, <3>1
    <3> QED  BY <3>2
  <2>2. \A k \in 0 .. n : f[k] = IF k = 0 THEN 0 ELSE f[k - 1] + s[k].length
    <3> HIDE DEF step
    <3> QED  BY <1>1, <1>3, <2>1
  <2> HIDE DEF step, n
  <2> QED  BY <1>1, <1>3, <2>2
<1>5. Def(Sums(s))
  <2>1. Sums(s) = CHOOSE g : Def(g)
    BY DEF Sums
  <2>2. \E g : Def(g)
    <3> HIDE DEF Def
    <3> QED  BY <1>4
  <2> HIDE DEF Def
  <2> QED  BY <2>1, <2>2
<1>6. Sums(s)[0] = 0 /\ \A k \in 1 .. n : Sums(s)[k] = Sums(s)[k - 1] + s[k].length
  <2> DEFINE g == Sums(s)
  <2>1. g = [k \in 0 .. n |-> IF k = 0 THEN 0 ELSE g[k - 1] + s[k].length]
    BY <1>5
  <2> HIDE DEF g, n
  <2>2. g[0] = 0 /\ \A k \in 1 .. n : g[k] = g[k - 1] + s[k].length
    BY <1>1, <2>1
  <2> QED  BY <2>2 DEF g
<1>7. 0 .. n \subseteq {k \in 0 .. n : Sums(s)[k] \in Nat}
  <2> DEFINE U == {k \in 0 .. n : Sums(s)[k] \in Nat}
  <2>1. 0 \in U
    BY <1>1, <1>6
  <2>2. ASSUME NEW k \in 1 .. n, k - 1 \in U PROVE k \in U
    <3>1. Sums(s)[k - 1] \in Nat
      BY <2>2
    <3>2. s[k].length \in Nat
      BY DEF Sized
    <3>3. Sums(s)[k] = Sums(s)[k - 1] + s[k].length
      BY <1>6
    <3> QED  BY <1>1, <3>1, <3>2, <3>3
  <2> HIDE DEF U
  <2> QED  BY <1>1, <2>1, <2>2, InductionUpTo DEF U
<1>8. Sums(s) \in [0 .. n -> Nat]
  BY <1>5, <1>7
<1> QED  BY <1>6, <1>8 DEF Summed

\* Two lists that begin alike have the same sums as far as they do.
LEMMA SumsAlike ==
    ASSUME NEW s, Sized(s), NEW t, Sized(t),
           NEW n \in Nat, n <= Len(s), n <= Len(t), \A k \in 1 .. n : s[k] = t[k]
    PROVE  \A k \in 0 .. n : Sums(s)[k] = Sums(t)[k]
<1> DEFINE U == {k \in 0 .. n : Sums(s)[k] = Sums(t)[k]}
<1>0. Summed(s) /\ Summed(t)
  BY SumsAre
<1>1. 0 \in U
  BY <1>0 DEF Summed
<1>2. ASSUME NEW k \in 1 .. n, k - 1 \in U PROVE k \in U
  <2>1. k \in 1 .. Len(s) /\ k \in 1 .. Len(t)
    BY DEF Sized
  <2>2. Sums(s)[k - 1] = Sums(t)[k - 1] /\ s[k] = t[k]
    BY <1>2
  <2>3. Sums(s)[k] = Sums(s)[k - 1] + s[k].length /\ Sums(t)[k] = Sums(t)[k - 1] + t[k].length
    BY <1>0, <2>1 DEF Summed
  <2> QED  BY <2>2, <2>3
<1>3. 0 .. n \subseteq U
  <2> HIDE DEF U
  <2> QED  BY <1>1, <1>2, InductionUpTo
<1> QED  BY <1>3

\* A chunk at the end adds its length.
LEMMA BytesAppended ==
    ASSUME NEW S, NEW s \in Seq(S), Sized(s), NEW c \in S, c.length \in Nat
    PROVE  Bytes(Append(s, c)) = Bytes(s) + c.length
<1> DEFINE t == Append(s, c)
<1>1. /\ t \in Seq(S) /\ Len(t) = Len(s) + 1 /\ t[Len(s) + 1] = c
      /\ \A k \in 1 .. Len(s) : t[k] = s[k]
  OBVIOUS
<1>2. Sized(t)
  BY <1>1 DEF Sized
<1> HIDE DEF t
<1>3. Sums(t)[Len(s)] = Sums(s)[Len(s)]
  BY <1>1, <1>2, SumsAlike
<1>4. Sums(t)[Len(s) + 1] = Sums(t)[Len(s)] + c.length
  <2>1. Summed(t)
    BY <1>2, SumsAre
  <2>2. Len(s) + 1 \in 1 .. Len(t) /\ (Len(s) + 1) - 1 = Len(s)
    BY <1>1
  <2> QED  BY <1>1, <2>1, <2>2 DEF Summed
<1> QED  BY <1>1, <1>3, <1>4 DEF Bytes, t

\* Longer beginnings have more bytes.
LEMMA SumsGrow ==
    ASSUME NEW s, Sized(s)
    PROVE  \A i, j \in 0 .. Len(s) : i <= j => Sums(s)[i] <= Sums(s)[j]
<1> SUFFICES ASSUME NEW i \in 0 .. Len(s), NEW j \in 0 .. Len(s), i <= j
             PROVE  Sums(s)[i] <= Sums(s)[j]
  OBVIOUS
<1> DEFINE n == Len(s) - i
           U == {k \in 0 .. n : Sums(s)[i] <= Sums(s)[i + k]}
<1>0. Summed(s) /\ Len(s) \in Nat
  BY SumsAre DEF Sized
<1>1. n \in Nat /\ 0 \in U
  BY <1>0 DEF Summed
<1>2. ASSUME NEW k \in 1 .. n, k - 1 \in U PROVE k \in U
  <2>1. i + k \in 1 .. Len(s) /\ i + k - 1 \in 0 .. Len(s) /\ i + (k - 1) = i + k - 1
    BY <1>0
  <2>2. Sums(s)[i + k] = Sums(s)[i + k - 1] + s[i + k].length /\ s[i + k].length \in Nat
    BY <1>0, <2>1 DEF Sized, Summed
  <2>3. Sums(s)[i + k - 1] \in Nat /\ Sums(s)[i] \in Nat
    BY <1>0, <2>1 DEF Summed
  <2> QED  BY <1>2, <2>1, <2>2, <2>3
<1>3. 0 .. n \subseteq U
  <2> HIDE DEF U, n
  <2> QED  BY <1>1, <1>2, InductionUpTo
<1>4. j - i \in 0 .. n /\ i + (j - i) = j
  BY <1>0
<1> QED  BY <1>3, <1>4

\* The bytes of a piece of a list are the difference of two sums.
LEMMA BytesBetween ==
    ASSUME NEW S, NEW s \in Seq(S), Sized(s),
           NEW i \in 1 .. Len(s) + 1, NEW j \in 0 .. Len(s), i <= j + 1
    PROVE  Bytes(SubSeq(s, i, j)) = Sums(s)[j] - Sums(s)[i - 1]
<1> DEFINE t == SubSeq(s, i, j)
           n == j - i + 1
           U == {k \in 0 .. n : Sums(t)[k] = Sums(s)[i - 1 + k] - Sums(s)[i - 1]}
<1>1. n \in Nat /\ t \in Seq(S) /\ Len(t) = n /\ \A k \in 1 .. n : t[k] = s[i - 1 + k]
  OBVIOUS
<1>2. Sized(t)
  BY <1>1 DEF Sized
<1> HIDE DEF t, n
<1>0. Summed(s) /\ Summed(t)
  BY <1>2, SumsAre
<1>3. 0 \in U
  <2>1. Sums(t)[0] = 0 /\ Sums(s)[i - 1] \in Nat /\ i - 1 + 0 = i - 1
    <3>1. i - 1 \in 0 .. Len(s) /\ i - 1 + 0 = i - 1
      BY DEF Sized
    <3> QED  BY <1>0, <3>1 DEF Summed
  <2> QED  BY <1>1, <2>1
<1>4. ASSUME NEW k \in 1 .. n, k - 1 \in U PROVE k \in U
  <2>1. i - 1 + k \in 1 .. Len(s) /\ i - 1 + (k - 1) = (i - 1 + k) - 1
    BY DEF n
  <2>2. /\ Sums(s)[i - 1 + k] = Sums(s)[(i - 1 + k) - 1] + s[i - 1 + k].length
        /\ Sums(s)[(i - 1 + k) - 1] \in Nat /\ s[i - 1 + k].length \in Nat
        /\ Sums(s)[i - 1] \in Nat
    <3>1. (i - 1 + k) - 1 \in 0 .. Len(s) /\ i - 1 \in 0 .. Len(s)
      BY <2>1 DEF Sized
    <3>2. s[i - 1 + k].length \in Nat
      BY <2>1 DEF Sized
    <3> QED  BY <1>0, <2>1, <3>1, <3>2 DEF Summed
  <2>3. Sums(t)[k] = Sums(t)[k - 1] + s[i - 1 + k].length
    BY <1>0, <1>1 DEF Summed
  <2>4. Sums(t)[k - 1] = Sums(s)[(i - 1 + k) - 1] - Sums(s)[i - 1]
    BY <1>4, <2>1
  <2>5. Sums(t)[k] = Sums(s)[i - 1 + k] - Sums(s)[i - 1]
    BY <2>2, <2>3, <2>4
  <2> QED  BY <2>5
<1>5. n \in U
  <2>1. 0 .. n \subseteq U
    <3> HIDE DEF U
    <3> QED  BY <1>1, <1>3, <1>4, InductionUpTo
  <2> QED  BY <1>1, <2>1
<1> QED  BY <1>1, <1>5 DEF Bytes, t, n

-----------------------------------------------------------------------------
\* A set of numbers has a least one.
LEMMA Least ==
    ASSUME NEW S \in SUBSET Nat, S # {}
    PROVE  Min(S) \in S /\ \A x \in S : Min(S) <= x
<1>1. PICK x \in S : \A y \in S : <<y, x>> \notin Less
  BY LessWellFounded, WFMin
<1>2. ASSUME NEW y \in S PROVE x <= y
  <2>1. <<y, x>> \in Nat \X Nat /\ <<y, x>>[1] = y /\ <<y, x>>[2] = x
    OBVIOUS
  <2> QED  BY <1>1, <2>1 DEF Less
<1> QED  BY <1>2 DEF Min

\* The least of two numbers.
LEMMA LeastOfTwo ==
    ASSUME NEW a \in Nat, NEW b \in Nat
    PROVE  Min({a, b}) = IF a <= b THEN a ELSE b
<1>1. Min({a, b}) \in {a, b} /\ Min({a, b}) <= a /\ Min({a, b}) <= b
  BY Least
<1> QED  BY <1>1

Contents == {A, B, C, CLEAR}
Chunk    == [length : 1 .. INTERNAL_SIZE, contents : Contents]

\* The list holds chunks.
LEMMA Chunked == TypeOK => buffer \in Seq(Chunk) /\ Sized(buffer) /\ Summed(buffer)
<1> SUFFICES ASSUME TypeOK PROVE buffer \in Seq(Chunk) /\ Sized(buffer) /\ Summed(buffer)
  OBVIOUS
<1>1. Chunks \subseteq Chunk
  <2> SUFFICES ASSUME NEW m \in Requests, NEW k \in DOMAIN m PROVE m[k] \in Chunk
    BY DEF Chunks, Range
  <2>1. m \in Seq(Chunk)
    BY Chunking DEF Chunk, Contents
  <2> QED  BY <2>1
<1>2. buffer \in Seq(Chunk)
  BY <1>1 DEF TypeOK
<1>3. Sized(buffer)
  <2>1. \A c \in Chunk : c.length \in Nat
    BY Chunking DEF Chunk
  <2> QED  BY <1>2, <2>1 DEF Sized
<1> QED  BY <1>2, <1>3, SumsAre

\* What the loop over the list can have come to.
Copied    == [length : Nat, contents : Contents]
States(n) == [pos : Nat, copied : 0 .. n, real_length : Nat, out : Seq(Copied), over : BOOLEAN]

\* An element that is not skipped.
LEMMA VisitIs ==
    ASSUME NEW n \in Nat, NEW s \in States(n), NEW d \in Chunk, NEW f_pos \in Nat
    PROVE  /\ Visit(s, d, f_pos, n) \in States(n)
           /\ s.over => Visit(s, d, f_pos, n) = s
           /\ ~s.over /\ s.pos < f_pos =>
                 Visit(s, d, f_pos, n) = [s EXCEPT !.pos = s.pos + d.length]
           /\ ~s.over /\ s.pos >= f_pos =>
                 LET room    == n - s.copied
                     to_copy == IF d.length <= room THEN d.length ELSE room
                 IN  Visit(s, d, f_pos, n) =
                        [pos         |-> s.pos + to_copy,
                         copied      |-> s.copied + to_copy,
                         real_length |-> s.real_length + d.length,
                         out         |-> Append(s.out, [d EXCEPT !.length = to_copy]),
                         over        |-> d.length >= room]
<1> DEFINE room    == n - s.copied
           to_copy == IF d.length <= room THEN d.length ELSE room
           v       == Visit(s, d, f_pos, n)
           w       == [pos         |-> s.pos + to_copy,
                       copied      |-> s.copied + to_copy,
                       real_length |-> s.real_length + d.length,
                       out         |-> Append(s.out, [d EXCEPT !.length = to_copy]),
                       over        |-> d.length >= room]
<1>1. /\ d.length \in Nat /\ d.contents \in Contents
      /\ d = [length |-> d.length, contents |-> d.contents]
  BY Chunking DEF Chunk
<1>2. /\ s.pos \in Nat /\ s.copied \in 0 .. n /\ s.real_length \in Nat
      /\ s.out \in Seq(Copied) /\ s.over \in BOOLEAN
  BY DEF States
<1>3. s.over => v = s
  BY DEF Visit
<1>4. ~s.over /\ s.pos < f_pos => v = [s EXCEPT !.pos = s.pos + d.length]
  BY DEF Visit, Skipped
<1>5. room \in Nat /\ Min({d.length, n - s.copied}) = to_copy
  BY <1>1, <1>2, LeastOfTwo
<1>6. to_copy \in Nat /\ (s.copied + to_copy >= n) = (d.length >= room)
  BY <1>1, <1>2, <1>5
<1>7. ~s.over /\ s.pos >= f_pos => v = w
  <2>1. ~s.over /\ s.pos >= f_pos => ~Skipped(s.pos, f_pos)
    BY <1>2 DEF Skipped
  <2> HIDE DEF to_copy, room
  <2> QED  BY <1>5, <1>6, <2>1 DEF Visit
<1>8. v \in States(n)
  <2>1. CASE s.over
    BY <1>3, <2>1
  <2>2. CASE ~s.over /\ s.pos < f_pos
    BY <1>1, <1>2, <1>4, <2>2 DEF States
  <2>3. CASE ~s.over /\ s.pos >= f_pos
    <3>1. [d EXCEPT !.length = to_copy] \in Copied
      BY <1>1, <1>6 DEF Copied
    <3>2. s.copied + to_copy \in 0 .. n
      BY <1>1, <1>2, <1>5
    <3>3. w \in States(n)
      <4> HIDE DEF to_copy, room
      <4> QED  BY <1>1, <1>2, <1>6, <3>1, <3>2 DEF States
    <3> QED  BY <1>7, <2>3, <3>3
  <2> QED  BY <1>2, <2>1, <2>2, <2>3
<1> QED  BY <1>3, <1>4, <1>7, <1>8

-----------------------------------------------------------------------------
\* A piece of a list and the element after it.
LEMMA OneLonger ==
    ASSUME NEW S, NEW s \in Seq(S), NEW i \in 1 .. Len(s), NEW j \in i .. Len(s)
    PROVE  Append(SubSeq(s, i, j - 1), s[j]) = SubSeq(s, i, j)
<1> DEFINE a == SubSeq(s, i, j - 1)
           b == SubSeq(s, i, j)
<1>1. j - 1 \in i - 1 .. Len(s) /\ j \in i - 1 .. Len(s) /\ s[j] \in S
  OBVIOUS
<1>2. a \in Seq(S) /\ Len(a) = j - i /\ \A k \in 1 .. j - i : a[k] = s[i + k - 1]
  BY <1>1
<1>3. b \in Seq(S) /\ Len(b) = j - i + 1 /\ \A k \in 1 .. j - i + 1 : b[k] = s[i + k - 1]
  BY <1>1
<1> HIDE DEF a, b
<1>4. /\ Append(a, s[j]) \in Seq(S) /\ Len(Append(a, s[j])) = j - i + 1
      /\ \A k \in 1 .. j - i : Append(a, s[j])[k] = a[k]
      /\ Append(a, s[j])[j - i + 1] = s[j]
  <2>1. Len(a) + 1 = j - i + 1
    BY <1>2
  <2> QED  BY <1>1, <1>2, <2>1, AppendProperties
<1>5. ASSUME NEW k \in 1 .. j - i + 1 PROVE Append(a, s[j])[k] = b[k]
  <2>1. CASE k = j - i + 1
    <3>1. i + k - 1 = j
      BY <2>1
    <3> QED  BY <1>3, <1>4, <2>1, <3>1
  <2>2. CASE k # j - i + 1
    <3>1. k \in 1 .. j - i
      BY <2>2
    <3> QED  BY <1>2, <1>3, <1>4, <3>1
  <2> QED  BY <2>1, <2>2
<1> DEFINE e == Append(a, s[j])
<1> HIDE DEF e
<1>6. e \in Seq(S) /\ Len(e) = Len(b) /\ \A k \in 1 .. Len(e) : e[k] = b[k]
  BY <1>3, <1>4, <1>5 DEF e
<1>7. e = b
  BY <1>3, <1>6, SeqEqual
<1> QED  BY <1>7 DEF a, b, e

\* The loop of a read of n bytes at f_pos goes from element to element.
Walks(f_pos, n) ==
    LET w == Walk(f_pos, n)
    IN  /\ w \in [0 .. Len(buffer) -> States(n)] /\ w[0] = AtStart
        /\ \A k \in 1 .. Len(buffer) : w[k] = Visit(w[k - 1], buffer[k], f_pos, n)

\* The recursion along the list defines such a function.
LEMMA WalkIs ==
    ASSUME buffer \in Seq(Chunk), NEW n \in Nat, NEW f_pos \in Nat
    PROVE  Walks(f_pos, n)
<1> DEFINE m == Len(buffer)
           w == Walk(f_pos, n)
           step == [k \in 1 .. m |-> [s \in States(n) |-> Visit(s, buffer[k], f_pos, n)]]
           Def(f) == f = [k \in 0 .. m |-> IF k = 0 THEN AtStart
                                           ELSE Visit(f[k - 1], buffer[k], f_pos, n)]
<1>1. m \in Nat /\ \A k \in 1 .. m : buffer[k] \in Chunk
  OBVIOUS
<1>2. AtStart \in States(n)
  BY DEF AtStart, States
<1>3. \A k \in 1 .. m, s \in States(n) : Visit(s, buffer[k], f_pos, n) \in States(n)
  BY <1>1, VisitIs
<1>4. step \in [1 .. m -> [States(n) -> States(n)]]
  <2> HIDE DEF m
  <2> QED  BY <1>3
<1>5. PICK f : Goes(f, m, States(n), AtStart, step)
  <2> HIDE DEF m, step
  <2> QED  BY <1>1, <1>2, <1>4, Recursion
<1>6. Def(f)
  <2>1. /\ f \in [0 .. m -> States(n)] /\ f[0] = AtStart
        /\ \A k \in 1 .. m : f[k] = step[k][f[k - 1]]
    BY <1>5 DEF Goes
  <2>2. ASSUME NEW k \in 1 .. m PROVE f[k] = Visit(f[k - 1], buffer[k], f_pos, n)
    <3>1. f[k - 1] \in States(n)
      BY <1>1, <2>1
    <3> QED  BY <2>1, <3>1
  <2> HIDE DEF m, step
  <2>3. \A k \in 0 .. m : f[k] = IF k = 0 THEN AtStart ELSE Visit(f[k - 1], buffer[k], f_pos, n)
    BY <1>1, <2>1, <2>2
  <2> QED  BY <1>1, <2>1, <2>3
<1>7. Def(w)
  <2>1. w = CHOOSE g : Def(g)
    BY DEF Walk
  <2>2. \E g : Def(g)
    <3> HIDE DEF Def
    <3> QED  BY <1>6
  <2> HIDE DEF Def, w
  <2> QED  BY <2>1, <2>2
<1> HIDE DEF w, m
<1>8. /\ w[0] = AtStart
      /\ \A k \in 1 .. m : w[k] = Visit(w[k - 1], buffer[k], f_pos, n)
  BY <1>1, <1>7
<1>9. 0 .. m \subseteq {k \in 0 .. m : w[k] \in States(n)}
  <2> DEFINE U == {k \in 0 .. m : w[k] \in States(n)}
  <2>1. 0 \in U
    BY <1>1, <1>2, <1>8
  <2>2. ASSUME NEW k \in 1 .. m, k - 1 \in U PROVE k \in U
    BY <1>1, <1>3, <1>8, <2>2
  <2> HIDE DEF U
  <2> QED  BY <1>1, <2>1, <2>2, InductionUpTo DEF U
<1>10. w \in [0 .. m -> States(n)]
  BY <1>7, <1>9
<1> QED  BY <1>8, <1>10 DEF Walks, w, m

\* The three cases of an element, in the order in which a walk meets them: skipped, ...
LEMMA VisitSkips ==
    ASSUME NEW n \in Nat, NEW s \in States(n), NEW d \in Chunk, NEW f_pos \in Nat,
           ~s.over, s.pos < f_pos
    PROVE  Visit(s, d, f_pos, n) = [s EXCEPT !.pos = s.pos + d.length]
BY DEF Visit, Skipped

\* An element that fits.
LEMMA VisitCopies ==
    ASSUME NEW n \in Nat, NEW s \in States(n), NEW d \in Chunk, NEW f_pos \in Nat,
           ~s.over, s.pos >= f_pos, s.copied + d.length < n
    PROVE  Visit(s, d, f_pos, n) = [pos         |-> s.pos + d.length,
                                    copied      |-> s.copied + d.length,
                                    real_length |-> s.real_length + d.length,
                                    out         |-> Append(s.out, d),
                                    over        |-> FALSE]
<1>1. s.copied \in Nat /\ d.length \in Nat /\ s.pos \in Nat
  BY Chunking DEF States, Chunk
<1>2. Min({d.length, n - s.copied}) = d.length
  <2>1. n - s.copied \in Nat /\ d.length <= n - s.copied
    BY <1>1
  <2> QED  BY <1>1, <2>1, LeastOfTwo
<1>3. [d EXCEPT !.length = d.length] = d
  BY DEF Chunk
<1>4. ~(s.copied + d.length >= n) /\ ~Skipped(s.pos, f_pos)
  BY <1>1 DEF Skipped
<1>5. Visit(s, d, f_pos, n) = [pos         |-> s.pos + d.length,
                               copied      |-> s.copied + d.length,
                               real_length |-> s.real_length + d.length,
                               out         |-> Append(s.out, [d EXCEPT !.length = d.length]),
                               over        |-> s.copied + d.length >= n]
  BY <1>2, <1>4, Zenon DEF Visit
<1>6. (s.copied + d.length >= n) = FALSE
  BY <1>4
<1> QED  BY <1>3, <1>5, <1>6, Zenon

\* The element that does not, or just fits.
LEMMA VisitFills ==
    ASSUME NEW n \in Nat, NEW s \in States(n), NEW d \in Chunk, NEW f_pos \in Nat,
           ~s.over, s.pos >= f_pos, s.copied + d.length >= n
    PROVE  LET v == Visit(s, d, f_pos, n)
           IN  /\ v.over /\ v.real_length = s.real_length + d.length
               /\ v.copied = n
               /\ v.out = Append(s.out, [d EXCEPT !.length = n - s.copied])
<1>1. s.copied \in 0 .. n /\ d.length \in Nat /\ s.pos \in Nat
  BY Chunking DEF States, Chunk
<1>2. Min({d.length, n - s.copied}) = n - s.copied
  <2>1. n - s.copied \in Nat /\ n - s.copied <= d.length
    BY <1>1
  <2> QED  BY <1>1, <2>1, LeastOfTwo
<1>3. s.copied + (n - s.copied) = n /\ n >= n /\ ~Skipped(s.pos, f_pos)
  BY <1>1 DEF Skipped
<1> QED  BY <1>2, <1>3 DEF Visit

\* Elements that begin before f_pos are skipped.
LEMMA WalkSkips ==
    ASSUME buffer \in Seq(Chunk), Sized(buffer), Summed(buffer),
           NEW n \in Nat, NEW f_pos \in Nat, NEW i \in 0 .. Len(buffer),
           \A k \in 1 .. i : Sums(buffer)[k - 1] < f_pos
    PROVE  Walk(f_pos, n)[i] = [AtStart EXCEPT !.pos = Sums(buffer)[i]]
<1> DEFINE w    == Walk(f_pos, n)
           B_   == Sums(buffer)
           U    == {k \in 0 .. i : w[k] = [AtStart EXCEPT !.pos = B_[k]]}
<1>1. Walks(f_pos, n)
  BY WalkIs
<1>2. 0 \in U
  BY <1>1 DEF Walks, AtStart, Summed
<1>3. ASSUME NEW k \in 1 .. i, k - 1 \in U PROVE k \in U
  <2>1. k \in 1 .. Len(buffer) /\ k - 1 \in 0 .. Len(buffer)
    BY DEF Sized
  <2>2. /\ w[k] = Visit(w[k - 1], buffer[k], f_pos, n) /\ w[k - 1] \in States(n)
        /\ buffer[k] \in Chunk
    BY <1>1, <2>1 DEF Walks
  <2>3. w[k - 1] = [AtStart EXCEPT !.pos = B_[k - 1]] /\ B_[k - 1] < f_pos
    BY <1>3
  <2>4. ~w[k - 1].over /\ w[k - 1].pos = B_[k - 1]
    BY <2>3 DEF AtStart
  <2>5. w[k] = [w[k - 1] EXCEPT !.pos = w[k - 1].pos + buffer[k].length]
    <3>1. w[k - 1].pos < f_pos /\ ~w[k - 1].over
      BY <2>3, <2>4
    <3> HIDE DEF w
    <3> QED  BY <2>2, <3>1, VisitSkips
  <2>6. B_[k] = B_[k - 1] + buffer[k].length
    BY <2>1 DEF Summed
  <2>7. w[k] = [AtStart EXCEPT !.pos = B_[k]]
    <3> HIDE DEF w, B_
    <3> QED  BY <2>3, <2>4, <2>5, <2>6 DEF AtStart
  <2> QED  BY <2>7
<1>4. 0 .. i \subseteq U /\ i \in Nat
  <2>1. i \in Nat
    BY DEF Sized
  <2> HIDE DEF U
  <2> QED  BY <1>2, <1>3, <2>1, InductionUpTo
<1>5. i \in U
  <2> HIDE DEF U
  <2> QED  BY <1>4
<1> QED  BY <1>5

\* From the first element that does not, whole elements are copied while there is room.
LEMMA WalkCopies ==
    ASSUME buffer \in Seq(Chunk), Sized(buffer), Summed(buffer),
           NEW n \in Nat, NEW f_pos \in Nat, NEW i \in 1 .. Len(buffer),
           \A k \in 1 .. i - 1 : Sums(buffer)[k - 1] < f_pos,
           Sums(buffer)[i - 1] >= f_pos,
           NEW j \in i - 1 .. Len(buffer),
           \A k \in i .. j : Sums(buffer)[k] - Sums(buffer)[i - 1] < n
    PROVE  Walk(f_pos, n)[j] =
             [pos         |-> Sums(buffer)[j],
              copied      |-> Sums(buffer)[j] - Sums(buffer)[i - 1],
              real_length |-> Sums(buffer)[j] - Sums(buffer)[i - 1],
              out         |-> SubSeq(buffer, i, j),
              over        |-> FALSE]
<1> DEFINE w    == Walk(f_pos, n)
           B_   == Sums(buffer)
           c    == i - 1
           m    == j - c
           Whole(k) == [pos         |-> B_[k],
                        copied      |-> B_[k] - B_[c],
                        real_length |-> B_[k] - B_[c],
                        out         |-> SubSeq(buffer, i, k),
                        over        |-> FALSE]
           U    == {k \in 0 .. m : w[c + k] = Whole(c + k)}
<1>1. Walks(f_pos, n) /\ c \in 0 .. Len(buffer) /\ m \in Nat /\ Len(buffer) \in Nat
  BY WalkIs DEF Sized
<1>2. 0 \in U
  <2>1. w[c] = [AtStart EXCEPT !.pos = B_[c]]
    BY <1>1, WalkSkips
  <2>2. B_[c] - B_[c] = 0
    BY <1>1 DEF Summed
  <2>3. SubSeq(buffer, i, c) = <<>>
    OBVIOUS
  <2>4. w[c] = Whole(c)
    <3> HIDE DEF w, B_, c
    <3> QED  BY <2>1, <2>2, <2>3 DEF AtStart
  <2>5. c + 0 = c
    BY <1>1
  <2> HIDE DEF w, c, Whole
  <2> QED  BY <1>1, <2>4, <2>5
<1>3. ASSUME NEW k \in 1 .. m, k - 1 \in U PROVE k \in U
  <2> DEFINE x == c + k
             d == buffer[x]
             v == w[x - 1]
  <2>1. x \in i .. j /\ x \in 1 .. Len(buffer) /\ x - 1 \in 0 .. Len(buffer)
        /\ c + (k - 1) = x - 1
    BY <1>1
  <2>2. w[x] = Visit(v, d, f_pos, n) /\ v \in States(n) /\ d \in Chunk
    <3>1. d \in Chunk
      BY <2>1
    <3> HIDE DEF x, d
    <3> QED  BY <1>1, <2>1, <3>1 DEF Walks, d
  <2>3. v = Whole(x - 1)
    BY <1>3, <2>1
  <2>4. /\ B_[x] = B_[x - 1] + d.length /\ d.length \in Nat
        /\ B_[x - 1] \in Nat /\ B_[c] \in Nat
    BY <1>1, <2>1 DEF Summed, Sized
  <2>5. B_[c] <= B_[x - 1]
    <3>1. c <= x - 1
      BY <1>1
    <3> QED  BY <1>1, <2>1, <3>1, SumsGrow
  <2>6. B_[x] - B_[c] < n
    BY <2>1
  <2>7. /\ ~v.over /\ v.pos = B_[x - 1]
        /\ v.copied = B_[x - 1] - B_[c] /\ v.out = SubSeq(buffer, i, x - 1)
        /\ v.real_length = B_[x - 1] - B_[c]
    <3> HIDE DEF v, B_, x, c
    <3> QED  BY <2>3
  <2>8. v.copied + d.length < n /\ v.pos >= f_pos
    <3>1. B_[c] >= f_pos
      OBVIOUS
    <3> HIDE DEF v, B_, x, d, c
    <3> QED  BY <2>4, <2>5, <2>6, <2>7, <3>1
  <2>9. w[x] = [pos         |-> v.pos + d.length,
                copied      |-> v.copied + d.length,
                real_length |-> v.real_length + d.length,
                out         |-> Append(v.out, d),
                over        |-> FALSE]
    <3> HIDE DEF v, w, B_, x, d
    <3> QED  BY <2>2, <2>7, <2>8, VisitCopies
  <2>11. Append(SubSeq(buffer, i, x - 1), d) = SubSeq(buffer, i, x)
    <3>1. x \in i .. Len(buffer)
      BY <2>1
    <3> HIDE DEF x
    <3> QED  BY <3>1, OneLonger DEF d
  <2>12. /\ v.pos + d.length = B_[x] /\ v.copied + d.length = B_[x] - B_[c]
         /\ v.real_length + d.length = B_[x] - B_[c]
    <3> HIDE DEF v, B_, x, d, c
    <3> QED  BY <2>4, <2>7
  <2>13. w[x] = Whole(x)
    <3> HIDE DEF v, w, B_, x, d, c
    <3> QED  BY <2>7, <2>9, <2>11, <2>12
  <2> QED  BY <2>13
<1>4. m \in U
  <2>1. 0 .. m \subseteq U
    <3> HIDE DEF U, m
    <3> QED  BY <1>1, <1>2, <1>3, InductionUpTo
  <2> HIDE DEF U
  <2> QED  BY <1>1, <2>1
<1> QED  BY <1>1, <1>4

\* The element that fills the buffer ends the walk.
LEMMA WalkStays ==
    ASSUME buffer \in Seq(Chunk), NEW n \in Nat, NEW f_pos \in Nat,
           NEW j \in 0 .. Len(buffer), Walk(f_pos, n)[j].over
    PROVE  Walk(f_pos, n)[Len(buffer)] = Walk(f_pos, n)[j]
<1> DEFINE w == Walk(f_pos, n)
           m == Len(buffer) - j
           U == {k \in 0 .. m : w[j + k] = w[j]}
<1>1. Walks(f_pos, n) /\ m \in Nat /\ Len(buffer) \in Nat
  BY WalkIs
<1>2. 0 \in U
  <2>1. j + 0 = j
    BY <1>1
  <2> HIDE DEF w, m
  <2> QED  BY <1>1, <2>1
<1>3. ASSUME NEW k \in 1 .. m, k - 1 \in U PROVE k \in U
  <2> DEFINE x == j + k
  <2>1. x \in 1 .. Len(buffer) /\ j + (k - 1) = x - 1
    BY <1>1
  <2>2. w[x] = Visit(w[x - 1], buffer[x], f_pos, n)
    <3> HIDE DEF x
    <3> QED  BY <1>1, <2>1 DEF Walks
  <2>3. w[x - 1] = w[j]
    <3> HIDE DEF w, x
    <3> QED  BY <1>3, <2>1
  <2>4. w[x] = w[j]
    <3> HIDE DEF x
    <3> QED  BY <2>2, <2>3 DEF Visit
  <2> HIDE DEF w, m
  <2> QED  BY <2>4
<1>4. 0 .. m \subseteq U
  <2> HIDE DEF U, m
  <2> QED  BY <1>1, <1>2, <1>3, InductionUpTo
<1>5. m \in U
  <2> HIDE DEF U
  <2> QED  BY <1>1, <1>4
<1>6. j + m = Len(buffer)
  BY <1>1
<1> HIDE DEF m, w
<1>7. w[Len(buffer)] = w[j]
  BY <1>5, <1>6
<1> QED  BY <1>7 DEF w

\* The elements that do not begin before f_pos, and those among the ones from i on with
\* which n bytes have been reached.
From(f_pos) == {i \in 1 .. Len(buffer) : Bytes(SubSeq(buffer, 1, i - 1)) >= f_pos}
To(i, n)    == {j \in i .. Len(buffer) : Bytes(SubSeq(buffer, i, j)) >= n}

\* A piece of the list is as long as two sums are apart.
LEMMA PiecesAre ==
    ASSUME TypeOK
    PROVE  /\ \A i \in 1 .. Len(buffer) : \A j \in i - 1 .. Len(buffer) :
                 Bytes(SubSeq(buffer, i, j)) = Sums(buffer)[j] - Sums(buffer)[i - 1]
           /\ \A i \in 0 .. Len(buffer) : Sums(buffer)[i] \in Nat
           /\ Sums(buffer)[0] = 0
           /\ \A i \in 1 .. Len(buffer) : /\ Sums(buffer)[i] = Sums(buffer)[i - 1] + buffer[i].length
                                          /\ buffer[i].length \in Nat /\ buffer[i] \in Chunk
<1>1. buffer \in Seq(Chunk) /\ Sized(buffer) /\ Summed(buffer)
  BY Chunked
<1>2. ASSUME NEW i \in 1 .. Len(buffer), NEW j \in i - 1 .. Len(buffer)
      PROVE  Bytes(SubSeq(buffer, i, j)) = Sums(buffer)[j] - Sums(buffer)[i - 1]
  <2>1. i \in 1 .. Len(buffer) + 1 /\ j \in 0 .. Len(buffer) /\ i <= j + 1
    BY <1>1
  <2> QED  BY <1>1, <2>1, BytesBetween
<1> QED  BY <1>1, <1>2 DEF Summed, Sized

\* A read of n bytes at f_pos skips what begins before f_pos, copies whole elements while
\* there is room, and cuts the one that fills the buffer.
LEMMA TraverseIs ==
    ASSUME TypeOK, NEW n \in Nat, NEW f_pos \in Nat
    PROVE  LET i == Min(From(f_pos))
               j == IF To(i, n) = {} THEN Len(buffer) ELSE Min(To(i, n))
               t == Traverse(f_pos, n)
           IN  IF From(f_pos) = {}
               THEN t.out = <<>> /\ t.real_length = 0
               ELSE /\ t.out = Append(SubSeq(buffer, i, j - 1),
                                      [buffer[j] EXCEPT !.length =
                                          Min({@, n - Bytes(SubSeq(buffer, i, j - 1))})])
                    /\ t.real_length = Bytes(SubSeq(buffer, i, j))
<1> DEFINE S  == Sums(buffer)
           L  == Len(buffer)
           w  == Walk(f_pos, n)
<1>1. /\ buffer \in Seq(Chunk) /\ Sized(buffer) /\ Summed(buffer) /\ L \in Nat
      /\ Walks(f_pos, n)
  BY Chunked, WalkIs
<1>2. \A i \in 1 .. L : Bytes(SubSeq(buffer, 1, i - 1)) = S[i - 1]
  <2> SUFFICES ASSUME NEW i \in 1 .. L PROVE Bytes(SubSeq(buffer, 1, i - 1)) = S[i - 1]
    OBVIOUS
  <2>1. 1 \in 1 .. L /\ i - 1 \in 1 - 1 .. L /\ 1 - 1 = 0
    BY <1>1
  <2>2. Bytes(SubSeq(buffer, 1, i - 1)) = S[i - 1] - S[0] /\ S[0] = 0 /\ S[i - 1] \in Nat
    <3>1. i - 1 \in 0 .. L
      BY <1>1
    <3> HIDE DEF S
    <3> QED  BY <2>1, <3>1, PiecesAre DEF S
  <2> QED  BY <2>2
<1>3. CASE From(f_pos) = {}
  <2>1. \A k \in 1 .. L : S[k - 1] < f_pos
    <3> SUFFICES ASSUME NEW k \in 1 .. L PROVE S[k - 1] < f_pos
      OBVIOUS
    <3>1. ~(Bytes(SubSeq(buffer, 1, k - 1)) >= f_pos)
      BY <1>3 DEF From
    <3>2. S[k - 1] \in Nat
      BY <1>1 DEF Summed
    <3> QED  BY <1>2, <3>1, <3>2
  <2>2. L \in 0 .. Len(buffer)
    BY <1>1
  <2>3. w[L] = [AtStart EXCEPT !.pos = S[L]]
    BY <1>1, <2>1, <2>2, WalkSkips
  <2>4. Traverse(f_pos, n).out = <<>> /\ Traverse(f_pos, n).real_length = 0
    BY <2>3 DEF Traverse, AtStart
  <2> QED  BY <1>3, <2>4
<1>4. CASE From(f_pos) # {}
  <2> DEFINE i == Min(From(f_pos))
             c == i - 1
             j == IF To(i, n) = {} THEN L ELSE Min(To(i, n))
             t == Traverse(f_pos, n)
             piece(k) == Bytes(SubSeq(buffer, i, k))
  <2>1. i \in From(f_pos) /\ \A k \in From(f_pos) : i <= k
    <3>1. From(f_pos) \in SUBSET Nat
      BY DEF From
    <3> QED  BY <1>4, <3>1, Least
  <2>2. i \in 1 .. L /\ c \in 0 .. L /\ S[c] >= f_pos /\ i \in Nat
    BY <1>1, <1>2, <2>1 DEF From
  <2>3. \A k \in 1 .. c : S[k - 1] < f_pos
    <3> SUFFICES ASSUME NEW k \in 1 .. c PROVE S[k - 1] < f_pos
      OBVIOUS
    <3>1. k \in 1 .. L /\ ~(i <= k)
      BY <1>1, <2>2
    <3>2. ~(S[k - 1] >= f_pos) /\ S[k - 1] \in Nat
      <4>1. k \notin From(f_pos)
        BY <2>1, <3>1
      <4>2. ~(S[k - 1] >= f_pos)
        BY <1>2, <3>1, <4>1 DEF From
      <4>3. k - 1 \in 0 .. L
        BY <1>1, <3>1
      <4> QED  BY <1>1, <4>2, <4>3 DEF Summed
    <3> QED  BY <3>2
  <2>4. \A k \in c .. L : piece(k) = S[k] - S[c]
    BY <2>2, PiecesAre
  <2>5. ASSUME NEW k \in c .. L, \A x \in i .. k : piece(x) < n
        PROVE  w[k] = [pos |-> S[k], copied |-> S[k] - S[c], real_length |-> S[k] - S[c],
                       out |-> SubSeq(buffer, i, k), over |-> FALSE]
    <3>1. \A x \in i .. k : S[x] - S[c] < n
      BY <1>1, <2>2, <2>4, <2>5
    <3> HIDE DEF i
    <3> QED  BY <1>1, <2>2, <2>3, <3>1, WalkCopies
  <2> DEFINE cut == [buffer[j] EXCEPT !.length = Min({@, n - Bytes(SubSeq(buffer, i, j - 1))})]
             Right == t.out = Append(SubSeq(buffer, i, j - 1), cut) /\ t.real_length = piece(j)
  <2> SUFFICES Right
    BY <1>4
  <2>6. CASE To(i, n) = {}
    <3>1. j = L /\ L \in i .. L /\ L - 1 \in c .. L /\ L \in c .. L
      BY <1>1, <2>2, <2>6
    <3>2. \A x \in i .. L : piece(x) < n
      <4> SUFFICES ASSUME NEW x \in i .. L PROVE piece(x) < n
        OBVIOUS
      <4>1. x \in c .. L /\ x \in 0 .. L
        BY <1>1, <2>2
      <4>2. ~(piece(x) >= n)
        BY <2>6 DEF To
      <4>3. piece(x) = S[x] - S[c] /\ S[x] \in Nat /\ S[c] \in Nat
        <5> HIDE DEF i, c
        <5> QED  BY <1>1, <2>2, <2>4, <4>1 DEF Summed
      <4> HIDE DEF piece, S
      <4> QED  BY <4>2, <4>3
    <3>3. t.out = SubSeq(buffer, i, L) /\ t.real_length = S[L] - S[c]
      <4> DEFINE u == w[L]
      <4>1. u = [pos |-> S[L], copied |-> S[L] - S[c], real_length |-> S[L] - S[c],
                 out |-> SubSeq(buffer, i, L), over |-> FALSE]
        <5> HIDE DEF i, c, w, piece, S
        <5> QED  BY <2>5, <3>1, <3>2
      <4>2. t = u
        BY DEF Traverse
      <4> HIDE DEF u, S, i, j, c, t
      <4> QED  BY <4>1, <4>2
    <3>4. piece(L - 1) = S[L - 1] - S[c] /\ piece(L) = S[L] - S[c] /\ piece(L) < n
      <4> HIDE DEF i, c, piece, S
      <4> QED  BY <2>4, <3>1, <3>2
    <3> DEFINE d == buffer[L]
    <3>5. /\ S[L] = S[L - 1] + d.length /\ d.length \in Nat /\ d \in Chunk
          /\ S[L - 1] \in Nat /\ S[c] \in Nat /\ S[L] \in Nat
      <4>1. L \in 1 .. L /\ L - 1 \in 0 .. L /\ L \in 0 .. L
        BY <1>1, <2>2
      <4>2. S[c] \in Nat
        <5> HIDE DEF c
        <5> QED  BY <1>1, <2>2 DEF Summed
      <4> QED  BY <4>1, <4>2, PiecesAre
    <3>6. Min({d.length, n - piece(L - 1)}) = d.length
      <4>1. n - piece(L - 1) \in Nat /\ d.length <= n - piece(L - 1)
        <5> HIDE DEF piece, S, d, c, L
        <5> QED  BY <3>4, <3>5
      <4> HIDE DEF piece, d
      <4> QED  BY <3>5, <4>1, LeastOfTwo
    <3>7. cut = d
      <4>1. [d EXCEPT !.length = d.length] = d
        BY <3>5 DEF Chunk
      <4> QED  BY <3>1, <3>6, <4>1
    <3>8. Append(SubSeq(buffer, i, L - 1), d) = SubSeq(buffer, i, L)
      <4> HIDE DEF i
      <4> QED  BY <1>1, <2>2, <3>1, OneLonger
    <3> HIDE DEF cut, d, i, piece, S, t, j, L, c
    <3> QED  BY <3>1, <3>3, <3>4, <3>7, <3>8
  <2>7. CASE To(i, n) # {}
    <3>1. j \in To(i, n) /\ \A k \in To(i, n) : j <= k
      <4>1. To(i, n) \in SUBSET Nat
        BY <2>2 DEF To
      <4> HIDE DEF i
      <4> QED  BY <2>7, <4>1, Least
    <3>2. j \in i .. L /\ piece(j) >= n
      BY <3>1 DEF To
    <3>3. j \in c .. L /\ j - 1 \in c .. L /\ j \in 1 .. L /\ j - 1 \in 0 .. L
      <4> HIDE DEF i, j, L
      <4> QED  BY <1>1, <2>2, <3>2
    <3>4. \A x \in i .. j - 1 : piece(x) < n
      <4> SUFFICES ASSUME NEW x \in i .. j - 1 PROVE piece(x) < n
        OBVIOUS
      <4>1. x \in c .. L /\ x \in 0 .. L /\ x \in i .. L /\ ~(j <= x)
        <5> HIDE DEF i, j, L
        <5> QED  BY <1>1, <2>2, <3>3
      <4>2. ~(piece(x) >= n)
        <5>1. x \notin To(i, n)
          <6> HIDE DEF i, j
          <6> QED  BY <3>1, <4>1
        <5> QED  BY <4>1, <5>1 DEF To
      <4>3. piece(x) = S[x] - S[c] /\ S[x] \in Nat /\ S[c] \in Nat
        <5> HIDE DEF i, c, j
        <5> QED  BY <1>1, <2>2, <2>4, <4>1 DEF Summed
      <4> HIDE DEF piece, S
      <4> QED  BY <4>2, <4>3
    <3> DEFINE d == buffer[j]
               v == w[j - 1]
    <3>5. v = [pos |-> S[j - 1], copied |-> S[j - 1] - S[c], real_length |-> S[j - 1] - S[c],
               out |-> SubSeq(buffer, i, j - 1), over |-> FALSE]
      <4> HIDE DEF i, c, w, piece, S, j
      <4> QED  BY <2>5, <3>3, <3>4
    <3>6. /\ S[j] = S[j - 1] + d.length /\ d.length \in Nat /\ d \in Chunk
          /\ S[j - 1] \in Nat /\ S[c] \in Nat /\ S[j] \in Nat
      <4>1. j \in 0 .. L
        BY <3>3
      <4> HIDE DEF j, i, c
      <4> QED  BY <1>1, <2>2, <3>3, <4>1, PiecesAre
    <3>7. piece(j - 1) = S[j - 1] - S[c] /\ piece(j) = S[j] - S[c]
      <4> HIDE DEF i, c, piece, S, j
      <4> QED  BY <2>4, <3>3
    <3>8. /\ ~v.over /\ v.pos = S[j - 1] /\ v.copied = S[j - 1] - S[c]
          /\ v.real_length = S[j - 1] - S[c] /\ v.out = SubSeq(buffer, i, j - 1)
      <4> HIDE DEF v, S, i, j, c
      <4> QED  BY <3>5
    <3>9. w[j] = Visit(v, d, f_pos, n) /\ v \in States(n)
      <4> HIDE DEF j
      <4> QED  BY <1>1, <3>3 DEF Walks
    <3>10. v.pos >= f_pos /\ v.copied + d.length >= n
      <4>1. S[c] <= S[j - 1]
        <5>1. c <= j - 1 /\ c \in 0 .. Len(buffer) /\ j - 1 \in 0 .. Len(buffer)
          <6> HIDE DEF i, j
          <6> QED  BY <1>1, <2>2, <3>3
        <5> HIDE DEF c, j
        <5> QED  BY <1>1, <5>1, SumsGrow
      <4>2. f_pos \in Nat /\ n \in Nat /\ S[c] >= f_pos /\ piece(j) >= n
        BY <2>2, <3>2
      <4> HIDE DEF v, S, i, j, c, d, piece, t, w, cut
      <4>3. v.pos >= f_pos
        BY <3>6, <3>8, <4>1, <4>2
      <4>4. v.copied + d.length >= n
        BY <3>6, <3>7, <3>8, <4>2
      <4> QED  BY <4>3, <4>4
    <3>11. /\ w[j].over /\ w[j].real_length = S[j - 1] - S[c] + d.length
           /\ w[j].out = Append(SubSeq(buffer, i, j - 1), [d EXCEPT !.length = n - v.copied])
      <4> DEFINE u == Visit(v, d, f_pos, n)
      <4> HIDE DEF w, v, S, j, c, d, i, L
      <4>0. d \in Chunk /\ v \in States(n) /\ ~v.over
        BY <3>6, <3>8, <3>9
      <4>1. /\ u.over /\ u.real_length = v.real_length + d.length
            /\ u.out = Append(v.out, [d EXCEPT !.length = n - v.copied])
        BY <3>10, <4>0, VisitFills
      <4> HIDE DEF u
      <4>2. w[j] = u
        BY <3>9 DEF u
      <4> QED  BY <3>8, <4>1, <4>2
    <3>12. t = w[j]
      <4>1. j \in 0 .. Len(buffer)
        BY <3>3
      <4> HIDE DEF j
      <4>2. w[Len(buffer)] = w[j]
        BY <1>1, <3>11, <4>1, WalkStays
      <4> QED  BY <4>2 DEF Traverse
    <3>13. Min({d.length, n - piece(j - 1)}) = n - v.copied
      <4>1. n - v.copied \in Nat
        <5>1. v.copied \in 0 .. n
          <6> HIDE DEF v
          <6> QED  BY <3>9 DEF States
        <5> QED  BY <5>1
      <4>2. n - piece(j - 1) = n - v.copied /\ n - v.copied <= d.length
        <5> HIDE DEF v, S, j, c, d, piece
        <5> QED  BY <3>6, <3>7, <3>8, <3>10
      <4> HIDE DEF v, d, piece
      <4> QED  BY <3>6, <4>1, <4>2, LeastOfTwo
    <3>14. S[j - 1] - S[c] + d.length = piece(j)
      <4> HIDE DEF S, j, c, d, piece
      <4> QED  BY <3>6, <3>7
    <3>15. cut = [d EXCEPT !.length = n - v.copied]
      BY <3>13
    <3> HIDE DEF cut, d, i, piece, S, t, j, L, c, v, w
    <3> QED  BY <3>11, <3>12, <3>14, <3>15
  <2> QED  BY <2>6, <2>7
<1> QED  BY <1>3, <1>4

-----------------------------------------------------------------------------
\* What a step of p can be, whichever of the two drivers is inserted, but for the end of
\* the calls.
Step(p) == AnyDriver(p) \/ AnyUser(p)
Calls(p) == (\E n \in Counts : CallRead(p, n)) \/ (\E m \in Requests : CallWrite(p, m))
Loads(p) == LoadReads(p) \/ LoadWrites(p) \/ StoreReads(p) \/ StoreWrites(p)

\* They are the steps of the driver that is inserted, and those the two have in common.
LEMMA Steps ==
    ASSUME NEW p \in Procs, Step(p)
    PROVE  /\ inserted' = inserted
           /\ \/ inserted # "mutex" /\ leaked' = leaked /\ (Interrupted(p) \/ Loads(p))
              \/ inserted # "mutex" /\ leaked' = leaked /\ (FinishRead(p) \/ FaultRead(p))
              \/ inserted # "mutex" /\ leaked' = leaked /\ (FailWrite(p) \/ FinishWrite(p))
              \/ inserted = "mutex" /\ (MutexFinishRead(p) \/ MutexFaultRead(p))
              \/ inserted = "mutex" /\ (MutexFailWrite(p) \/ MutexFinishWrite(p))
              \/ leaked' = leaked /\ (Calls(p) \/ Down(p) \/ AppendChunk(p) \/ Clear(p))
BY Zenon DEF Step, AnyDriver, AnyUser, Driver, User, MutexDriver, MutexUser, Calls, Loads

\* Lists of chunks have bytes, and so has what a writer has appended.
LEMMA BytesNat == ASSUME NEW s \in Seq(Chunk) PROVE Sized(s) /\ Bytes(s) \in Nat
<1>1. Sized(s)
  <2>1. \A c \in Chunk : c.length \in Nat
    BY Chunking DEF Chunk
  <2> QED  BY <2>1 DEF Sized
<1>2. Summed(s) /\ Len(s) \in 0 .. Len(s)
  BY <1>1, SumsAre
<1> QED  BY <1>1, <1>2 DEF Summed, Bytes

\* An empty list has none.
LEMMA NoBytes == Bytes(<<>>) = 0
<1>1. <<>> \in Seq(Chunk) /\ Len(<<>>) = 0
  OBVIOUS
<1>2. Summed(<<>>)
  BY <1>1, BytesNat, SumsAre
<1> QED  BY <1>1, <1>2 DEF Bytes, Summed

\* What a call is to write consists of chunks.
LEMMA Messages ==
    ASSUME TypeOK, NEW p \in Procs
    PROVE  /\ local[p].msg \in Seq(Chunk) /\ Appended(p) \in Nat
           /\ \A k \in 1 .. Len(local[p].msg) : local[p].msg[k] \in Chunks \cap Chunk
<1> DEFINE m == local[p].msg
<1>1. m \in Requests \cup {<<>>} /\ local[p].i \in Nat /\ local[p].i <= Len(m)
  BY DEF TypeOK
<1>2. m \in Seq(Chunk)
  <2>1. m \in Requests => m \in Seq(Chunk)
    BY Chunking, Zenon DEF Chunk, Contents
  <2>2. <<>> \in Seq(Chunk)
    OBVIOUS
  <2> HIDE DEF m
  <2> QED  BY <1>1, <2>1, <2>2
<1>3. ASSUME NEW k \in 1 .. Len(m) PROVE m[k] \in Chunks \cap Chunk
  <2>1. m # <<>> /\ k \in DOMAIN m
    BY <1>2
  <2>2. m \in Requests /\ m[k] \in Chunk
    BY <1>1, <1>2, <2>1
  <2>3. m[k] \in Range(m)
    BY <2>1 DEF Range
  <2> QED  BY <2>2, <2>3 DEF Chunks
<1>4. Appended(p) \in Nat
  <2>1. SubSeq(m, 1, local[p].i) \in Seq(Chunk)
    BY <1>1, <1>2
  <2> QED  BY <2>1, BytesNat DEF Appended
<1> QED  BY <1>2, <1>3, <1>4

\* A read moves the file position by a number.
LEMMA RealLength ==
    ASSUME TypeOK, NEW p \in Procs
    PROVE  Traverse(fpos[p], local[p].count).real_length \in Nat
<1> DEFINE f_pos == fpos[p]
           n     == local[p].count
<1>1. f_pos \in Nat /\ n \in Nat /\ buffer \in Seq(Chunk)
  <2>1. f_pos \in Nat /\ n \in Counts \cup {0}
    BY DEF TypeOK
  <2>2. Counts \subseteq Nat
    BY Chunking
  <2> HIDE DEF f_pos, n
  <2> QED  BY <2>1, <2>2, Chunked
<1> HIDE DEF f_pos, n
<1>2. Walks(f_pos, n) /\ Len(buffer) \in 0 .. Len(buffer)
  BY <1>1, WalkIs
<1>3. Walk(f_pos, n)[Len(buffer)] \in States(n)
  BY <1>2 DEF Walks
<1> QED  BY <1>3 DEF Traverse, States, f_pos, n

\* A step leaves the other processes where they are.
LEMMA OthersKept ==
    ASSUME NEW p \in Procs, Step(p), TypeOK
    PROVE  \A q \in Procs \ {p} : pc'[q] = pc[q] /\ local'[q] = local[q] /\ fpos'[q] = fpos[q]
<1> USE DEF TypeOK, Goto, Return, SetPos, NoCall
<1>1. CASE Interrupted(p) \/ Loads(p)
  BY <1>1 DEF Interrupted, Loads, LoadReads, LoadWrites, StoreReads, StoreWrites
<1>2. CASE FinishRead(p) \/ FaultRead(p) \/ FailWrite(p) \/ FinishWrite(p)
  BY <1>2 DEF FinishRead, FaultRead, FailWrite, FinishWrite
<1>3. CASE MutexFinishRead(p) \/ MutexFaultRead(p) \/ MutexFailWrite(p) \/ MutexFinishWrite(p)
  BY <1>3 DEF MutexFinishRead, MutexFaultRead, MutexFailWrite, MutexFinishWrite
<1>4. CASE Calls(p)
  BY <1>4 DEF Calls, CallRead, CallWrite, Call
<1>5. CASE Down(p) \/ AppendChunk(p) \/ Clear(p)
  BY <1>5 DEF Down, AppendChunk, Clear
<1> QED  BY <1>1, <1>2, <1>3, <1>4, <1>5, Steps

\* A process changes the list and the lock only while it holds the lock, but for taking it.
Shape(p) ==
    \/ /\ pc[p] \notin {"reading", "writing"} /\ pc'[p] \notin {"reading", "writing"}
       /\ my_sem' = my_sem /\ leaked' = leaked /\ list' = list
    \/ /\ pc[p] \notin {"reading", "writing"} /\ pc'[p] \in {"reading", "writing"}
       /\ my_sem = 1 /\ my_sem' = 0 /\ leaked' = leaked /\ list' = list
    \/ /\ pc[p] = "writing" /\ pc'[p] = "writing"
       /\ my_sem' = my_sem /\ leaked' = leaked /\ AppendChunk(p)
    \/ /\ pc[p] \in {"reading", "writing"} /\ pc'[p] \notin {"reading", "writing"}
       /\ \/ my_sem' = my_sem + 1 /\ leaked' = leaked
          \/ my_sem' = my_sem /\ leaked' = TRUE
       /\ list' = list \/ clean_list

\* Every step is of one of these forms.
LEMMA Shapes == ASSUME NEW p \in Procs, Step(p), TypeOK PROVE Shape(p)
<1> USE DEF TypeOK, Goto, Return, NoCall, Shape, list
<1>1. CASE leaked' = leaked /\ (Interrupted(p) \/ Loads(p))
  BY <1>1 DEF Interrupted, Loads, LoadReads, LoadWrites, StoreReads, StoreWrites
<1>2. CASE leaked' = leaked /\ (FinishRead(p) \/ FaultRead(p) \/ FailWrite(p) \/ FinishWrite(p))
  BY <1>2 DEF FinishRead, FaultRead, FailWrite, FinishWrite, up
<1>3. CASE MutexFinishRead(p) \/ MutexFaultRead(p) \/ MutexFailWrite(p) \/ MutexFinishWrite(p)
  BY <1>3 DEF MutexFinishRead, MutexFaultRead, MutexFailWrite, MutexFinishWrite, Unlocking,
              Leaking, up
<1>4. CASE leaked' = leaked /\ Calls(p)
  BY <1>4 DEF Calls, CallRead, CallWrite, Call
<1>5. CASE leaked' = leaked /\ Down(p)
  BY <1>5 DEF Down, down
<1>6. CASE leaked' = leaked /\ AppendChunk(p)
  BY <1>6 DEF AppendChunk
<1>7. CASE leaked' = leaked /\ Clear(p)
  BY <1>7 DEF Clear, up
<1> QED  BY <1>1, <1>2, <1>3, <1>4, <1>5, <1>6, <1>7, Steps

\* The lock is held by the process in the list, if any, and free otherwise unless leaked.
LEMMA LockKept ==
    ASSUME NEW p \in Procs, Step(p), TypeOK, LockConsistent
    PROVE  LockConsistent' /\ my_sem' \in {0, 1}
<1> DEFINE In(q) == pc[q] \in {"reading", "writing"}
<1>1. \A q \in Procs \ {p} : In(q)' <=> In(q)
  BY OthersKept
<1>2. /\ \A q, r \in Procs : In(q) /\ In(r) => q = r
      /\ \A q \in Procs : In(q) => my_sem = 0
      /\ my_sem = 0 => leaked \/ \E q \in Procs : In(q)
      /\ my_sem \in {0, 1} /\ leaked \in BOOLEAN
  BY DEF LockConsistent, Holders, TypeOK
<1>3. \/ ~In(p) /\ ~In(p)' /\ my_sem' = my_sem /\ leaked' = leaked
      \/ ~In(p) /\ In(p)' /\ my_sem = 1 /\ my_sem' = 0 /\ leaked' = leaked
      \/ In(p) /\ In(p)' /\ my_sem' = my_sem /\ leaked' = leaked
      \/ In(p) /\ ~In(p)' /\ my_sem' = my_sem + 1 /\ leaked' = leaked
      \/ In(p) /\ ~In(p)' /\ my_sem' = my_sem /\ leaked' = TRUE
  BY Shapes DEF Shape
<1> HIDE DEF In
<1>4. /\ \A q, r \in Procs : In(q)' /\ In(r)' => q = r
      /\ \A q \in Procs : In(q)' => my_sem' = 0
      /\ my_sem' = 0 => leaked' \/ \E q \in Procs : In(q)'
      /\ my_sem' \in {0, 1}
  BY <1>1, <1>2, <1>3
<1> QED  BY <1>4 DEF LockConsistent, Holders, In

\* What the list becomes.
LEMMA ListKept ==
    ASSUME NEW p \in Procs, Step(p), TypeOK, LengthConsistent
    PROVE  buffer' \in Seq(Chunks) /\ total_length' \in Nat /\ LengthConsistent'
<1>1. buffer \in Seq(Chunks) /\ total_length \in Nat /\ total_length = Bytes(buffer)
  BY DEF TypeOK, LengthConsistent
<1>2. CASE list' = list
  BY <1>1, <1>2 DEF list, LengthConsistent
<1>3. CASE clean_list
  <2>1. <<>> \in Seq(Chunks)
    OBVIOUS
  <2> QED  BY <1>3, <2>1, NoBytes DEF clean_list, LengthConsistent
<1>4. CASE AppendChunk(p)
  <2> DEFINE c == Current(p)
  <2>1. c \in Chunks /\ c \in Chunk
    <3>1. local[p].i + 1 \in 1 .. Len(local[p].msg)
      <4>1. local[p].i < Len(local[p].msg)
        BY <1>4 DEF AppendChunk, Unwritten
      <4>2. local[p].i \in Nat
        BY DEF TypeOK
      <4>3. Len(local[p].msg) \in Nat
        BY Messages
      <4> QED  BY <4>1, <4>2, <4>3
    <3> QED  BY <3>1, Messages DEF Current
  <2>2. buffer' = Append(buffer, c) /\ total_length' = total_length + c.length
    BY <1>4 DEF AppendChunk
  <2>3. c.length \in Nat
    BY <2>1, Chunking DEF Chunk
  <2> HIDE DEF c
  <2>4. buffer \in Seq(Chunk) /\ Sized(buffer)
    BY Chunked
  <2>5. Bytes(Append(buffer, c)) = Bytes(buffer) + c.length
    BY <2>1, <2>3, <2>4, BytesAppended
  <2> QED  BY <1>1, <2>1, <2>2, <2>3, <2>5 DEF LengthConsistent
<1> QED  BY <1>2, <1>3, <1>4, Shapes DEF Shape

\* What a step does to what p keeps of its call.
Place  == {"user", "down_read", "reading", "load_reads", "store_reads",
           "down_write", "writing", "load_writes", "store_writes"}
Local  == [count : Counts \cup {0}, i : Nat, old : Nat, msg : Requests \cup {<<>>}]
Moved(r, p) == local' = [local EXCEPT ![p] = r]

\* It replaces them by variables of the right type, with no more appended than was asked for.
LEMMA LocalKept ==
    ASSUME NEW p \in Procs, Step(p), TypeOK, CallsConsistent
    PROVE  \E r \in Local : Moved(r, p) /\ r.i <= Len(r.msg)
<1> DEFINE l == local[p]
<1>1. /\ l \in Local /\ l.i <= Len(l.msg) /\ local \in [Procs -> Local]
      /\ read_count \in Nat /\ write_count \in Nat
  BY DEF TypeOK, Local
<1> HIDE DEF l
<1>2. CASE local' = local
  <2>1. Moved(l, p)
    BY <1>1, <1>2 DEF Moved, l
  <2> QED  BY <1>1, <2>1
<1>3. CASE local' = [local EXCEPT ![p] = NoCall]
  <2>1. NoCall \in Local /\ NoCall.i = 0 /\ NoCall.msg = <<>>
    BY DEF NoCall, Local
  <2>2. NoCall.i <= Len(NoCall.msg)
    BY <2>1
  <2> QED  BY <1>3, <2>1, <2>2 DEF Moved
<1>4. CASE \E old \in {read_count, write_count} : local' = [local EXCEPT ![p].old = old]
  <2>1. PICK old \in Nat : local' = [local EXCEPT ![p].old = old]
    BY <1>1, <1>4
  <2> DEFINE r == [l EXCEPT !.old = old]
  <2>2. r \in Local /\ r.i = l.i /\ r.msg = l.msg
    BY <1>1 DEF Local
  <2>3. Moved(r, p)
    BY <2>1 DEF Moved, l
  <2> HIDE DEF r
  <2> QED  BY <1>1, <2>2, <2>3
<1>5. CASE \E n \in Counts : local' = [local EXCEPT ![p].count = n]
  <2>1. PICK n \in Counts : local' = [local EXCEPT ![p].count = n]
    BY <1>5
  <2> DEFINE r == [l EXCEPT !.count = n]
  <2>2. r \in Local /\ r.i = l.i /\ r.msg = l.msg
    BY <1>1 DEF Local
  <2>3. Moved(r, p)
    BY <2>1 DEF Moved, l
  <2> HIDE DEF r
  <2> QED  BY <1>1, <2>2, <2>3
<1>6. CASE l.i = 0 /\ \E m \in Requests : local' = [local EXCEPT ![p].msg = m]
  <2>1. PICK m \in Requests : local' = [local EXCEPT ![p].msg = m]
    BY <1>6
  <2> DEFINE r == [l EXCEPT !.msg = m]
  <2>2. r \in Local /\ r.i = 0 /\ r.msg = m
    BY <1>1, <1>6 DEF Local
  <2>3. Moved(r, p)
    BY <2>1 DEF Moved, l
  <2>4. 0 <= Len(m)
    <3>1. m \in Seq([length : 1 .. INTERNAL_SIZE, contents : {A, B, C, CLEAR}])
      BY Chunking
    <3> QED  BY <3>1
  <2> HIDE DEF r
  <2> QED  BY <2>2, <2>3, <2>4
<1>7. CASE Unwritten(p) /\ local' = [local EXCEPT ![p].i = @ + 1]
  <2> DEFINE r == [l EXCEPT !.i = @ + 1]
  <2>1. r \in Local /\ r.i = l.i + 1 /\ r.msg = l.msg /\ l.i \in Nat
    BY <1>1 DEF Local
  <2>4. l.i < Len(l.msg)
    BY <1>7 DEF Unwritten, l
  <2>2. Moved(r, p)
    BY <1>7 DEF Moved, l
  <2>3. l.i + 1 <= Len(l.msg)
    <3>1. Len(l.msg) \in Nat
      BY Messages DEF l
    <3> QED  BY <2>1, <2>4, <3>1
  <2> HIDE DEF r
  <2> QED  BY <2>1, <2>2, <2>3, <2>4
<1>8. \/ local' = local
      \/ local' = [local EXCEPT ![p] = NoCall]
      \/ \E old \in {read_count, write_count} : local' = [local EXCEPT ![p].old = old]
      \/ \E n \in Counts : local' = [local EXCEPT ![p].count = n]
      \/ pc[p] = "user" /\ \E m \in Requests : local' = [local EXCEPT ![p].msg = m]
      \/ Unwritten(p) /\ local' = [local EXCEPT ![p].i = @ + 1]
  <2>1. CASE Interrupted(p) \/ Loads(p)
    BY <2>1 DEF Interrupted, Loads, LoadReads, LoadWrites, StoreReads, StoreWrites, Return
  <2>2. CASE FinishRead(p) \/ FaultRead(p) \/ FailWrite(p) \/ FinishWrite(p)
    BY <2>2 DEF FinishRead, FaultRead, FailWrite, FinishWrite, Return
  <2>3. CASE MutexFinishRead(p) \/ MutexFaultRead(p) \/ MutexFailWrite(p) \/ MutexFinishWrite(p)
    BY <2>3 DEF MutexFinishRead, MutexFaultRead, MutexFailWrite, MutexFinishWrite, Return
  <2>4. CASE Calls(p)
    BY <2>4 DEF Calls, CallRead, CallWrite, Call
  <2>5. CASE Down(p) \/ AppendChunk(p) \/ Clear(p)
    BY <2>5 DEF Down, AppendChunk, Clear, Return
  <2> QED  BY <2>1, <2>2, <2>3, <2>4, <2>5, Steps
<1>9. pc[p] = "user" => l.i = 0
  BY DEF CallsConsistent, NoCall, l
<1> QED  BY <1>2, <1>3, <1>4, <1>5, <1>6, <1>7, <1>8, <1>9

\* Everything stays in its type.
LEMMA TypeKept ==
    ASSUME NEW p \in Procs, Step(p), TypeOK, LockConsistent, CallsConsistent, LengthConsistent
    PROVE  TypeOK'
<1>1. buffer' \in Seq(Chunks) /\ total_length' \in Nat /\ my_sem' \in {0, 1}
  BY ListKept, LockKept
<1>2. local' \in [Procs -> Local] /\ \A q \in Procs : local'[q].i <= Len(local'[q].msg)
  <2>1. PICK r \in Local : Moved(r, p) /\ r.i <= Len(r.msg)
    BY LocalKept
  <2>2. local \in [Procs -> Local] /\ \A q \in Procs : local[q].i <= Len(local[q].msg)
    BY DEF TypeOK, Local
  <2>3. local'[p] = r /\ \A q \in Procs \ {p} : local'[q] = local[q]
    BY <2>1, <2>2 DEF Moved
  <2>4. local' \in [Procs -> Local]
    BY <2>1, <2>2 DEF Moved
  <2> QED  BY <2>1, <2>2, <2>3, <2>4
<1>3. pc' \in [Procs -> Place]
  <2> USE DEF Goto, Return, Place
  <2>0. pc \in [Procs -> Place]
    BY DEF TypeOK
  <2>1. CASE Interrupted(p) \/ Loads(p)
    BY <2>0, <2>1 DEF Interrupted, Loads, LoadReads, LoadWrites, StoreReads, StoreWrites
  <2>2. CASE FinishRead(p) \/ FaultRead(p) \/ FailWrite(p) \/ FinishWrite(p)
    BY <2>0, <2>2 DEF FinishRead, FaultRead, FailWrite, FinishWrite
  <2>3. CASE MutexFinishRead(p) \/ MutexFaultRead(p) \/ MutexFailWrite(p) \/ MutexFinishWrite(p)
    BY <2>0, <2>3 DEF MutexFinishRead, MutexFaultRead, MutexFailWrite, MutexFinishWrite
  <2>4. CASE Calls(p)
    BY <2>0, <2>4 DEF Calls, CallRead, CallWrite, Call
  <2>5. CASE Down(p) \/ AppendChunk(p) \/ Clear(p)
    BY <2>0, <2>5 DEF Down, AppendChunk, Clear
  <2> QED  BY <2>1, <2>2, <2>3, <2>4, <2>5, Steps
<1>4. fpos' \in [Procs -> Nat]
  <2> DEFINE a == Appended(p)
             b == Traverse(fpos[p], local[p].count).real_length
  <2>0. fpos \in [Procs -> Nat] /\ fpos[p] + a \in Nat /\ fpos[p] + b \in Nat
    <3>1. a \in Nat /\ b \in Nat /\ fpos \in [Procs -> Nat]
      BY Messages, RealLength DEF TypeOK
    <3> HIDE DEF a, b
    <3> QED  BY <3>1
  <2>1. \/ fpos' = fpos
        \/ \E n \in {fpos[p] + a, fpos[p] + b} : fpos' = [fpos EXCEPT ![p] = n]
    <3> USE DEF SetPos
    <3>1. CASE Interrupted(p) \/ Loads(p)
      BY <3>1 DEF Interrupted, Loads, LoadReads, LoadWrites, StoreReads, StoreWrites
    <3>2. CASE FinishRead(p) \/ FaultRead(p) \/ FailWrite(p) \/ FinishWrite(p)
      BY <3>2 DEF FinishRead, FaultRead, FailWrite, FinishWrite
    <3>3. CASE MutexFinishRead(p) \/ MutexFaultRead(p) \/ MutexFailWrite(p) \/ MutexFinishWrite(p)
      BY <3>3 DEF MutexFinishRead, MutexFaultRead, MutexFailWrite, MutexFinishWrite
    <3>4. CASE Calls(p)
      BY <3>4 DEF Calls, CallRead, CallWrite
    <3>5. CASE Down(p) \/ AppendChunk(p) \/ Clear(p)
      BY <3>5 DEF Down, AppendChunk, Clear
    <3> QED  BY <3>1, <3>2, <3>3, <3>4, <3>5, Steps
  <2> HIDE DEF a, b
  <2> QED  BY <2>0, <2>1
<1>5. calls' \in [Procs -> 0 .. MaxCalls]
  <2>0. calls \in [Procs -> 0 .. MaxCalls] /\ MaxCalls \in Nat
    BY Chunking DEF TypeOK
  <2>1. CASE Interrupted(p) \/ Loads(p)
    BY <2>0, <2>1 DEF Interrupted, Loads, LoadReads, LoadWrites, StoreReads, StoreWrites
  <2>2. CASE FinishRead(p) \/ FaultRead(p) \/ FailWrite(p) \/ FinishWrite(p)
    BY <2>0, <2>2 DEF FinishRead, FaultRead, FailWrite, FinishWrite
  <2>3. CASE MutexFinishRead(p) \/ MutexFaultRead(p) \/ MutexFailWrite(p) \/ MutexFinishWrite(p)
    BY <2>0, <2>3 DEF MutexFinishRead, MutexFaultRead, MutexFailWrite, MutexFinishWrite
  <2>4. CASE Calls(p)
    BY <2>0, <2>4 DEF Calls, CallRead, CallWrite, Call
  <2>5. CASE Down(p) \/ AppendChunk(p) \/ Clear(p)
    BY <2>0, <2>5 DEF Down, AppendChunk, Clear
  <2> QED  BY <2>1, <2>2, <2>3, <2>4, <2>5, Steps
<1>6. read_count' \in Nat /\ write_count' \in Nat /\ reads' \in Nat /\ writes' \in Nat
  <2>0. /\ read_count \in Nat /\ write_count \in Nat /\ reads \in Nat /\ writes \in Nat
        /\ Incremented(p) \in Nat
    <3>1. local[p].old \in Nat
      BY DEF TypeOK
    <3> QED  BY <3>1 DEF TypeOK, Incremented
  <2> USE DEF counts
  <2>1. CASE Interrupted(p) \/ Loads(p)
    BY <2>0, <2>1 DEF Interrupted, Loads, LoadReads, LoadWrites, StoreReads, StoreWrites
  <2>2. CASE FinishRead(p) \/ FaultRead(p) \/ FailWrite(p) \/ FinishWrite(p)
    BY <2>0, <2>2 DEF FinishRead, FaultRead, FailWrite, FinishWrite
  <2>3. CASE MutexFinishRead(p) \/ MutexFaultRead(p) \/ MutexFailWrite(p) \/ MutexFinishWrite(p)
    BY <2>0, <2>3 DEF MutexFinishRead, MutexFaultRead, MutexFailWrite, MutexFinishWrite
  <2>4. CASE Calls(p)
    BY <2>0, <2>4 DEF Calls, CallRead, CallWrite
  <2>5. CASE Down(p) \/ AppendChunk(p) \/ Clear(p)
    BY <2>0, <2>5 DEF Down, AppendChunk, Clear
  <2> QED  BY <2>1, <2>2, <2>3, <2>4, <2>5, Steps
<1>7. inserted' \in {"semaphore", "mutex"} /\ leaked' \in BOOLEAN
  BY Steps, Shapes DEF Shape, TypeOK
<1> QED  BY <1>1, <1>2, <1>3, <1>4, <1>5, <1>6, <1>7 DEF TypeOK, Local, Place

\* A chunk that a writer appends follows those that it has appended before.
Written(q) == /\ local[q].i <= Len(buffer)
              /\ \A k \in 1 .. local[q].i :
                    /\ buffer[Len(buffer) - local[q].i + k] = local[q].msg[k]
                    /\ local[q].msg[k].contents # CLEAR

\* This stays so when it appends one more.
LEMMA AppendKeeps ==
    ASSUME NEW p \in Procs, TypeOK, AppendChunk(p), Written(p)
    PROVE  Written(p)'
<1> DEFINE n == Len(buffer)
           i == local[p].i
           m == local[p].msg
           c == Current(p)
<1>1. i \in Nat /\ n \in Nat /\ buffer \in Seq(Chunk) /\ i <= n
  BY Chunked DEF TypeOK, Written
<1>2. buffer' = Append(buffer, c) /\ c = m[i + 1] /\ c.contents # CLEAR
  BY DEF AppendChunk, Current
<1>3. local'[p].i = i + 1 /\ local'[p].msg = m
  BY DEF AppendChunk, TypeOK
<1>4. c \in Chunk
  <2>1. i + 1 \in 1 .. Len(m)
    BY <1>1, Messages DEF AppendChunk, Unwritten
  <2> QED  BY <1>2, <2>1, Messages
<1>5. /\ Len(buffer') = n + 1 /\ buffer'[n + 1] = c
      /\ \A k \in 1 .. n : buffer'[k] = buffer[k]
  <2> HIDE DEF c
  <2> QED  BY <1>1, <1>2, <1>4
<1>6. \A k \in 1 .. i : buffer[n - i + k] = m[k] /\ m[k].contents # CLEAR
  BY DEF Written
<1> HIDE DEF n, i, m, c
<1>7. ASSUME NEW k \in 1 .. i + 1
      PROVE  buffer'[n + 1 - (i + 1) + k] = m[k] /\ m[k].contents # CLEAR
  <2>1. CASE k = i + 1
    <3>1. n + 1 - (i + 1) + k = n + 1
      BY <1>1, <2>1
    <3> QED  BY <1>2, <1>5, <2>1, <3>1
  <2>2. CASE k # i + 1
    <3>1. k \in 1 .. i /\ n + 1 - (i + 1) + k = n - i + k /\ n - i + k \in 1 .. n
      BY <1>1, <2>2
    <3> QED  BY <1>5, <1>6, <3>1
  <2> QED  BY <2>1, <2>2
<1> QED  BY <1>1, <1>3, <1>5, <1>7 DEF Written

\* What the processes keep of their calls stays right: only the holder changes the list.
LEMMA CallsKept ==
    ASSUME NEW p \in Procs, Step(p), TypeOK, LockConsistent, CallsConsistent
    PROVE  CallsConsistent'
<1> DEFINE Fine(q) == /\ pc[q] = "user" => local[q] = NoCall
                      /\ pc[q] \in {"down_read", "reading"} => local[q].count \in Counts
                      /\ pc[q] \in {"down_write", "writing"} => local[q].msg \in Requests
                      /\ pc[q] = "down_write" => local[q].i = 0
                      /\ pc[q] = "writing" => Written(q)
<1>1. \A q \in Procs : Fine(q)
  BY DEF CallsConsistent, Written
<1>2. ASSUME NEW q \in Procs \ {p} PROVE Fine(q)'
  <2>1. pc'[q] = pc[q] /\ local'[q] = local[q]
    BY OthersKept
  <2>2. pc[q] = "writing" => buffer' = buffer
    <3>1. pc[q] = "writing" => pc[p] \notin {"reading", "writing"}
      BY DEF LockConsistent, Holders
    <3> QED  BY <3>1, Shapes DEF Shape, list
  <2> QED  BY <1>1, <2>1, <2>2 DEF Written, NoCall
<1>3. Fine(p)'
  <2>0. /\ pc \in [Procs -> Place] /\ local \in [Procs -> Local]
    BY DEF TypeOK, Place, Local
  <2> USE DEF Goto, Return
  <2>1. CASE Interrupted(p) \/ Loads(p)
    BY <2>0, <2>1 DEF Interrupted, Loads, LoadReads, LoadWrites, StoreReads, StoreWrites, NoCall
  <2>2. CASE FinishRead(p) \/ FaultRead(p) \/ FailWrite(p) \/ FinishWrite(p)
    BY <2>0, <2>2 DEF FinishRead, FaultRead, FailWrite, FinishWrite, NoCall
  <2>3. CASE MutexFinishRead(p) \/ MutexFaultRead(p) \/ MutexFailWrite(p) \/ MutexFinishWrite(p)
    BY <2>0, <2>3 DEF MutexFinishRead, MutexFaultRead, MutexFailWrite, MutexFinishWrite, NoCall
  <2>4. CASE \E n \in Counts : CallRead(p, n)
    BY <1>1, <2>0, <2>4 DEF CallRead, Call, NoCall, Local
  <2>5. CASE \E m \in Requests : CallWrite(p, m)
    BY <1>1, <2>0, <2>5 DEF CallWrite, Call, NoCall, Local
  <2>6. CASE Down(p)
    <3>1. /\ local' = local /\ buffer' = buffer
          /\ \/ pc[p] = "down_read" /\ pc'[p] = "reading"
             \/ pc[p] = "down_write" /\ pc'[p] = "writing"
      BY <2>0, <2>6 DEF Down, list
    <3>2. pc'[p] = "writing" => Written(p)'
      <4>1. buffer \in Seq(Chunk)
        BY Chunked
      <4>2. pc'[p] = "writing" => local[p].i = 0
        BY <1>1, <3>1
      <4> QED  BY <3>1, <4>1, <4>2 DEF Written
    <3> QED  BY <1>1, <3>1, <3>2
  <2>7. CASE AppendChunk(p)
    <3>1. pc[p] = "writing" /\ pc'[p] = "writing" /\ local'[p].msg = local[p].msg
      BY <2>0, <2>7 DEF AppendChunk, Local
    <3>2. Written(p)'
      BY <1>1, <2>7, <3>1, AppendKeeps
    <3> QED  BY <1>1, <3>1, <3>2
  <2>8. CASE Clear(p)
    BY <2>0, <2>8 DEF Clear, NoCall
  <2> QED  BY <2>1, <2>2, <2>3, <2>4, <2>5, <2>6, <2>7, <2>8, Steps DEF Calls
<1> QED  BY <1>2, <1>3 DEF CallsConsistent, Written

\* An increment may lose counts, but never invents one; under the mutex, none is lost.
LEMMA CountersKept ==
    ASSUME NEW p \in Procs, Step(p), TypeOK, CountersRight
    PROVE  CountersRight'
<1>0. /\ read_count \in Nat /\ write_count \in Nat /\ reads \in Nat /\ writes \in Nat
      /\ \A q \in Procs : local[q].old \in Nat
      /\ pc \in [Procs -> Place] /\ local \in [Procs -> Local]
  BY DEF TypeOK, Place, Local
<1>1. CASE inserted = "mutex"
  <2>1. read_count = reads /\ write_count = writes
    BY <1>1 DEF CountersRight
  <2> USE DEF counts
  <2>2. CASE MutexFinishRead(p) \/ MutexFaultRead(p) \/ MutexFailWrite(p) \/ MutexFinishWrite(p)
    BY <1>1, <2>1, <2>2, Steps
       DEF MutexFinishRead, MutexFaultRead, MutexFailWrite, MutexFinishWrite, CountersRight
  <2>3. CASE Calls(p)
    BY <1>1, <2>1, <2>3, Steps DEF Calls, CallRead, CallWrite, CountersRight
  <2>4. CASE Down(p) \/ AppendChunk(p) \/ Clear(p)
    BY <1>1, <2>1, <2>4, Steps DEF Down, AppendChunk, Clear, CountersRight
  <2> QED  BY <1>1, <2>2, <2>3, <2>4, Steps
<1>2. CASE inserted # "mutex"
  <2> DEFINE Held(q) == /\ pc[q] = "store_reads" => local[q].old < reads
                        /\ pc[q] = "store_writes" => local[q].old < writes
  <2>1. read_count <= reads /\ write_count <= writes /\ \A q \in Procs : Held(q)
    BY <1>2 DEF CountersRight, CountersBounded
  <2>2. /\ read_count' <= reads' /\ write_count' <= writes'
        /\ reads <= reads' /\ writes <= writes' /\ Held(p)'
    <3> USE DEF counts, Goto, Return
    <3>1. CASE Interrupted(p)
      BY <1>0, <2>1, <3>1 DEF Interrupted
    <3>2. CASE LoadReads(p)
      BY <1>0, <2>1, <3>2 DEF LoadReads, Local
    <3>3. CASE LoadWrites(p)
      BY <1>0, <2>1, <3>3 DEF LoadWrites, Local
    <3>4. CASE StoreReads(p)
      BY <1>0, <2>1, <3>4 DEF StoreReads, Incremented
    <3>5. CASE StoreWrites(p)
      BY <1>0, <2>1, <3>5 DEF StoreWrites, Incremented
    <3>6. CASE FinishRead(p) \/ FaultRead(p) \/ FailWrite(p) \/ FinishWrite(p)
      BY <1>0, <2>1, <3>6 DEF FinishRead, FaultRead, FailWrite, FinishWrite
    <3>7. CASE Calls(p)
      BY <1>0, <2>1, <3>7 DEF Calls, CallRead, CallWrite, Call
    <3>8. CASE Down(p) \/ AppendChunk(p) \/ Clear(p)
      BY <1>0, <2>1, <3>8 DEF Down, AppendChunk, Clear
    <3> QED  BY <1>2, <3>1, <3>2, <3>3, <3>4, <3>5, <3>6, <3>7, <3>8, Steps DEF Loads
  <2>3. reads' \in Nat /\ writes' \in Nat
    <3> USE DEF counts
    <3>1. CASE Interrupted(p) \/ Loads(p)
      BY <1>0, <3>1 DEF Interrupted, Loads, LoadReads, LoadWrites, StoreReads, StoreWrites
    <3>2. CASE FinishRead(p) \/ FaultRead(p) \/ FailWrite(p) \/ FinishWrite(p)
      BY <1>0, <3>2 DEF FinishRead, FaultRead, FailWrite, FinishWrite
    <3>3. CASE Calls(p)
      BY <1>0, <3>3 DEF Calls, CallRead, CallWrite
    <3>4. CASE Down(p) \/ AppendChunk(p) \/ Clear(p)
      BY <1>0, <3>4 DEF Down, AppendChunk, Clear
    <3> QED  BY <1>2, <3>1, <3>2, <3>3, <3>4, Steps
  <2>4. ASSUME NEW q \in Procs \ {p} PROVE Held(q)'
    <3>1. pc'[q] = pc[q] /\ local'[q] = local[q]
      BY OthersKept
    <3>2. Held(q) /\ local[q].old \in Nat
      BY <1>0, <2>1
    <3> QED  BY <1>0, <2>2, <2>3, <3>1, <3>2
  <2>5. \A q \in Procs : Held(q)'
    BY <2>2, <2>4
  <2> QED  BY <1>2, <2>2, <2>5, Steps DEF CountersRight, CountersBounded
<1> QED  BY <1>1, <1>2

\* In the beginning the list is empty and nobody is in the driver.
LEMMA InitInv == AnyInit => IInv
<1> SUFFICES ASSUME AnyInit PROVE IInv
  OBVIOUS
<1>1. <<>> \in Seq(Chunks) /\ Len(<<>>) = 0
  OBVIOUS
<1>2. Bytes(<<>>) = 0
  BY NoBytes
<1>3. TypeOK
  <2>1. NoCall \in [count : Counts \cup {0}, i : Nat, old : Nat, msg : Requests \cup {<<>>}]
    BY DEF NoCall
  <2>2. NoCall.i <= Len(NoCall.msg)
    BY <1>1 DEF NoCall
  <2> HIDE DEF NoCall
  <2>3. Init /\ inserted \in {"semaphore", "mutex"} /\ leaked \in BOOLEAN /\ MaxCalls \in Nat
    BY Chunking DEF AnyInit
  <2>4. \A q \in Procs : local[q] = NoCall
    BY <2>3 DEF Init
  <2>5. \A q \in Procs : local[q].i <= Len(local[q].msg)
    BY <2>2, <2>4
  <2>6. local \in [Procs -> [count : Counts \cup {0}, i : Nat, old : Nat,
                            msg : Requests \cup {<<>>}]]
    BY <2>1, <2>3 DEF Init
  <2>7. /\ my_sem \in {0, 1} /\ fpos \in [Procs -> Nat] /\ calls \in [Procs -> 0 .. MaxCalls]
        /\ pc \in [Procs -> {"user"}]
        /\ {total_length, read_count, write_count, reads, writes} \subseteq Nat
        /\ buffer \in Seq(Chunks)
    BY <1>1, <2>3 DEF Init
  <2> QED  BY <2>3, <2>5, <2>6, <2>7 DEF TypeOK
<1>4. LockConsistent /\ CallsConsistent /\ LengthConsistent /\ CountersRight
  BY <1>2 DEF AnyInit, Init, LockConsistent, Holders, CallsConsistent, LengthConsistent,
              CountersRight, CountersBounded
<1> QED  BY <1>3, <1>4 DEF IInv

\* Nothing changes at the end of the calls.
LEMMA InvStutter == IInv /\ UNCHANGED allVars => IInv'
BY DEF IInv, TypeOK, LockConsistent, Holders, CallsConsistent, LengthConsistent, CountersRight,
       CountersBounded, allVars, vars, list, counts, NoCall

\* Whichever of the two drivers is inserted, its lock keeps the list to one process, what a
\* writer has appended are the last chunks, total_length is right whenever the lock is free
\* and even while it is not, and the counters invent nothing (linked_read, linked_write).
THEOREM Invariance == AnySpec => []IInv
<1>1. IInv /\ [AnyNext]_allVars => IInv'
  <2> SUFFICES ASSUME IInv, [AnyNext]_allVars PROVE IInv'
    OBVIOUS
  <2>1. ASSUME NEW p \in Procs, Step(p) PROVE IInv'
    BY <2>1, TypeKept, LockKept, CallsKept, ListKept, CountersKept DEF IInv
  <2>2. CASE AnyStopped
    <3>1. UNCHANGED allVars
      BY <2>2 DEF AnyStopped, MutexStopped, Stopped, allVars
    <3> QED  BY <3>1, InvStutter
  <2>3. CASE UNCHANGED allVars
    BY <2>3, InvStutter
  <2> QED  BY <2>1, <2>2, <2>3 DEF AnyNext, Step
<1> QED  BY <1>1, InitInv, PTL DEF AnySpec

-----------------------------------------------------------------------------
\* What the device's users see of the list: not what a writer has appended so far.
Log == SubSeq(buffer, 1, Len(buffer)
                - (IF Writers = {} THEN 0 ELSE local[CHOOSE p \in Writers : TRUE].i))

\* The operators of the device are those of the driver.
LEMMA SameOperators == /\ \A s : Device!Bytes(s) = Bytes(s)
                       /\ \A S : Device!Min(S) = Min(S)
BY DEF Device!Bytes, Bytes, Device!Sums, Sums, Device!Min, Min

LogRight == /\ Writers = {} => Log = buffer
            /\ \A p \in Writers : /\ Writers = {p}
                                  /\ Log = SubSeq(buffer, 1, Len(buffer) - local[p].i)
                                  /\ buffer = Log \o SubSeq(local[p].msg, 1, local[p].i)

\* The log is the list, without what a writer has appended so far.
LEMMA LogIs == IInv => LogRight
<1> SUFFICES ASSUME IInv PROVE LogRight
  OBVIOUS
<1> USE DEF IInv
<1>1. buffer \in Seq(Chunk) /\ Len(buffer) \in Nat
  BY Chunked
<1>2. ASSUME Writers = {} PROVE Log = buffer
  <2>1. SubSeq(buffer, 1, Len(buffer) - 0) = buffer
    BY <1>1
  <2> QED  BY <1>2, <2>1 DEF Log
<1>3. ASSUME NEW p \in Writers
      PROVE  /\ Writers = {p}
             /\ Log = SubSeq(buffer, 1, Len(buffer) - local[p].i)
             /\ buffer = Log \o SubSeq(local[p].msg, 1, local[p].i)
  <2> DEFINE n == Len(buffer)
             i == local[p].i
             m == local[p].msg
             l == SubSeq(buffer, 1, n - i)
             r == SubSeq(m, 1, i)
  <2>1. p \in Procs /\ pc[p] = "writing" /\ Writers = {p}
    BY DEF Writers, Holders, LockConsistent
  <2>2. Log = l
    BY <2>1 DEF Log
  <2>3. Written(p)
    BY <2>1 DEF CallsConsistent, Written
  <2>4. i \in Nat /\ n \in Nat /\ i <= n /\ m \in Seq(Chunk) /\ i <= Len(m)
    BY <1>1, <2>1, <2>3, Messages DEF Written, TypeOK
  <2>5. \A k \in 1 .. i : buffer[n - i + k] = m[k]
    BY <2>3 DEF Written
  <2> HIDE DEF n, i, m
  <2>6. /\ l \in Seq(Chunk) /\ Len(l) = n - i /\ \A k \in 1 .. n - i : l[k] = buffer[k]
    BY <1>1, <2>4 DEF n
  <2>7. r \in Seq(Chunk) /\ Len(r) = i /\ \A k \in 1 .. i : r[k] = m[k]
    BY <2>4
  <2> HIDE DEF l, r
  <2>8. /\ l \o r \in Seq(Chunk) /\ Len(l \o r) = n
        /\ \A k \in 1 .. n : (l \o r)[k] = IF k <= n - i THEN l[k] ELSE r[k - (n - i)]
    BY <2>4, <2>6, <2>7
  <2>9. \A k \in 1 .. n : (l \o r)[k] = buffer[k]
    <3> SUFFICES ASSUME NEW k \in 1 .. n PROVE (l \o r)[k] = buffer[k]
      OBVIOUS
    <3>1. CASE k <= n - i
      BY <2>4, <2>6, <2>8, <3>1
    <3>2. CASE ~(k <= n - i)
      <4>1. k - (n - i) \in 1 .. i /\ n - i + (k - (n - i)) = k
        BY <2>4, <3>2
      <4> QED  BY <2>5, <2>7, <2>8, <3>2, <4>1
    <3> QED  BY <3>1, <3>2
  <2>10. buffer = l \o r
    <3>1. Len(buffer) = Len(l \o r) /\ \A k \in 1 .. Len(buffer) : buffer[k] = (l \o r)[k]
      BY <2>8, <2>9 DEF n
    <3> DEFINE lr == l \o r
    <3> HIDE DEF lr
    <3>2. lr \in Seq(Chunk) /\ Len(buffer) = Len(lr) /\ \A k \in 1 .. Len(buffer) : buffer[k] = lr[k]
      BY <2>8, <3>1 DEF lr
    <3>3. buffer = lr
      BY <1>1, <3>2, SeqEqual
    <3> QED  BY <3>3 DEF lr
  <2> QED  BY <2>1, <2>2, <2>10 DEF l, r, m, i, n
<1> QED  BY <1>2, <1>3 DEF LogRight

\* A read of the device, for any log.
DeviceFrom(log, p)      == {i \in 1 .. Len(log) : Device!Bytes(SubSeq(log, 1, i - 1)) >= fpos[p]}
DeviceTo(log, i, count) == {j \in i .. Len(log) : Device!Bytes(SubSeq(log, i, j)) >= count}
Copies(log, p, count, i, j) ==
    /\ out' = [out EXCEPT ![p] =
                  Append(SubSeq(log, i, j - 1),
                         [log[j] EXCEPT !.length =
                             Device!Min({@, count - Device!Bytes(SubSeq(log, i, j - 1))})])]
    /\ fpos' = [fpos EXCEPT ![p] = @ + Device!Bytes(SubSeq(log, i, j))]
ReadOf(log, p, count) ==
    LET from == DeviceFrom(log, p)
        i    == Device!Min(from)
        to   == DeviceTo(log, i, count)
        j    == IF to = {} THEN Len(log) ELSE Device!Min(to)
    IN  IF from = {}
        THEN out' = [out EXCEPT ![p] = <<>>] /\ UNCHANGED fpos
        ELSE Copies(log, p, count, i, j)

\* A read under the lock is the device's.
LEMMA ReadMaps ==
    ASSUME IInv, NEW p \in Procs, pc[p] = "reading", Log' = Log,
           out' = [out EXCEPT ![p] = Traverse(fpos[p], local[p].count).out],
           fpos' = [fpos EXCEPT ![p] = fpos[p] + Traverse(fpos[p], local[p].count).real_length]
    PROVE  Device!Next
<1> DEFINE f_pos == fpos[p]
           n     == local[p].count
           t     == Traverse(f_pos, n)
           i     == Min(From(f_pos))
           j     == IF To(i, n) = {} THEN Len(buffer) ELSE Min(To(i, n))
<1> USE DEF IInv
<1>1. f_pos \in Nat /\ n \in Counts /\ n \in Nat
  <2>1. n \in Counts
    BY DEF CallsConsistent
  <2> QED  BY <2>1, Chunking DEF TypeOK
<1>2. Log = buffer
  <2>1. Writers = {}
    BY DEF LockConsistent, Holders, Writers
  <2> QED  BY <2>1, LogIs DEF LogRight
<1>3. IF From(f_pos) = {}
      THEN t.out = <<>> /\ t.real_length = 0
      ELSE /\ t.out = Append(SubSeq(buffer, i, j - 1),
                             [buffer[j] EXCEPT !.length =
                                 Min({@, n - Bytes(SubSeq(buffer, i, j - 1))})])
           /\ t.real_length = Bytes(SubSeq(buffer, i, j))
  <2> HIDE DEF n, f_pos
  <2> QED  BY <1>1, TraverseIs
<1>4. fpos' = fpos \/ From(f_pos) # {}
  <2>1. t.real_length = 0 => fpos' = fpos
    BY DEF TypeOK
  <2> HIDE DEF t, i, j
  <2> QED  BY <1>3, <2>1
<1>5. ReadOf(buffer, p, n)
  <2>1. DeviceFrom(buffer, p) = From(f_pos) /\ DeviceTo(buffer, i, n) = To(i, n)
    BY SameOperators DEF From, To, DeviceFrom, DeviceTo
  <2>2. Device!Min(From(f_pos)) = i /\ Device!Min(To(i, n)) = Min(To(i, n))
    BY SameOperators
  <2>3. CASE From(f_pos) = {}
    <3>1. out' = [out EXCEPT ![p] = <<>>] /\ fpos' = fpos
      BY <1>3, <1>4, <2>3
    <3> QED  BY <2>1, <2>3, <3>1 DEF ReadOf
  <2>4. CASE From(f_pos) # {}
    <3> DEFINE cut == [buffer[j] EXCEPT !.length = Min({@, n - Bytes(SubSeq(buffer, i, j - 1))})]
    <3>1. /\ out' = [out EXCEPT ![p] = Append(SubSeq(buffer, i, j - 1), cut)]
          /\ fpos' = [fpos EXCEPT ![p] = fpos[p] + Bytes(SubSeq(buffer, i, j))]
      BY <1>3, <2>4
    <3>2. cut = [buffer[j] EXCEPT !.length =
                    Device!Min({@, n - Device!Bytes(SubSeq(buffer, i, j - 1))})]
      BY SameOperators
    <3>3. Copies(buffer, p, n, i, j)
      <4> HIDE DEF i, j, n, cut
      <4> QED  BY <3>1, <3>2, SameOperators DEF Copies
    <3> HIDE DEF n, f_pos
    <3> QED  BY <2>1, <2>2, <2>4, <3>3 DEF ReadOf
  <2> QED  BY <2>3, <2>4
<1>6. Device!Read(p, n)
  <2>1. ReadOf(Log, p, n)
    BY <1>2, <1>5
  <2> QED  BY <2>1 DEF Device!Read, ReadOf, DeviceFrom, DeviceTo, Copies, Log
<1> QED  BY <1>1, <1>6 DEF Device!Next

\* A read that is refused without the lock finds nothing: no log ends after total_length.
LEMMA RefusalMaps ==
    ASSUME IInv, NEW p \in Procs, NEW n \in Counts, fpos[p] > total_length, Log' = Log,
           out' = [out EXCEPT ![p] = <<>>], fpos' = fpos
    PROVE  Device!Next
<1> USE DEF IInv
<1>1. /\ Log \in Seq(Chunk) /\ Len(Log) <= Len(buffer)
      /\ \A k \in 1 .. Len(Log) : Log[k] = buffer[k]
  <2>1. \E m \in 0 .. Len(buffer) : Log = SubSeq(buffer, 1, m)
    <3>1. CASE Writers = {}
      <4>1. SubSeq(buffer, 1, Len(buffer)) = buffer /\ Len(buffer) \in 0 .. Len(buffer)
        BY Chunked
      <4> QED  BY <3>1, <4>1, LogIs DEF LogRight
    <3>2. CASE Writers # {}
      <4>1. PICK q \in Writers : TRUE
        BY <3>2
      <4>2. Log = SubSeq(buffer, 1, Len(buffer) - local[q].i)
        BY <4>1, LogIs DEF LogRight
      <4>3. local[q].i \in Nat /\ local[q].i <= Len(buffer) /\ Len(buffer) \in Nat
        BY <4>1, Chunked DEF Writers, CallsConsistent, TypeOK
      <4>4. Len(buffer) - local[q].i \in 0 .. Len(buffer)
        BY <4>3
      <4> HIDE DEF Log
      <4> QED  BY <4>2, <4>4
    <3> QED  BY <3>1, <3>2
  <2>2. PICK m \in 0 .. Len(buffer) : Log = SubSeq(buffer, 1, m)
    BY <2>1
  <2>3. buffer \in Seq(Chunk)
    BY Chunked
  <2> HIDE DEF Log
  <2> QED  BY <2>2, <2>3
<1>2. DeviceFrom(Log, p) = {}
  <2> SUFFICES ASSUME NEW k \in 1 .. Len(Log) PROVE ~(Bytes(SubSeq(Log, 1, k - 1)) >= fpos[p])
    BY SameOperators DEF DeviceFrom
  <2> HIDE DEF Log
  <2>1. Sized(Log) /\ Sized(buffer) /\ Summed(buffer) /\ Len(Log) \in Nat /\ Len(buffer) \in Nat
    BY <1>1, BytesNat, Chunked
  <2>2. k - 1 \in 0 .. Len(Log) /\ k - 1 \in 0 .. Len(buffer) /\ 1 \in 1 .. Len(Log) + 1
        /\ 1 <= (k - 1) + 1 /\ 1 - 1 = 0
    BY <1>1, <2>1
  <2>3. Bytes(SubSeq(Log, 1, k - 1)) = Sums(Log)[k - 1] - Sums(Log)[0]
    BY <1>1, <2>1, <2>2, BytesBetween
  <2>4. Sums(Log)[k - 1] = Sums(buffer)[k - 1] /\ Sums(Log)[0] = 0
    <3>1. Sums(Log)[k - 1] = Sums(buffer)[k - 1]
      BY <1>1, <2>1, <2>2, SumsAlike
    <3> QED  BY <2>1, <3>1, SumsAre DEF Summed
  <2>5. Sums(buffer)[k - 1] \in Nat /\ Sums(buffer)[k - 1] <= total_length
    <3>1. Sums(buffer)[k - 1] <= Sums(buffer)[Len(buffer)]
      BY <2>1, <2>2, SumsGrow
    <3> QED  BY <2>1, <2>2, <3>1 DEF Summed, LengthConsistent, Bytes
  <2>6. fpos[p] \in Nat /\ total_length \in Nat
    BY DEF TypeOK
  <2> QED  BY <2>3, <2>4, <2>5, <2>6
<1>3. ReadOf(Log, p, n)
  BY <1>2 DEF ReadOf
<1>4. Device!Read(p, n)
  BY <1>3 DEF Device!Read, ReadOf, DeviceFrom, DeviceTo, Copies, Log
<1> QED  BY <1>4 DEF Device!Next

\* A write that ends, or fails, or clears the list, is the device's.
LEMMA WriteMaps ==
    ASSUME IInv, IInv', NEW p \in Procs, Step(p), pc[p] = "writing", pc'[p] # "writing",
           out' = out,
           \/ ~Unwritten(p) /\ buffer' = buffer /\ SetPos(p, fpos[p] + Appended(p))
           \/ Unwritten(p) /\ buffer' = buffer /\ fpos' = fpos
           \/ /\ Unwritten(p) /\ Current(p).contents = CLEAR /\ buffer' = <<>>
              /\ SetPos(p, fpos[p] + Appended(p))
    PROVE  Device!Next
<1> DEFINE m == local[p].msg
           i == local[p].i
<1> USE DEF IInv
<1>1. p \in Writers /\ Writers' = {}
  <2>1. \A q \in Procs \ {p} : pc'[q] = pc[q]
    BY OthersKept
  <2> QED  BY <2>1 DEF Writers, LockConsistent, Holders
<1>2. /\ buffer = Log \o SubSeq(m, 1, i) /\ Log' = buffer'
  <2>1. (IInv => LogRight)'
    BY LogIs, PTL
  <2> QED  BY <1>1, <2>1, LogIs DEF LogRight
<1>3. m \in Requests /\ i \in Nat /\ i <= Len(m) /\ m \in Seq(Chunk)
  BY Messages DEF CallsConsistent, TypeOK
<1>4. i \in Device!Plain(m)
  BY <1>3 DEF CallsConsistent, Device!Plain
<1>5. CASE ~Unwritten(p) /\ buffer' = buffer /\ SetPos(p, fpos[p] + Appended(p))
  <2>1. i = Len(m) /\ SubSeq(m, 1, i) = m
    <3>1. i = Len(m)
      BY <1>3, <1>5 DEF Unwritten
    <3> QED  BY <1>3, <3>1
  <2>2. Appended(p) = Device!Bytes(m)
    BY <2>1, SameOperators DEF Appended
  <2> HIDE DEF m, i
  <2>3. /\ Len(m) \in Device!Plain(m) /\ Log' = Log \o m /\ m \in Requests
        /\ fpos' = [fpos EXCEPT ![p] = fpos[p] + Device!Bytes(m)] /\ out' = out
    BY <1>2, <1>3, <1>4, <1>5, <2>1, <2>2 DEF SetPos
  <2> QED  BY <2>3 DEF Device!Next, Device!Write, Log
<1>6. CASE Unwritten(p) /\ buffer' = buffer /\ fpos' = fpos
  <2>1. i # Len(m)
    BY <1>3, <1>6 DEF Unwritten
  <2> HIDE DEF m, i
  <2>2. /\ i \in Device!Plain(m) \ {Len(m)} /\ Log' = Log \o SubSeq(m, 1, i) /\ m \in Requests
        /\ fpos' = fpos /\ out' = out
    BY <1>2, <1>3, <1>4, <1>6, <2>1
  <2> QED  BY <2>2 DEF Device!Next, Device!Write, Log
<1>7. CASE /\ Unwritten(p) /\ Current(p).contents = CLEAR /\ buffer' = <<>>
           /\ SetPos(p, fpos[p] + Appended(p))
  <2>1. i # Len(m) /\ m[i + 1].contents = CLEAR
    BY <1>3, <1>7 DEF Unwritten, Current
  <2>2. Appended(p) = Device!Bytes(SubSeq(m, 1, i))
    BY SameOperators DEF Appended
  <2> HIDE DEF m, i
  <2>3. /\ i \in Device!Plain(m) \ {Len(m)} /\ m[i + 1].contents = CLEAR /\ Log' = <<>>
        /\ fpos' = [fpos EXCEPT ![p] = fpos[p] + Device!Bytes(SubSeq(m, 1, i))]
        /\ out' = out /\ m \in Requests
    BY <1>2, <1>3, <1>4, <1>7, <2>1, <2>2 DEF SetPos
  <2> QED  BY <2>3 DEF Device!Next, Device!Write, Log
<1> QED  BY <1>5, <1>6, <1>7

\* Other steps do not show in the log.
LEMMA LogKept ==
    ASSUME IInv, IInv', NEW p \in Procs, Step(p),
           \/ pc[p] # "writing" /\ pc'[p] # "writing" /\ list' = list
           \/ Down(p)
           \/ AppendChunk(p)
    PROVE  Log' = Log
<1> USE DEF IInv
<1>1. (IInv => LogRight)' /\ LogRight
  BY LogIs, PTL
<1>2. \A q \in Procs \ {p} : pc'[q] = pc[q] /\ local'[q] = local[q]
  BY OthersKept
<1>3. CASE pc[p] # "writing" /\ pc'[p] # "writing" /\ list' = list
  <2>1. Writers' = Writers /\ buffer' = buffer /\ p \notin Writers
    BY <1>2, <1>3 DEF Writers, list
  <2>2. CASE Writers = {}
    BY <1>1, <2>1, <2>2 DEF LogRight
  <2>3. CASE Writers # {}
    <3>1. PICK q \in Writers : q \in Procs \ {p}
      BY <2>1, <2>3 DEF Writers
    <3>2. local'[q] = local[q]
      BY <1>2, <3>1
    <3>3. Log = SubSeq(buffer, 1, Len(buffer) - local[q].i)
      BY <1>1 DEF LogRight
    <3>4. Log' = SubSeq(buffer', 1, Len(buffer') - local'[q].i)
      BY <1>1, <2>1 DEF LogRight
    <3> HIDE DEF Log
    <3> QED  BY <2>1, <3>2, <3>3, <3>4
  <2> QED  BY <2>2, <2>3
<1>4. CASE Down(p)
  <2>1. /\ pc[p] \in {"down_read", "down_write"} /\ my_sem > 0 /\ buffer' = buffer
        /\ local' = local
    BY <1>4 DEF Down, Goto, down, list
  <2>2. Writers = {}
    BY <2>1 DEF LockConsistent, Writers, Holders
  <2>3. CASE Writers' = {}
    BY <1>1, <2>1, <2>2, <2>3 DEF LogRight
  <2>4. CASE Writers' # {}
    <3>1. p \in Writers' /\ pc[p] = "down_write"
      <4>1. PICK q \in Writers' : TRUE
        BY <2>4
      <4>2. q = p
        BY <1>2, <2>2, <4>1 DEF Writers
      <4>3. pc'[p] = "writing"
        BY <4>1, <4>2 DEF Writers
      <4> QED  BY <1>4, <4>1, <4>2, <4>3 DEF Down, Goto, TypeOK
    <3>2. local'[p].i = 0
      BY <2>1, <3>1 DEF CallsConsistent
    <3>3. Log' = SubSeq(buffer, 1, Len(buffer) - 0)
      BY <1>1, <2>1, <3>1, <3>2 DEF LogRight
    <3>4. SubSeq(buffer, 1, Len(buffer) - 0) = buffer
      BY Chunked
    <3> QED  BY <1>1, <2>2, <3>3, <3>4 DEF LogRight
  <2> QED  BY <2>3, <2>4
<1>5. CASE AppendChunk(p)
  <2> DEFINE n == Len(buffer)
             i == local[p].i
             c == Current(p)
  <2>1. p \in Writers /\ p \in Writers'
    BY <1>5 DEF AppendChunk, Goto, Writers, TypeOK
  <2>2. buffer' = Append(buffer, c) /\ local'[p].i = i + 1
    BY <1>5 DEF AppendChunk, TypeOK
  <2>3. i \in Nat /\ n \in Nat /\ buffer \in Seq(Chunk) /\ i <= n
    <3>1. buffer \in Seq(Chunk)
      BY Chunked
    <3>2. i \in Nat
      BY DEF TypeOK
    <3>3. i <= n
      BY <2>1 DEF CallsConsistent, Writers
    <3> QED  BY <3>1, <3>2, <3>3
  <2>4. c \in Chunk
    <3>1. i + 1 \in 1 .. Len(local[p].msg)
      BY <1>5, <2>3, Messages DEF AppendChunk, Unwritten
    <3> QED  BY <3>1, Messages DEF Current
  <2>5. /\ Log = SubSeq(buffer, 1, n - i)
        /\ Log' = SubSeq(buffer', 1, Len(buffer') - local'[p].i)
    BY <1>1, <2>1 DEF LogRight
  <2> HIDE DEF c, i, n
  <2>6. Len(buffer') = n + 1 /\ n + 1 - (i + 1) = n - i
    BY <2>2, <2>3, <2>4 DEF n
  <2>7. SubSeq(Append(buffer, c), 1, n - i) = SubSeq(buffer, 1, n - i)
    BY <2>3, <2>4 DEF n
  <2>8. SubSeq(buffer', 1, Len(buffer') - local'[p].i) = SubSeq(Append(buffer, c), 1, n - i)
    <3>1. Len(buffer') - local'[p].i = n - i
      BY <2>2, <2>3, <2>6
    <3> QED  BY <2>2, <3>1, Zenon
  <2> HIDE DEF Log
  <2> QED  BY <2>5, <2>7, <2>8
<1> QED  BY <1>3, <1>4, <1>5

\* The device that is not locked away half-way implements the log: every read and every
\* write takes effect at one instant, for any requests, sizes and number of processes.
THEOREM Refinement == AnySpec => ImplementsDevice
<1>1. AnyInit => Device!Init
  <2> SUFFICES ASSUME AnyInit PROVE Device!Init
    OBVIOUS
  <2>1. Log = buffer
    BY InitInv, LogIs DEF LogRight, AnyInit, Init, Writers
  <2> QED  BY <2>1 DEF AnyInit, Init, Device!Init, Log
<1>2. IInv /\ IInv' /\ [AnyNext]_allVars => [Device!Next]_<<Log, fpos, out>>
  <2> SUFFICES ASSUME IInv, IInv', [AnyNext]_allVars
               PROVE  Device!Next \/ (Log' = Log /\ fpos' = fpos /\ out' = out)
    BY DEF Log
  <2> USE DEF IInv
  <2>1. ASSUME NEW p \in Procs, Step(p)
        PROVE  Device!Next \/ (Log' = Log /\ fpos' = fpos /\ out' = out)
    <3>0. pc \in [Procs -> Place]
      BY DEF TypeOK, Place
    <3> DEFINE t == Traverse(fpos[p], local[p].count)
    <3>1. CASE Interrupted(p) \/ Loads(p)
      <4>1. pc[p] # "writing" /\ pc'[p] # "writing" /\ list' = list /\ fpos' = fpos /\ out' = out
        BY <3>0, <3>1 DEF Interrupted, Loads, LoadReads, LoadWrites, StoreReads, StoreWrites,
                          Goto, Return
      <4> QED  BY <2>1, <4>1, LogKept
    <3>2. CASE FaultRead(p) \/ MutexFaultRead(p)
      <4>1. pc[p] # "writing" /\ pc'[p] # "writing" /\ list' = list /\ fpos' = fpos /\ out' = out
        BY <3>0, <3>2 DEF FaultRead, MutexFaultRead, Goto, Return
      <4> QED  BY <2>1, <4>1, LogKept
    <3>3. CASE FinishRead(p) \/ MutexFinishRead(p)
      <4>1. /\ pc[p] = "reading" /\ pc'[p] # "writing" /\ list' = list
            /\ out' = [out EXCEPT ![p] = t.out]
            /\ fpos' = [fpos EXCEPT ![p] = fpos[p] + t.real_length]
        BY <3>0, <3>3 DEF FinishRead, MutexFinishRead, Goto, Return, SetPos
      <4>2. Log' = Log
        BY <2>1, <4>1, LogKept
      <4> HIDE DEF Log
      <4> QED  BY <4>1, <4>2, ReadMaps
    <3>4. CASE \E n \in Counts : CallRead(p, n)
      <4>1. PICK n \in Counts : CallRead(p, n)
        BY <3>4
      <4>2. pc[p] # "writing" /\ pc'[p] # "writing" /\ list' = list /\ fpos' = fpos
        BY <3>0, <4>1 DEF CallRead, Call, Goto
      <4>3. Log' = Log
        BY <2>1, <4>2, LogKept
      <4>4. \/ out' = out
            \/ fpos[p] > total_length /\ out' = [out EXCEPT ![p] = <<>>]
        BY <4>1 DEF CallRead
      <4> HIDE DEF Log
      <4> QED  BY <4>2, <4>3, <4>4, RefusalMaps
    <3>5. CASE \E m \in Requests : CallWrite(p, m)
      <4>1. pc[p] # "writing" /\ pc'[p] # "writing" /\ list' = list /\ fpos' = fpos /\ out' = out
        BY <3>0, <3>5 DEF CallWrite, Call, Goto
      <4> QED  BY <2>1, <4>1, LogKept
    <3>6. CASE Down(p) \/ AppendChunk(p)
      <4>1. Log' = Log
        BY <2>1, <3>6, LogKept
      <4> QED  BY <3>6, <4>1 DEF Down, AppendChunk
    <3>7. CASE FinishWrite(p) \/ MutexFinishWrite(p)
      <4>1. /\ pc[p] = "writing" /\ pc'[p] # "writing" /\ out' = out /\ buffer' = buffer
            /\ ~Unwritten(p) /\ SetPos(p, fpos[p] + Appended(p))
        BY <3>0, <3>7 DEF FinishWrite, MutexFinishWrite, Goto, Return, list
      <4> QED  BY <2>1, <4>1, WriteMaps
    <3>8. CASE FailWrite(p) \/ MutexFailWrite(p)
      <4>1. /\ pc[p] = "writing" /\ pc'[p] # "writing" /\ out' = out /\ buffer' = buffer
            /\ Unwritten(p) /\ fpos' = fpos
        BY <3>0, <3>8 DEF FailWrite, MutexFailWrite, Goto, Return, list
      <4> QED  BY <2>1, <4>1, WriteMaps
    <3>9. CASE Clear(p)
      <4>1. /\ pc[p] = "writing" /\ pc'[p] # "writing" /\ out' = out /\ buffer' = <<>>
            /\ Unwritten(p) /\ Current(p).contents = CLEAR /\ SetPos(p, fpos[p] + Appended(p))
        BY <3>0, <3>9 DEF Clear, clean_list, Goto, Return
      <4> QED  BY <2>1, <4>1, WriteMaps
    <3> QED  BY <2>1, <3>1, <3>2, <3>3, <3>4, <3>5, <3>6, <3>7, <3>8, <3>9, Steps DEF Calls
  <2>2. CASE UNCHANGED allVars
    BY <2>2 DEF Log, Writers, Holders, allVars, vars, list
  <2>3. CASE AnyStopped
    <3>1. UNCHANGED allVars
      BY <2>3 DEF AnyStopped, MutexStopped, Stopped, allVars
    <3> QED  BY <3>1 DEF Log, Writers, Holders, allVars, vars, list
  <2> QED  BY <2>1, <2>2, <2>3 DEF AnyNext, Step
<1>3. ImplementsDevice <=> Device!Init /\ [][Device!Next]_<<Log, fpos, out>>
  BY DEF ImplementsDevice, Device!Spec, Log
<1> QED  BY <1>1, <1>2, <1>3, Invariance, PTL DEF AnySpec
=============================================================================
