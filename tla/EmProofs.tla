------------------------------ MODULE EmProofs ------------------------------
(***************************************************************************)
(* Theorems about the text editor, for every size of buffer[] and of the   *)
(* files, every alphabet and dictionary and every width of the screen: the *)
(* array with its shifting loops implements a text left and right of the   *)
(* cursor, Up and Down move by lines, ;-m finds the next unknown word, a   *)
(* save keeps the text, and the screen shows it.                           *)
(***************************************************************************)
EXTENDS Em, FsProofs, FiniteSetTheorems

(* buffer[] as the editor keeps it between two keys: a text of n           *)
(* characters, its terminating zero, and the cursor at p.                  *)
BufferOK(b, n, p) ==
    /\ b \in [Cells -> CharSet \cup {Nul}]
    /\ n \in Cells
    /\ p \in 0..n
    /\ \A k \in 0..(n - 1) : b[k] \in CharSet
    /\ b[n] = Nul

TextOK == BufferOK(buffer, buf_len, cursor_pos)

LEMMA Sizes ==
    /\ EM_BUF_SIZE \in Nat /\ EM_BUF_SIZE >= 1
    /\ Cells \subseteq Nat
    /\ \A k \in Int : k \in Cells <=> 0 <= k /\ k <= EM_BUF_SIZE - 1
    /\ Nul \notin CharSet
  BY EmAssumption DEF Cells, CharSet

LEMMA Bounds ==
    ASSUME NEW b, NEW n, NEW p, BufferOK(b, n, p)
    PROVE  /\ n \in Nat /\ p \in Nat /\ p <= n /\ n <= EM_BUF_SIZE - 1
           /\ \A k \in 0..n : k \in Cells
  BY Sizes DEF BufferOK

-----------------------------------------------------------------------------
(* Least elements                                                          *)

(* The first position from lo on that is hi or in S.                       *)
LEMMA FirstFrom ==
    ASSUME NEW lo \in Nat, NEW hi \in Nat, lo <= hi, NEW S
    PROVE  \E q \in lo..hi : /\ q = hi \/ q \in S
                             /\ \A k \in lo..(q - 1) : k \notin S
  <1> DEFINE T == {q \in lo..hi : q = hi \/ q \in S}
  <1>1. T \subseteq Nat /\ hi \in T
    OBVIOUS
  <1>2. First(T) \in T /\ \A j \in T : First(T) <= j
    BY <1>1, FirstIsLeast
  <1>3. \A k \in lo..(First(T) - 1) : k \notin S
    <2> SUFFICES ASSUME NEW k \in lo..(First(T) - 1), k \in S
                 PROVE  FALSE
      OBVIOUS
    <2> DEFINE q == First(T)
    <2>1. q \in lo..hi /\ k \in lo..(q - 1)
      BY <1>2
    <2> HIDE DEF q
    <2>2. k \in lo..hi /\ k < q
      BY <2>1
    <2>3. k \in T
      BY <2>2
    <2>4. q <= k
      BY <1>2, <2>3 DEF q
    <2> QED
      BY <2>1, <2>2, <2>4
  <1> QED
    BY <1>2, <1>3

(* The last position up to p that is 0 or has its predecessor in S.        *)
LEMMA LastBefore ==
    ASSUME NEW p \in Nat, NEW S
    PROVE  \E q \in 0..p : /\ q = 0 \/ q - 1 \in S
                           /\ \A k \in q..(p - 1) : k \notin S
  <1> DEFINE T == {k \in 0..p : p - 1 - k \in S}
  <1> HIDE DEF T
  <1>1. PICK d \in 0..p : /\ d = p \/ d \in T
                          /\ \A k \in 0..(d - 1) : k \notin T
    <2>1. 0 \in Nat /\ 0 <= p
      OBVIOUS
    <2> QED
      BY <2>1, FirstFrom, Zenon
  <1> USE DEF T
  <1>2. p - d \in 0..p
    OBVIOUS
  <1>3. p - d = 0 \/ p - d - 1 \in S
    BY <1>1
  <1>4. ASSUME NEW k \in (p - d)..(p - 1)
        PROVE  k \notin S
    <2>1. p - 1 - k \in 0..(d - 1) /\ p - 1 - k \in 0..p
      OBVIOUS
    <2>2. p - 1 - k \notin T
      BY <1>1, <2>1
    <2>3. p - 1 - (p - 1 - k) = k
      OBVIOUS
    <2> QED
      BY <2>1, <2>2, <2>3
  <1> QED
    BY <1>2, <1>3, <1>4

-----------------------------------------------------------------------------
(* The text as a sequence, and what is left and right of the cursor        *)

TextOf(b, n) == [k \in 1..n |-> b[k - 1]]
LeftOf(b, n, p) == SubSeq(TextOf(b, n), 1, p)
RightOf(b, n, p) == SubSeq(TextOf(b, n), p + 1, n)

(* The string in buffer[], read up to its first zero, is the text.         *)
StringOf(b) ==
    LET zeros == {k \in Cells : b[k] = Nul}
        strlen == IF zeros = {} THEN EM_BUF_SIZE ELSE First(zeros)
    IN  [k \in 1..strlen |-> b[k - 1]]

LEMMA StringIsText ==
    ASSUME NEW b, NEW n, NEW p, BufferOK(b, n, p)
    PROVE  StringOf(b) = TextOf(b, n)
  <1> DEFINE zeros == {k \in Cells : b[k] = Nul}
  <1>1. zeros \subseteq Nat /\ n \in zeros
    BY Sizes DEF BufferOK
  <1>2. First(zeros) \in zeros /\ First(zeros) <= n
    BY <1>1, FirstIsLeast
  <1>3. \A k \in 0..(n - 1) : k \notin zeros
    BY Sizes DEF BufferOK
  <1>4. First(zeros) = n
    <2> HIDE DEF zeros
    <2>1. First(zeros) \in Nat /\ n \in Nat
      BY <1>1, <1>2
    <2>2. ~(First(zeros) \in 0..(n - 1))
      BY <1>2, <1>3
    <2> QED
      BY <1>2, <2>1, <2>2
  <1> QED
    BY <1>1, <1>4 DEF StringOf, TextOf

IsText(s, n) == s \in Seq(CharSet) /\ Len(s) = n

LEMMA TextIsSeq ==
    ASSUME NEW b, NEW n, NEW p, BufferOK(b, n, p)
    PROVE  IsText(TextOf(b, n), n)
  <1>1. n \in Nat
    BY Bounds
  <1>2. \A k \in 1..n : b[k - 1] \in CharSet
    BY <1>1 DEF BufferOK
  <1> QED
    BY <1>1, <1>2 DEF TextOf, IsText

(* Left and right part, by length and by position.                         *)
Parts(b, n, p) ==
    /\ LeftOf(b, n, p) \in Seq(CharSet) /\ RightOf(b, n, p) \in Seq(CharSet)
    /\ Len(LeftOf(b, n, p)) = p
    /\ Len(RightOf(b, n, p)) = n - p
    /\ \A i \in 1..p : LeftOf(b, n, p)[i] = b[i - 1]
    /\ \A i \in 1..(n - p) : RightOf(b, n, p)[i] = b[p + i - 1]
    /\ LeftOf(b, n, p) \o RightOf(b, n, p) = TextOf(b, n)

LEMMA PartsOfText ==
    ASSUME NEW b, NEW n, NEW p, BufferOK(b, n, p)
    PROVE  Parts(b, n, p)
  <1> DEFINE t == TextOf(b, n)
  <1>1. n \in Nat /\ p \in Nat /\ p <= n
    BY Bounds
  <1>2. t \in Seq(CharSet) /\ Len(t) = n
    BY TextIsSeq DEF IsText
  <1>3. \A i \in 1..n : t[i] = b[i - 1]
    BY DEF TextOf
  <1> HIDE DEF t
  <1>4. \A i \in 1..n : t[i] \in CharSet
    BY <1>2, ElementOfSeq
  <1>5. /\ SubSeq(t, 1, p) \in Seq(CharSet)
        /\ Len(SubSeq(t, 1, p)) = p
        /\ \A i \in 1..p : SubSeq(t, 1, p)[i] = t[i]
    BY <1>1, <1>2, <1>4, SubSeqProperties
  <1>6. /\ SubSeq(t, p + 1, n) \in Seq(CharSet)
        /\ Len(SubSeq(t, p + 1, n)) = n - p
        /\ \A i \in 1..(n - p) : SubSeq(t, p + 1, n)[i] = t[p + i]
    BY <1>1, <1>2, <1>4, SubSeqProperties
  <1>7. SubSeq(t, 1, p) \o SubSeq(t, p + 1, n) = t
    <2>1. SubSeq(t, 1, p) \o SubSeq(t, p + 1, n) = SubSeq(t, 1, n)
      BY <1>1, <1>2, ConcatAdjacentSubSeq
    <2> QED
      BY <1>2, <2>1, SubSeqFull
  <1>8. \A i \in 1..p : SubSeq(t, 1, p)[i] = b[i - 1]
    BY <1>1, <1>3, <1>5
  <1>9. \A i \in 1..(n - p) : SubSeq(t, p + 1, n)[i] = b[p + i - 1]
    BY <1>1, <1>3, <1>6
  <1> QED
    BY <1>5, <1>6, <1>7, <1>8, <1>9 DEF t, Parts, LeftOf, RightOf

-----------------------------------------------------------------------------
(* The loops that shift buffer[]                                           *)

(* Two texts are cut at the cursor alike when their cells are the same.    *)
LEMMA SameLeft ==
    ASSUME NEW b, NEW n, NEW c, NEW m, NEW p,
           BufferOK(b, n, p), BufferOK(c, m, p),
           \A k \in 0..(p - 1) : b[k] = c[k]
    PROVE  LeftOf(b, n, p) = LeftOf(c, m, p)
  <1>1. p \in Nat
    BY Bounds
  <1>2. /\ LeftOf(b, n, p) \in Seq(CharSet) /\ Len(LeftOf(b, n, p)) = p
        /\ \A i \in 1..p : LeftOf(b, n, p)[i] = b[i - 1]
    BY PartsOfText DEF Parts
  <1>3. /\ LeftOf(c, m, p) \in Seq(CharSet) /\ Len(LeftOf(c, m, p)) = p
        /\ \A i \in 1..p : LeftOf(c, m, p)[i] = c[i - 1]
    BY PartsOfText DEF Parts
  <1>4. \A i \in 1..p : b[i - 1] = c[i - 1]
    BY <1>1
  <1> QED
    BY <1>2, <1>3, <1>4, SeqEqual

LEMMA SameRight ==
    ASSUME NEW b, NEW n, NEW p, NEW c, NEW m, NEW q,
           BufferOK(b, n, p), BufferOK(c, m, q),
           n - p = m - q,
           \A k \in 0..(n - p - 1) : b[p + k] = c[q + k]
    PROVE  RightOf(b, n, p) = RightOf(c, m, q)
  <1>1. n \in Nat /\ p \in Nat /\ m \in Nat /\ q \in Nat /\ p <= n /\ q <= m
    BY Bounds
  <1>2. /\ RightOf(b, n, p) \in Seq(CharSet) /\ Len(RightOf(b, n, p)) = n - p
        /\ \A i \in 1..(n - p) : RightOf(b, n, p)[i] = b[p + i - 1]
    BY PartsOfText DEF Parts
  <1>3. /\ RightOf(c, m, q) \in Seq(CharSet) /\ Len(RightOf(c, m, q)) = n - p
        /\ \A i \in 1..(n - p) : RightOf(c, m, q)[i] = c[q + i - 1]
    BY PartsOfText DEF Parts
  <1>4. \A i \in 1..(n - p) : b[p + i - 1] = c[q + i - 1]
    <2> SUFFICES ASSUME NEW i \in 1..(n - p)
                 PROVE  b[p + i - 1] = c[q + i - 1]
      OBVIOUS
    <2>1. i - 1 \in 0..(n - p - 1) /\ p + (i - 1) = p + i - 1
          /\ q + (i - 1) = q + i - 1
      BY <1>1
    <2> QED
      BY <2>1
  <1>5. \A i \in 1..(n - p) : RightOf(b, n, p)[i] = RightOf(c, m, q)[i]
    BY <1>2, <1>3, <1>4
  <1> QED
    BY <1>2, <1>3, <1>5, SeqEqual

(* buffer[] after a character has been taken out at position at.           *)
Closed(b, n, at) ==
    [k \in Cells |-> IF k >= at /\ k < n - 1 THEN b[k + 1]
                     ELSE IF k = n - 1 THEN Nul ELSE b[k]]

ClosedRight(b, n, at) ==
    /\ BufferOK(Closed(b, n, at), n - 1, at)
    /\ \A k \in 0..(at - 1) : Closed(b, n, at)[k] = b[k]
    /\ \A k \in 0..(n - 1 - at - 1) : Closed(b, n, at)[at + k] = b[at + 1 + k]

LEMMA ClosedIsText ==
    ASSUME NEW b, NEW n, NEW p, NEW at, BufferOK(b, n, p), at \in 0..(n - 1)
    PROVE  ClosedRight(b, n, at)
  <1> DEFINE c == Closed(b, n, at)
  <1>1. n \in Nat /\ n <= EM_BUF_SIZE - 1 /\ at \in Nat /\ at <= n - 1
    BY Bounds
  <1>2. \A k \in 0..n : k \in Cells
    BY Bounds
  <1>3. \A k \in Cells : b[k] \in CharSet \cup {Nul}
    BY DEF BufferOK
  <1>4. \A k \in 0..(n - 1) : b[k] \in CharSet
    BY DEF BufferOK
  <1>5. \A k \in Cells : c[k] = IF k >= at /\ k < n - 1 THEN b[k + 1]
                                ELSE IF k = n - 1 THEN Nul ELSE b[k]
    BY DEF Closed
  <1>6. c = [k \in Cells |-> c[k]]
    BY DEF Closed
  <1> HIDE DEF c
  <1>7. \A k \in Cells : c[k] \in CharSet \cup {Nul}
    <2> SUFFICES ASSUME NEW k \in Cells
                 PROVE  c[k] \in CharSet \cup {Nul}
      OBVIOUS
    <2>1. k \in Nat
      BY Sizes
    <2>2. CASE k >= at /\ k < n - 1
      BY <1>1, <1>4, <1>5, <2>1, <2>2
    <2>3. CASE ~(k >= at /\ k < n - 1)
      BY <1>3, <1>5, <2>3
    <2> QED
      BY <2>2, <2>3
  <1>8. \A k \in 0..(n - 1 - 1) : c[k] \in CharSet
    <2> SUFFICES ASSUME NEW k \in 0..(n - 1 - 1)
                 PROVE  c[k] \in CharSet
      OBVIOUS
    <2>1. k \in Nat /\ k < n - 1 /\ k \in 0..n
      BY <1>1
    <2>2. k \in Cells
      BY <1>2, <2>1
    <2>3. CASE k >= at
      BY <1>1, <1>4, <1>5, <2>1, <2>2, <2>3
    <2>4. CASE ~(k >= at)
      BY <1>1, <1>4, <1>5, <2>1, <2>2, <2>4
    <2> QED
      BY <2>3, <2>4
  <1>9. n - 1 \in Cells /\ c[n - 1] = Nul
    BY <1>1, <1>2, <1>5
  <1>10. at \in 0..(n - 1)
    OBVIOUS
  <1>11. \A k \in 0..(at - 1) : c[k] = b[k]
    <2> SUFFICES ASSUME NEW k \in 0..(at - 1)
                 PROVE  c[k] = b[k]
      OBVIOUS
    <2>1. k \in Nat /\ k < at /\ k < n - 1 /\ k \in 0..n
      BY <1>1
    <2> QED
      BY <1>1, <1>2, <1>5, <2>1
  <1>12. \A k \in 0..(n - 1 - at - 1) : c[at + k] = b[at + 1 + k]
    <2> SUFFICES ASSUME NEW k \in 0..(n - 1 - at - 1)
                 PROVE  c[at + k] = b[at + 1 + k]
      OBVIOUS
    <2>1. at + k \in 0..n /\ at + k >= at /\ at + k < n - 1
          /\ at + k + 1 = at + 1 + k
      BY <1>1
    <2>2. at + k \in Cells
      BY <1>2, <2>1
    <2> QED
      BY <1>5, <2>1, <2>2
  <1>13. BufferOK(c, n - 1, at)
    BY <1>6, <1>7, <1>8, <1>9, <1>10 DEF BufferOK
  <1> QED
    BY <1>11, <1>12, <1>13 DEF c, ClosedRight

(* buffer[] after c has been put in fit times at the cursor.               *)
Opened(b, n, p, fit, c) ==
    [k \in Cells |-> IF k < p THEN b[k]
                     ELSE IF k < p + fit THEN c
                     ELSE IF k < n + fit THEN b[k - fit]
                     ELSE IF fit > 0 /\ k = n + fit THEN Nul
                     ELSE b[k]]

LEMMA OpenedIsText ==
    ASSUME NEW b, NEW n, NEW p, BufferOK(b, n, p),
           NEW fit \in Nat, n + fit <= EM_BUF_SIZE - 1, NEW c \in CharSet
    PROVE  /\ BufferOK(Opened(b, n, p, fit, c), n + fit, p + fit)
           /\ \A k \in 0..(p - 1) : Opened(b, n, p, fit, c)[k] = b[k]
           /\ \A k \in p..(p + fit - 1) : Opened(b, n, p, fit, c)[k] = c
           /\ \A k \in 0..(n - p - 1) :
                Opened(b, n, p, fit, c)[p + fit + k] = b[p + k]
  <1> DEFINE d == Opened(b, n, p, fit, c)
  <1>1. n \in Nat /\ p \in Nat /\ p <= n
    BY Bounds
  <1>2. \A k \in 0..(n + fit) : k \in Cells
    BY <1>1, Sizes
  <1>3. \A k \in Cells : b[k] \in CharSet \cup {Nul}
    BY DEF BufferOK
  <1>4. \A k \in 0..(n - 1) : b[k] \in CharSet
    BY DEF BufferOK
  <1>5. \A k \in Cells : d[k] = IF k < p THEN b[k]
                                ELSE IF k < p + fit THEN c
                                ELSE IF k < n + fit THEN b[k - fit]
                                ELSE IF fit > 0 /\ k = n + fit THEN Nul
                                ELSE b[k]
    BY DEF Opened
  <1>6. d = [k \in Cells |-> d[k]]
    BY DEF Opened
  <1> HIDE DEF d
  <1>7. \A k \in 0..(n + fit - 1) : d[k] \in CharSet
    <2> SUFFICES ASSUME NEW k \in 0..(n + fit - 1)
                 PROVE  d[k] \in CharSet
      OBVIOUS
    <2>1. k \in Nat /\ k < n + fit /\ k \in Cells
      BY <1>1, <1>2
    <2>2. CASE k < p
      BY <1>1, <1>4, <1>5, <2>1, <2>2
    <2>3. CASE ~(k < p) /\ k < p + fit
      BY <1>5, <2>1, <2>3
    <2>4. CASE ~(k < p) /\ ~(k < p + fit)
      <3>1. k - fit \in 0..(n - 1)
        BY <1>1, <2>1, <2>4
      <3> QED
        BY <1>4, <1>5, <2>1, <2>4, <3>1
    <2> QED
      BY <2>2, <2>3, <2>4
  <1>8. \A k \in Cells : d[k] \in CharSet \cup {Nul}
    <2> SUFFICES ASSUME NEW k \in Cells
                 PROVE  d[k] \in CharSet \cup {Nul}
      OBVIOUS
    <2>1. k \in Nat
      BY Sizes
    <2>2. CASE k < n + fit
      BY <1>1, <1>7, <2>1, <2>2
    <2>3. CASE ~(k < n + fit)
      <3>1. ~(k < p) /\ ~(k < p + fit)
        BY <1>1, <2>1, <2>3
      <3> QED
        BY <1>3, <1>5, <2>3, <3>1
    <2> QED
      BY <2>2, <2>3
  <1>9. n + fit \in Cells /\ d[n + fit] = Nul
    <2>1. n + fit \in Cells /\ ~(n + fit < p) /\ ~(n + fit < p + fit \/ n + fit < n + fit)
      BY <1>1, <1>2
    <2>2. CASE fit > 0
      BY <1>5, <2>1, <2>2
    <2>3. CASE ~(fit > 0)
      <3>1. n + fit = n
        BY <1>1, <2>3
      <3>2. b[n] = Nul
        BY DEF BufferOK
      <3> QED
        BY <1>5, <2>1, <2>3, <3>1, <3>2
    <2> QED
      BY <2>1, <2>2, <2>3
  <1>10. p + fit \in 0..(n + fit)
    BY <1>1
  <1>11. \A k \in 0..(p - 1) : d[k] = b[k]
    BY <1>1, <1>2, <1>5
  <1>12. \A k \in p..(p + fit - 1) : d[k] = c
    BY <1>1, <1>2, <1>5
  <1>13. \A k \in 0..(n - p - 1) : d[p + fit + k] = b[p + k]
    <2> SUFFICES ASSUME NEW k \in 0..(n - p - 1)
                 PROVE  d[p + fit + k] = b[p + k]
      OBVIOUS
    <2> DEFINE j == p + fit + k
    <2>1. j \in 0..(n + fit) /\ ~(j < p) /\ ~(j < p + fit) /\ j < n + fit
          /\ j - fit = p + k
      BY <1>1
    <2> HIDE DEF j
    <2>2. j \in Cells
      BY <1>2, <2>1
    <2>3. d[j] = b[p + k]
      BY <1>5, <2>1, <2>2
    <2> QED
      BY <2>3 DEF j
  <1>14. BufferOK(d, n + fit, p + fit)
    <2>1. d \in [Cells -> CharSet \cup {Nul}]
      BY <1>6, <1>8
    <2>2. n + (fit - 1) = (n + fit) - 1
      BY <1>1
    <2> QED
      BY <1>7, <1>9, <1>10, <2>1, <2>2, Zenon DEF BufferOK
  <1> QED
    BY <1>11, <1>12, <1>13, <1>14 DEF d

-----------------------------------------------------------------------------
(* Lines                                                                   *)

(* A line that holds position p starts at s; one ends at e.                *)
IsStart(s, p) ==
    /\ s \in 0..p
    /\ s = 0 \/ buffer[s - 1] = Nl
    /\ \A k \in s..(p - 1) : buffer[k] # Nl
IsEnd(e, p) ==
    /\ e \in p..buf_len
    /\ e = buf_len \/ buffer[e] = Nl
    /\ \A k \in p..(e - 1) : buffer[k] # Nl

LEMMA LineStartIs ==
    ASSUME NEW p \in Nat
    PROVE  IsStart(LineStart(p), p)
  <1> DEFINE S == {k \in Nat : buffer[k] = Nl}
  <1>1. PICK q \in 0..p : /\ q = 0 \/ q - 1 \in S
                          /\ \A k \in q..(p - 1) : k \notin S
    <2> HIDE DEF S
    <2> QED
      BY LastBefore, Zenon
  <1>2. q = 0 \/ buffer[q - 1] = Nl
    BY <1>1
  <1>3. \A k \in q..(p - 1) : buffer[k] # Nl
    BY <1>1
  <1>4. \E x \in 0..p : /\ x = 0 \/ buffer[x - 1] = Nl
                        /\ \A k \in x..(p - 1) : buffer[k] # Nl
    BY <1>2, <1>3
  <1> QED
    BY <1>4, Zenon DEF LineStart, IsStart

LEMMA LineEndIs ==
    ASSUME TextOK, NEW p \in 0..buf_len
    PROVE  IsEnd(LineEnd(p), p)
  <1> DEFINE S == {k \in Nat : buffer[k] = Nl}
  <1>1. p \in Nat /\ buf_len \in Nat /\ p <= buf_len
    BY Bounds DEF TextOK
  <1>2. PICK q \in p..buf_len : /\ q = buf_len \/ q \in S
                                /\ \A k \in p..(q - 1) : k \notin S
    <2> HIDE DEF S
    <2> QED
      BY <1>1, FirstFrom, Zenon
  <1>3. q = buf_len \/ buffer[q] = Nl
    BY <1>2
  <1>4. \A k \in p..(q - 1) : buffer[k] # Nl
    BY <1>1, <1>2
  <1>5. \E x \in p..buf_len : /\ x = buf_len \/ buffer[x] = Nl
                              /\ \A k \in p..(x - 1) : buffer[k] # Nl
    BY <1>3, <1>4
  <1> QED
    BY <1>5, Zenon DEF LineEnd, IsEnd

-----------------------------------------------------------------------------
(* ;-m                                                                     *)

(* The end of the word at the cursor, where the search begins.             *)
WordEnd == CHOOSE q \in cursor_pos..buf_len :
             /\ q = buf_len \/ buffer[q] \notin Letters
             /\ \A k \in cursor_pos..(q - 1) : buffer[k] \in Letters

LEMMA WordEndIs ==
    ASSUME TextOK
    PROVE  /\ WordEnd \in cursor_pos..buf_len
           /\ WordEnd = buf_len \/ buffer[WordEnd] \notin Letters
           /\ \A k \in cursor_pos..(WordEnd - 1) : buffer[k] \in Letters
  <1> DEFINE S == {k \in Nat : buffer[k] \notin Letters}
  <1>1. cursor_pos \in Nat /\ buf_len \in Nat /\ cursor_pos <= buf_len
    BY Bounds DEF TextOK
  <1>2. PICK q \in cursor_pos..buf_len :
               /\ q = buf_len \/ q \in S
               /\ \A k \in cursor_pos..(q - 1) : k \notin S
    <2> HIDE DEF S
    <2> QED
      BY <1>1, FirstFrom, Zenon
  <1>3. q = buf_len \/ buffer[q] \notin Letters
    BY <1>2
  <1>4. \A k \in cursor_pos..(q - 1) : buffer[k] \in Letters
    BY <1>1, <1>2
  <1>5. \E x \in cursor_pos..buf_len :
               /\ x = buf_len \/ buffer[x] \notin Letters
               /\ \A k \in cursor_pos..(x - 1) : buffer[k] \in Letters
    BY <1>3, <1>4
  <1> QED
    BY <1>5, Zenon DEF WordEnd

LEMMA HopCases ==
    em_hop_error = IF Typos(WordEnd, buf_len) # {} THEN First(Typos(WordEnd, buf_len))
                   ELSE IF Typos(0, WordEnd) # {} THEN First(Typos(0, WordEnd))
                   ELSE cursor_pos
  BY Zenon DEF em_hop_error, WordEnd

(* Where a word may start.                                                 *)
LEMMA TyposInRange ==
    ASSUME NEW lo \in Nat, NEW hi \in Nat, NEW t \in Typos(lo, hi)
    PROVE  /\ t \in lo..(hi - 1)
           /\ buffer[t] \in Letters
           /\ t = lo \/ buffer[t - 1] \notin Letters
  <1>1. PICK w \in Words(lo, hi) : t = w[1]
    BY DEF Typos
  <1>2. /\ w[1] \in lo..hi /\ w[2] \in lo..hi /\ w[1] < w[2]
        /\ \A k \in w[1]..(w[2] - 1) : buffer[k] \in Letters
        /\ w[1] = lo \/ buffer[w[1] - 1] \notin Letters
    BY DEF Words
  <1>3. w[1] \in w[1]..(w[2] - 1) /\ w[1] \in lo..(hi - 1)
    BY <1>2
  <1> QED
    BY <1>1, <1>2, <1>3

(* The words of the text are those on the two sides of a position that no  *)
(* word runs over.                                                         *)
LEMMA WordsSplit ==
    ASSUME TextOK, NEW m \in 0..buf_len,
           m = buf_len \/ buffer[m] \notin Letters
    PROVE  Words(0, buf_len) = Words(0, m) \cup Words(m, buf_len)
  <1> DEFINE n == buf_len
  <1>1. n \in Nat /\ m \in Nat /\ m <= n
    BY Bounds DEF TextOK
  <1> HIDE DEF n
  <1>2. ASSUME NEW w \in Words(0, n)
        PROVE  w \in Words(0, m) \cup Words(m, n)
    <2>1. /\ w \in (0..n) \X (0..n) /\ w[1] \in 0..n /\ w[2] \in 0..n
          /\ w = <<w[1], w[2]>> /\ w[1] < w[2]
          /\ \A k \in w[1]..(w[2] - 1) : buffer[k] \in Letters
          /\ w[1] = 0 \/ buffer[w[1] - 1] \notin Letters
          /\ w[2] = n \/ buffer[w[2]] \notin Letters
      BY DEF Words
    <2>2. w[2] <= m \/ m < w[1]
      <3> SUFFICES ASSUME ~(w[2] <= m), ~(m < w[1])
                   PROVE  FALSE
        OBVIOUS
      <3>1. m \in w[1]..(w[2] - 1) /\ m # n
        BY <1>1, <2>1
      <3> QED
        BY <2>1, <3>1 DEF n
    <2>3. CASE w[2] <= m
      <3>1. w \in (0..m) \X (0..m)
        BY <1>1, <2>1, <2>3
      <3>2. w[2] = m \/ buffer[w[2]] \notin Letters
        BY <1>1, <2>1, <2>3
      <3> QED
        BY <2>1, <3>1, <3>2 DEF Words
    <2>4. CASE m < w[1]
      <3>1. w \in (m..n) \X (m..n)
        BY <1>1, <2>1, <2>4
      <3>2. w[1] = m \/ buffer[w[1] - 1] \notin Letters
        BY <1>1, <2>1, <2>4
      <3> QED
        BY <2>1, <3>1, <3>2 DEF Words
    <2> QED
      BY <2>2, <2>3, <2>4
  <1>3. ASSUME NEW w \in Words(0, m)
        PROVE  w \in Words(0, n)
    <2>1. /\ w \in (0..m) \X (0..m) /\ w[1] \in 0..m /\ w[2] \in 0..m
          /\ w = <<w[1], w[2]>> /\ w[1] < w[2]
          /\ \A k \in w[1]..(w[2] - 1) : buffer[k] \in Letters
          /\ w[1] = 0 \/ buffer[w[1] - 1] \notin Letters
          /\ w[2] = m \/ buffer[w[2]] \notin Letters
      BY DEF Words
    <2>2. w \in (0..n) \X (0..n)
      BY <1>1, <2>1
    <2>3. w[2] = n \/ buffer[w[2]] \notin Letters
      BY <2>1 DEF n
    <2> QED
      BY <2>1, <2>2, <2>3 DEF Words
  <1>4. ASSUME NEW w \in Words(m, n)
        PROVE  w \in Words(0, n)
    <2>1. /\ w \in (m..n) \X (m..n) /\ w[1] \in m..n /\ w[2] \in m..n
          /\ w = <<w[1], w[2]>> /\ w[1] < w[2]
          /\ \A k \in w[1]..(w[2] - 1) : buffer[k] \in Letters
          /\ w[1] = m \/ buffer[w[1] - 1] \notin Letters
          /\ w[2] = n \/ buffer[w[2]] \notin Letters
      BY DEF Words
    <2>2. w \in (0..n) \X (0..n)
      BY <1>1, <2>1
    <2>3. w[1] # m
      <3> SUFFICES ASSUME w[1] = m
                   PROVE  FALSE
        OBVIOUS
      <3>1. m \in w[1]..(w[2] - 1) /\ m # n
        BY <1>1, <2>1
      <3> QED
        BY <2>1, <3>1 DEF n
    <2> QED
      BY <2>1, <2>2, <2>3 DEF Words
  <1> QED
    BY <1>2, <1>3, <1>4 DEF n

LEMMA HopIsNext ==
    ASSUME TextOK
    PROVE  HopFindsNext
  <1> DEFINE n == buf_len
             ahead == Typos(WordEnd, n)
             behind == Typos(0, WordEnd)
  <1>1. n \in Nat /\ cursor_pos \in Nat /\ cursor_pos <= n
    BY Bounds DEF TextOK
  <1>2. /\ WordEnd \in cursor_pos..n
        /\ WordEnd = n \/ buffer[WordEnd] \notin Letters
        /\ \A k \in cursor_pos..(WordEnd - 1) : buffer[k] \in Letters
    BY WordEndIs
  <1>3. WordEnd \in Nat /\ WordEnd \in 0..n
    BY <1>1, <1>2
  <1>4. Typos(0, n) = behind \cup ahead
    <2>1. Words(0, n) = Words(0, WordEnd) \cup Words(WordEnd, n)
      BY <1>2, <1>3, WordsSplit
    <2> QED
      BY <2>1 DEF Typos
  (* What is ahead starts behind the cursor, what is behind it does not.   *)
  <1>5. \A t \in ahead : t \in Nat /\ cursor_pos < t /\ t < n
    <2> SUFFICES ASSUME NEW t \in ahead
                 PROVE  t \in Nat /\ cursor_pos < t /\ t < n
      OBVIOUS
    <2>1. t \in WordEnd..(n - 1) /\ buffer[t] \in Letters
      BY <1>1, <1>3, TyposInRange
    <2>2. t # WordEnd
      BY <1>1, <1>2, <1>3, <2>1
    <2> QED
      BY <1>1, <1>2, <2>1, <2>2
  <1>6. \A t \in behind : t \in Nat /\ t <= cursor_pos
    <2> SUFFICES ASSUME NEW t \in behind
                 PROVE  t \in Nat /\ t <= cursor_pos
      OBVIOUS
    <2>1. /\ t \in 0..(WordEnd - 1)
          /\ t = 0 \/ buffer[t - 1] \notin Letters
      BY <1>1, <1>3, TyposInRange
    <2>2. ASSUME t > cursor_pos
          PROVE  FALSE
      <3>1. t # 0 /\ t - 1 \in cursor_pos..(WordEnd - 1)
        BY <1>1, <1>3, <2>1, <2>2
      <3> QED
        BY <1>2, <2>1, <3>1
    <2> QED
      BY <1>1, <2>1, <2>2
  <1> HIDE DEF ahead, behind
  <1>7. ASSUME ahead # {}
        PROVE  /\ em_hop_error \in Typos(0, n)
               /\ \A t \in Typos(0, n) :
                    After(cursor_pos, em_hop_error) <= After(cursor_pos, t)
    <2>1. em_hop_error = First(ahead)
      BY <1>7, HopCases DEF ahead
    <2>2. First(ahead) \in ahead /\ \A t \in ahead : First(ahead) <= t
      BY <1>5, <1>7, FirstIsLeast
    <2> DEFINE h == First(ahead)
    <2>3. h \in Nat /\ cursor_pos < h /\ h < n
      BY <1>5, <2>2
    <2>4. ASSUME NEW t \in Typos(0, n)
          PROVE  After(cursor_pos, h) <= After(cursor_pos, t)
      <3> HIDE DEF h
      <3>1. After(cursor_pos, h) = h - cursor_pos
        BY <2>3 DEF After
      <3>2. CASE t \in ahead
        <4>1. t \in Nat /\ cursor_pos < t /\ h <= t
          BY <1>5, <2>2, <3>2 DEF h
        <4> QED
          BY <1>1, <2>3, <3>1, <4>1 DEF After
      <3>3. CASE t \in behind
        <4>1. t \in Nat /\ t <= cursor_pos
          BY <1>6, <3>3
        <4>2. After(cursor_pos, t) = t + n + 1 - cursor_pos
          BY <1>1, <4>1 DEF After, n
        <4> QED
          BY <1>1, <2>3, <3>1, <4>1, <4>2
      <3> QED
        BY <1>4, <3>2, <3>3
    <2> QED
      BY <1>4, <2>1, <2>2, <2>4
  <1>8. ASSUME ahead = {}, behind # {}
        PROVE  /\ em_hop_error \in Typos(0, n)
               /\ \A t \in Typos(0, n) :
                    After(cursor_pos, em_hop_error) <= After(cursor_pos, t)
    <2>1. em_hop_error = First(behind)
      BY <1>8, HopCases DEF ahead, behind
    <2>2. First(behind) \in behind /\ \A t \in behind : First(behind) <= t
      BY <1>6, <1>8, FirstIsLeast
    <2> DEFINE h == First(behind)
    <2>3. ASSUME NEW t \in Typos(0, n)
          PROVE  After(cursor_pos, h) <= After(cursor_pos, t)
      <3>1. t \in behind
        BY <1>4, <1>8
      <3>2. t \in Nat /\ t <= cursor_pos /\ h \in Nat /\ h <= cursor_pos /\ h <= t
        BY <1>6, <2>2, <3>1
      <3> HIDE DEF h
      <3> QED
        BY <1>1, <3>2 DEF After
    <2> QED
      BY <1>4, <2>1, <2>2, <2>3
  <1>9. Typos(0, n) # {} => ahead # {} \/ behind # {}
    BY <1>4
  <1> QED
    BY <1>7, <1>8, <1>9 DEF HopFindsNext, n

LEMMA HopInText ==
    ASSUME TextOK
    PROVE  em_hop_error \in 0..buf_len
  <1>1. buf_len \in Nat /\ cursor_pos \in 0..buf_len
    BY Bounds DEF TextOK
  <1>2. WordEnd \in 0..buf_len
    BY <1>1, WordEndIs
  <1>3. \A t \in Typos(WordEnd, buf_len) : t \in 0..buf_len
    BY <1>1, <1>2, TyposInRange
  <1>4. \A t \in Typos(0, WordEnd) : t \in 0..buf_len
    BY <1>1, <1>2, TyposInRange
  <1>5. Typos(WordEnd, buf_len) # {}
          => First(Typos(WordEnd, buf_len)) \in Typos(WordEnd, buf_len)
    BY <1>1, <1>3, FirstIsLeast
  <1>6. Typos(0, WordEnd) # {} => First(Typos(0, WordEnd)) \in Typos(0, WordEnd)
    BY <1>1, <1>4, FirstIsLeast
  <1> QED
    BY <1>1, <1>3, <1>4, <1>5, <1>6, HopCases

-----------------------------------------------------------------------------
(* Rows and columns                                                        *)

Newlines(p) == {k \in 0..(p - 1) : buffer[k] = Nl}
RowStart(p) == {k \in 0..(p - 1) : Row(k) = Row(p)}

LEMMA RowType ==
    ASSUME NEW p \in Nat
    PROVE  IsFiniteSet(Newlines(p)) /\ Row(p) = Cardinality(Newlines(p)) /\ Row(p) \in Nat
  <1>1. IsFiniteSet(0..(p - 1)) /\ Newlines(p) \in SUBSET (0..(p - 1))
    BY FS_Interval DEF Newlines
  <1>2. IsFiniteSet(Newlines(p))
    BY <1>1, FS_Subset
  <1> QED
    BY <1>2, FS_CardinalityType DEF Row, Newlines

LEMMA RowGrows ==
    ASSUME NEW p \in Nat, NEW q \in Nat, p <= q
    PROVE  Row(p) <= Row(q)
  <1>1. Newlines(p) \in SUBSET Newlines(q)
    BY DEF Newlines
  <1> QED
    BY <1>1, RowType, FS_Subset

(* Behind a newline the row is one more, ...                               *)
LEMMA RowNext ==
    ASSUME NEW p \in Nat, buffer[p] = Nl
    PROVE  Row(p + 1) = Row(p) + 1
  <1>1. Newlines(p + 1) = Newlines(p) \cup {p} /\ p \notin Newlines(p)
    BY DEF Newlines
  <1>2. Cardinality(Newlines(p) \cup {p}) = Cardinality(Newlines(p)) + 1
    BY <1>1, RowType, FS_AddElement
  <1>3. p + 1 \in Nat
    OBVIOUS
  <1> QED
    BY <1>1, <1>2, <1>3, RowType

(* ... and where there is none it stays.                                   *)
LEMMA RowStays ==
    ASSUME NEW p \in Nat, NEW q \in Nat, p <= q,
           \A k \in p..(q - 1) : buffer[k] # Nl
    PROVE  Row(p) = Row(q)
  <1>1. Newlines(p) = Newlines(q)
    <2>1. ASSUME NEW k \in Newlines(q)
          PROVE  k \in Newlines(p)
      <3>1. k \in 0..(q - 1) /\ buffer[k] = Nl
        BY DEF Newlines
      <3>2. ~(k \in p..(q - 1))
        BY <3>1
      <3> QED
        BY <3>1, <3>2 DEF Newlines
    <2>2. Newlines(p) \subseteq Newlines(q)
      BY DEF Newlines
    <2> QED
      BY <2>1, <2>2
  <1> QED
    BY <1>1, RowType

LEMMA SpanLength ==
    ASSUME NEW a \in Nat, NEW b \in Nat, a <= b
    PROVE  Cardinality(a..(b - 1)) = b - a
  <1>1. a \in Int /\ b - 1 \in Int
    OBVIOUS
  <1>2. Cardinality(a..(b - 1)) = IF a > b - 1 THEN 0 ELSE (b - 1) - a + 1
    BY <1>1, FS_Interval, Zenon
  <1> QED
    BY <1>2

(* All positions from the start of a line up to p are in its row, those    *)
(* before are not.                                                         *)
LEMMA RowFromStart ==
    ASSUME NEW p \in Nat, NEW s, IsStart(s, p)
    PROVE  /\ \A k \in s..p : Row(k) = Row(p)
           /\ \A k \in 0..(s - 1) : Row(k) < Row(p)
  <1>1. s \in Nat /\ s <= p
    BY DEF IsStart
  <1>2. ASSUME NEW k \in s..p
        PROVE  Row(k) = Row(p)
    <2>1. k \in Nat /\ k <= p /\ \A j \in k..(p - 1) : buffer[j] # Nl
      BY <1>1 DEF IsStart
    <2> QED
      BY <2>1, RowStays
  <1>3. ASSUME NEW k \in 0..(s - 1)
        PROVE  Row(k) < Row(p)
    <2>1. k \in Nat /\ s - 1 \in Nat /\ k <= s - 1
      BY <1>1
    <2>2. buffer[s - 1] = Nl
      BY <1>1, <2>1 DEF IsStart
    <2>3. Row(k) <= Row(s - 1) /\ Row(k) \in Nat /\ Row(s - 1) \in Nat
      BY <2>1, RowGrows, RowType
    <2>4. Row((s - 1) + 1) = Row(s - 1) + 1
      BY <2>1, <2>2, RowNext
    <2>5. (s - 1) + 1 = s /\ Row(s) = Row(p)
      BY <1>1, <1>2
    <2>6. Row(s) = Row(s - 1) + 1
      BY <2>4, <2>5
    <2> QED
      BY <2>3, <2>5, <2>6
  <1> QED
    BY <1>2, <1>3

LEMMA ColumnFromStart ==
    ASSUME NEW p \in Nat, NEW s, IsStart(s, p)
    PROVE  Column(p) = p - s
  <1>1. s \in Nat /\ s <= p
    BY DEF IsStart
  <1>2. \A k \in s..p : Row(k) = Row(p)
    BY RowFromStart
  <1>3. \A k \in 0..(s - 1) : Row(k) < Row(p)
    BY RowFromStart
  <1>4. RowStart(p) = s..(p - 1)
    <2>1. ASSUME NEW k \in RowStart(p)
          PROVE  k \in s..(p - 1)
      <3>1. k \in 0..(p - 1) /\ Row(k) = Row(p) /\ Row(p) \in Nat
        BY RowType DEF RowStart
      <3>2. ~(k \in 0..(s - 1))
        BY <1>3, <3>1
      <3> QED
        BY <1>1, <3>1, <3>2
    <2>2. ASSUME NEW k \in s..(p - 1)
          PROVE  k \in RowStart(p)
      BY <1>1, <1>2 DEF RowStart
    <2> QED
      BY <2>1, <2>2
  <1>5. Cardinality(s..(p - 1)) = p - s
    BY <1>1, SpanLength
  <1> QED
    BY <1>4, <1>5 DEF Column, RowStart

LEMMA WidthOfLine ==
    ASSUME TextOK, NEW p \in 0..buf_len, NEW s, NEW e, IsStart(s, p), IsEnd(e, p)
    PROVE  Width(Row(p)) = e - s
  <1> DEFINE n == buf_len
             line == {k \in 0..(n - 1) : Row(k) = Row(p) /\ buffer[k] # Nl}
  <1>1. n \in Nat /\ p \in Nat /\ s \in Nat /\ e \in Nat /\ s <= p /\ p <= e /\ e <= n
    BY Bounds DEF TextOK, IsStart, IsEnd
  <1>2. \A k \in s..p : Row(k) = Row(p)
    BY <1>1, RowFromStart
  <1>3. \A k \in 0..(s - 1) : Row(k) < Row(p)
    BY <1>1, RowFromStart
  <1>4. ASSUME NEW k \in s..(e - 1)
        PROVE  k \in line
    <2>1. k \in 0..(n - 1)
      BY <1>1
    <2>2. buffer[k] # Nl
      <3>1. k \in s..(p - 1) \/ k \in p..(e - 1)
        BY <1>1
      <3> QED
        BY <3>1 DEF IsStart, IsEnd
    <2>3. Row(k) = Row(p)
      <3>1. CASE k <= p
        BY <1>1, <1>2, <3>1
      <3>2. CASE k > p
        <4>1. \A j \in p..(k - 1) : buffer[j] # Nl
          BY <1>1, <3>2 DEF IsEnd
        <4> QED
          BY <1>1, <3>2, <4>1, RowStays
      <3> QED
        BY <1>1, <3>1, <3>2
    <2> QED
      BY <2>1, <2>2, <2>3
  <1>5. ASSUME NEW k \in line
        PROVE  k \in s..(e - 1)
    <2>1. k \in 0..(n - 1) /\ Row(k) = Row(p) /\ buffer[k] # Nl /\ k \in Nat
      OBVIOUS
    <2>2. Row(p) \in Nat
      BY <1>1, RowType
    <2>3. k >= s
      BY <1>1, <1>3, <2>1, <2>2
    <2>4. ASSUME k > e
          PROVE  FALSE
      <3>1. e # n /\ buffer[e] = Nl
        BY <1>1, <2>1, <2>4 DEF IsEnd, n
      <3>2. Row(e + 1) = Row(e) + 1
        BY <1>1, <3>1, RowNext
      <3>3. Row(e + 1) <= Row(k)
        BY <1>1, <2>1, <2>4, RowGrows
      <3>4. Row(p) <= Row(e) /\ Row(e) \in Nat
        BY <1>1, RowGrows, RowType
      <3> QED
        BY <2>1, <2>2, <3>2, <3>3, <3>4
    <2>5. k # e
      BY <1>1, <2>1 DEF IsEnd, n
    <2> QED
      BY <1>1, <2>1, <2>3, <2>4, <2>5
  <1>6. line = s..(e - 1)
    BY <1>4, <1>5
  <1>7. Cardinality(s..(e - 1)) = e - s
    BY <1>1, SpanLength
  <1> QED
    BY <1>6, <1>7 DEF Width, n

-----------------------------------------------------------------------------
(* Up and Down                                                             *)

(* The place at column col of the line from s to e, or at its end.         *)
LEMMA Landing ==
    ASSUME TextOK, NEW p \in 0..buf_len, NEW s, NEW e, IsStart(s, p), IsEnd(e, p),
           NEW col \in Nat, NEW t, t = s + AtMost(col, e - s)
    PROVE  /\ t \in 0..buf_len
           /\ Row(p) \in 0..Row(buf_len)
           /\ Row(t) = Row(p)
           /\ Column(t) = AtMost(col, Width(Row(p)))
  <1>1. /\ buf_len \in Nat /\ p \in Nat /\ s \in Nat /\ e \in Nat
        /\ s <= p /\ p <= e /\ e <= buf_len
    BY Bounds DEF TextOK, IsStart, IsEnd
  <1>2. t \in Nat /\ s <= t /\ t <= e /\ t - s = AtMost(col, e - s)
    BY <1>1 DEF AtMost
  <1>3. \A k \in s..(t - 1) : buffer[k] # Nl
    <2> SUFFICES ASSUME NEW k \in s..(t - 1)
                 PROVE  buffer[k] # Nl
      OBVIOUS
    <2>1. k \in s..(p - 1) \/ k \in p..(e - 1)
      BY <1>1, <1>2
    <2> QED
      BY <2>1 DEF IsStart, IsEnd
  <1>4. IsStart(s, t)
    BY <1>1, <1>2, <1>3 DEF IsStart
  <1>5. Row(s) = Row(p)
    BY <1>1, RowFromStart
  <1>6. Row(s) = Row(t)
    BY <1>1, <1>2, <1>4, RowFromStart
  <1>7. Column(t) = t - s
    BY <1>2, <1>4, ColumnFromStart
  <1>8. Width(Row(p)) = e - s
    BY WidthOfLine
  <1>9. Row(p) \in 0..Row(buf_len)
    <2>1. Row(p) <= Row(buf_len)
      BY <1>1, RowGrows
    <2>2. Row(p) \in Nat
      BY <1>1, RowType
    <2>3. Row(buf_len) \in Nat
      BY <1>1, RowType
    <2> QED
      BY <2>1, <2>2, <2>3
  <1> QED
    BY <1>1, <1>2, <1>5, <1>6, <1>7, <1>8, <1>9

LEMMA UpByLine ==
    ASSUME TextOK, em_move_up
    PROVE  cursor_pos' \in 0..buf_len /\ Lands(Row(cursor_pos) - 1, cursor_pos')
  <1> DEFINE p == LineStart(cursor_pos)
             start == LineStart(p - 1)
             t == start + AtMost(cursor_pos - p, p - 1 - start)
  <1>1. buf_len \in Nat /\ cursor_pos \in Nat /\ cursor_pos <= buf_len
    BY Bounds DEF TextOK
  <1>2. IsStart(p, cursor_pos)
    BY <1>1, LineStartIs
  <1>3. p \in Nat /\ p <= cursor_pos
    BY <1>1, <1>2 DEF IsStart
  <1>4. Row(cursor_pos) = Row(p) /\ Column(cursor_pos) = cursor_pos - p
    <2>1. Row(p) = Row(cursor_pos)
      BY <1>1, <1>2, <1>3, RowFromStart
    <2> QED
      BY <1>1, <1>2, <2>1, ColumnFromStart
  <1>5. cursor_pos' = IF p = 0 THEN cursor_pos ELSE t
    BY DEF em_move_up, MoveTo
  <1> HIDE DEF p
  <1>6. CASE p = 0
    <2>1. Newlines(0) = {}
      BY DEF Newlines
    <2>2. Row(0) = 0
      BY <2>1, RowType, FS_EmptySet
    <2>3. ~(Row(cursor_pos) - 1 \in 0..Row(buf_len))
      BY <1>4, <1>6, <2>2
    <2>4. cursor_pos' = cursor_pos
      BY <1>5, <1>6
    <2> QED
      BY <1>1, <2>3, <2>4 DEF Lands
  <1>7. CASE p # 0
    <2> DEFINE r == p - 1
    <2>1. r \in Nat /\ r \in 0..buf_len /\ r + 1 = p
      BY <1>1, <1>3, <1>7
    <2>2. buffer[r] = Nl
      BY <1>2, <1>7 DEF IsStart
    <2>3. IsStart(start, r)
      BY <2>1, LineStartIs
    <2>4. IsEnd(r, r)
      BY <2>1, <2>2 DEF IsEnd
    <2>5. cursor_pos - p \in Nat
      BY <1>1, <1>3
    <2>6. t = start + AtMost(cursor_pos - p, r - start)
      OBVIOUS
    <2>7. Row(cursor_pos) - 1 = Row(r)
      <3>1. Row(r + 1) = Row(r) + 1 /\ Row(r) \in Nat
        BY <2>1, <2>2, RowNext, RowType
      <3> QED
        BY <1>4, <2>1, <3>1
    <2> HIDE DEF t, r, start
    <2>8. /\ t \in 0..buf_len /\ Row(r) \in 0..Row(buf_len) /\ Row(t) = Row(r)
          /\ Column(t) = AtMost(cursor_pos - p, Width(Row(r)))
      BY <2>1, <2>3, <2>4, <2>5, <2>6, Landing
    <2>9. cursor_pos' = t
      BY <1>5, <1>7
    <2>10. Lands(Row(cursor_pos) - 1, t)
      BY <1>4, <2>7, <2>8 DEF Lands
    <2> QED
      BY <2>8, <2>9, <2>10
  <1> QED
    BY <1>6, <1>7

LEMMA DownByLine ==
    ASSUME TextOK, em_move_down
    PROVE  cursor_pos' \in 0..buf_len /\ Lands(Row(cursor_pos) + 1, cursor_pos')
  <1> DEFINE p == LineEnd(cursor_pos)
             s == LineStart(cursor_pos)
             q == p + 1
             e == LineEnd(q)
             t == q + AtMost(cursor_pos - s, e - q)
  <1>1. buf_len \in Nat /\ cursor_pos \in Nat /\ cursor_pos \in 0..buf_len
    BY Bounds DEF TextOK
  <1>2. IsStart(s, cursor_pos) /\ IsEnd(p, cursor_pos)
    BY <1>1, LineStartIs, LineEndIs
  <1>3. /\ s \in Nat /\ s <= cursor_pos /\ p \in Nat /\ cursor_pos <= p /\ p <= buf_len
        /\ \A k \in cursor_pos..(p - 1) : buffer[k] # Nl
    BY <1>1, <1>2 DEF IsStart, IsEnd
  <1>4. Row(cursor_pos) = Row(p) /\ Column(cursor_pos) = cursor_pos - s
    <2>1. Row(cursor_pos) = Row(p)
      BY <1>1, <1>3, RowStays
    <2> QED
      BY <1>1, <1>2, <2>1, ColumnFromStart
  <1>5. cursor_pos' = IF p = buf_len THEN cursor_pos ELSE t
    BY DEF em_move_down, MoveTo
  <1> HIDE DEF p, s
  <1>6. CASE p = buf_len
    <2>1. Row(buf_len) \in Nat
      BY <1>1, RowType
    <2>2. ~(Row(cursor_pos) + 1 \in 0..Row(buf_len))
      BY <1>4, <1>6, <2>1
    <2>3. cursor_pos' = cursor_pos
      BY <1>5, <1>6
    <2> QED
      BY <1>1, <2>2, <2>3 DEF Lands
  <1>7. CASE p # buf_len
    <2>1. q \in Nat /\ q \in 0..buf_len /\ q - 1 = p
      BY <1>1, <1>3, <1>7
    <2>2. buffer[p] = Nl
      BY <1>2, <1>7 DEF IsEnd
    <2>3. IsStart(q, q)
      BY <2>1, <2>2 DEF IsStart
    <2>4. IsEnd(e, q)
      BY <2>1, LineEndIs
    <2>5. cursor_pos - s \in Nat
      BY <1>1, <1>3
    <2>6. Row(cursor_pos) + 1 = Row(q)
      BY <1>3, <1>4, <2>2, RowNext
    <2>7. t = q + AtMost(cursor_pos - s, e - q)
      OBVIOUS
    <2> HIDE DEF t, e, q
    <2>8. /\ t \in 0..buf_len /\ Row(q) \in 0..Row(buf_len) /\ Row(t) = Row(q)
          /\ Column(t) = AtMost(cursor_pos - s, Width(Row(q)))
      BY <2>1, <2>3, <2>4, <2>5, <2>7, Landing
    <2>9. cursor_pos' = t
      BY <1>5, <1>7
    <2>10. Lands(Row(cursor_pos) + 1, t)
      BY <1>4, <2>6, <2>8 DEF Lands
    <2> QED
      BY <2>8, <2>9, <2>10
  <1> QED
    BY <1>6, <1>7

-----------------------------------------------------------------------------
(* Files                                                                   *)

(* A table whose files hold texts.                                         *)
FilesOK(f) ==
    /\ f = [i \in Slots |-> f[i]]
    /\ \A i \in Slots :
         /\ f[i] = [used |-> f[i].used, path |-> f[i].path, data |-> f[i].data,
                    is_dir |-> f[i].is_dir, is_system |-> f[i].is_system]
         /\ f[i].data \in Seq(CharSet)

Holds(f, path, t) == IsFile(f, path) /\ f[fs_find(f, path)].data = t

LEMMA ClampIsText ==
    ASSUME NEW t \in Seq(CharSet)
    PROVE  Clamp(t) \in Seq(CharSet)
  <1> DEFINE n == IF Len(t) >= FS_MAX_FILESIZE THEN FS_MAX_FILESIZE - 1 ELSE Len(t)
  <1>1. n \in 0..Len(t)
    BY FsAssumption
  <1> HIDE DEF n
  <1>2. SubSeq(t, 1, n) \in Seq(CharSet)
    <2>1. /\ 1 \in 1..(Len(t) + 1) /\ n \in 0..Len(t)
          /\ \A k \in 1..n : t[k] \in CharSet
      BY <1>1
    <2> QED
      BY <2>1, SubSeqProperties
  <1> QED
    BY <1>2 DEF Clamp, n

LEMMA WriteKeeps ==
    ASSUME NEW f, NEW path, NEW new \in Seq(CharSet),
           FilesOK(f), IsFile(f, path)
    PROVE  /\ FilesOK(fs_write(f, path, new))
           /\ Holds(fs_write(f, path, new), path, Clamp(new))
  <1> DEFINE i == fs_find(f, path)
             t == Clamp(new)
             g == fs_write(f, path, new)
  <1>1. i \in Slots /\ i \in Matches(f, path)
    <2>1. Matches(f, path) \subseteq Slots /\ Matches(f, path) # {}
      BY DEF IsFile, Exists, Matches
    <2> QED
      BY <2>1, FirstIsMember DEF fs_find
  <1>2. g = [f EXCEPT ![i].data = t]
    BY DEF fs_write
  <1>3. ~f[i].is_dir
    BY DEF IsFile
  <1>0. t \in Seq(CharSet)
    BY ClampIsText
  <1> HIDE DEF i, t, g
  <1>4. /\ g = [k \in Slots |-> g[k]]
        /\ g[i] = [f[i] EXCEPT !.data = t]
        /\ \A k \in Slots : k # i => g[k] = f[k]
    <2>1. f = [k \in Slots |-> f[k]]
      BY DEF FilesOK
    <2>2. g = [k \in Slots |-> IF k = i THEN [f[i] EXCEPT !.data = t] ELSE f[k]]
      BY <1>2, <2>1
    <2> QED
      BY <1>1, <2>2
  <1>5. f[i] = [used |-> f[i].used, path |-> f[i].path, data |-> f[i].data,
                is_dir |-> f[i].is_dir, is_system |-> f[i].is_system]
    BY <1>1 DEF FilesOK
  <1>6. g[i] = [used |-> f[i].used, path |-> f[i].path, data |-> t,
                is_dir |-> f[i].is_dir, is_system |-> f[i].is_system]
    <2>1. [f[i] EXCEPT !.data = t] =
             [used |-> f[i].used, path |-> f[i].path, data |-> t,
              is_dir |-> f[i].is_dir, is_system |-> f[i].is_system]
      BY <1>5, SetData
    <2> QED
      BY <1>4, <2>1, Zenon
  <1>7. /\ g[i].used = f[i].used /\ g[i].path = f[i].path
        /\ g[i].data = t /\ g[i].is_dir = f[i].is_dir
        /\ g[i].is_system = f[i].is_system
    BY <1>6
  <1>8. FilesOK(g)
    <2> SUFFICES ASSUME NEW k \in Slots
                 PROVE  /\ g[k] = [used |-> g[k].used, path |-> g[k].path,
                                   data |-> g[k].data, is_dir |-> g[k].is_dir,
                                   is_system |-> g[k].is_system]
                        /\ g[k].data \in Seq(CharSet)
      BY <1>4 DEF FilesOK
    <2>1. CASE k = i
      BY <1>0, <1>6, <1>7, <2>1
    <2>2. CASE k # i
      BY <1>4, <2>2 DEF FilesOK
    <2> QED
      BY <2>1, <2>2
  <1>9. Matches(g, path) = Matches(f, path)
    <2>1. \A k \in Slots : (g[k].used <=> f[k].used) /\ g[k].path = f[k].path
      BY <1>4, <1>7
    <2> QED
      BY <2>1 DEF Matches
  <1>10. fs_find(g, path) = i
    BY <1>9 DEF fs_find, i
  <1>11. Holds(g, path, t)
    <2>1. Exists(g, path)
      BY <1>1, <1>9 DEF Exists
    <2> QED
      BY <1>3, <1>7, <1>10, <2>1 DEF Holds, IsFile
  <1> QED
    BY <1>8, <1>11 DEF g, t

(* A new node keeps the table one whose files hold texts.                  *)
Made(f, path, dir) == [f EXCEPT ![fs_find_slot(f)] = Node(path, dir)]

LEMMA NodeKeeps ==
    ASSUME NEW f, NEW path, NEW dir \in BOOLEAN, FilesOK(f), CanCreate(f, path)
    PROVE  /\ FilesOK(Made(f, path, dir))
           /\ dir = FALSE => IsFile(Made(f, path, dir), path)
  <1> DEFINE i == fs_find_slot(f)
             n == Node(path, dir)
             g == Made(f, path, dir)
  <1>1. i \in Slots /\ FreeSlots(f) \subseteq Slots
    <2>1. FreeSlots(f) \subseteq Slots /\ FreeSlots(f) # {}
      BY DEF CanCreate, FreeSlots
    <2> QED
      BY <2>1, FirstIsMember DEF fs_find_slot
  <1>2. g = [f EXCEPT ![i] = n]
    BY DEF Made
  <1>3. /\ n = [used |-> n.used, path |-> n.path, data |-> n.data,
                is_dir |-> n.is_dir, is_system |-> n.is_system]
        /\ n.used = TRUE /\ n.path = path /\ n.data = <<>> /\ n.is_dir = dir
    BY DEF Node
  <1> HIDE DEF i, g, n
  <1>4. /\ g = [k \in Slots |-> g[k]]
        /\ g[i] = n
        /\ \A k \in Slots : k # i => g[k] = f[k]
    <2>1. f = [k \in Slots |-> f[k]]
      BY DEF FilesOK
    <2>2. g = [k \in Slots |-> IF k = i THEN n ELSE f[k]]
      BY <1>2, <2>1
    <2> QED
      BY <1>1, <2>2
  <1>5. FilesOK(g)
    <2> SUFFICES ASSUME NEW k \in Slots
                 PROVE  /\ g[k] = [used |-> g[k].used, path |-> g[k].path,
                                   data |-> g[k].data, is_dir |-> g[k].is_dir,
                                   is_system |-> g[k].is_system]
                        /\ g[k].data \in Seq(CharSet)
      BY <1>4 DEF FilesOK
    <2>1. CASE k = i
      BY <1>3, <1>4, <2>1, EmptySeq
    <2>2. CASE k # i
      BY <1>4, <2>2 DEF FilesOK
    <2> QED
      BY <2>1, <2>2
  <1>6. \A k \in Slots : ~(f[k].used /\ f[k].path = path)
    BY DEF CanCreate, Exists, Matches
  <1>7. Matches(g, path) = {i}
    <2>1. g[i].used /\ g[i].path = path
      BY <1>3, <1>4
    <2> QED
      BY <1>1, <1>4, <1>6, <2>1 DEF Matches
  <1>8. fs_find(g, path) = i
    BY <1>1, <1>7, FirstIsMember DEF fs_find
  <1>9. dir = FALSE => IsFile(g, path)
    BY <1>3, <1>4, <1>7, <1>8 DEF IsFile, Exists
  <1> QED
    BY <1>5, <1>9 DEF g

LEMMA CreateMakesFile ==
    ASSUME NEW f, NEW path, FilesOK(f), CanCreate(f, path)
    PROVE  FilesOK(fs_create(f, path)) /\ IsFile(fs_create(f, path), path)
  <1>1. fs_create(f, path) = Made(f, path, FALSE)
    BY DEF fs_create, Made
  <1> QED
    BY <1>1, NodeKeeps

(* The boot tree is one whose files hold texts.                            *)
LEMMA BootStepKeeps ==
    ASSUME NEW f, NEW e, FilesOK(f), e.data \in Seq(CharSet)
    PROVE  FilesOK(BootStep(f, e))
  <1>1. CASE e.dir /\ CanMkdir(f, e.path)
    <2>1. BootStep(f, e) = Made(f, e.path, TRUE)
      BY <1>1 DEF BootStep, fs_mkdir, Made
    <2> QED
      BY <1>1, <2>1, NodeKeeps DEF CanMkdir
  <1>2. CASE e.dir /\ ~CanMkdir(f, e.path)
    BY <1>2 DEF BootStep, fs_mkdir
  <1>3. CASE ~e.dir
    <2> DEFINE g == fs_create(f, e.path)
    <2>1. FilesOK(g)
      BY CreateMakesFile DEF fs_create
    <2>2. BootStep(f, e) = fs_write(g, e.path, e.data)
      BY <1>3 DEF BootStep
    <2> HIDE DEF g
    <2>3. CASE IsFile(g, e.path)
      BY <2>1, <2>2, <2>3, WriteKeeps
    <2>4. CASE ~IsFile(g, e.path)
      BY <2>1, <2>2, <2>4 DEF fs_write
    <2> QED
      BY <2>3, <2>4
  <1> QED
    BY <1>1, <1>2, <1>3

LEMMA BootFilesOK == FilesOK(fs_init(InitTree))
  <1>1. PICK m : /\ m[0] = Empty
                 /\ \A n \in 1..Len(InitTree) :
                       m[n] = BootStep(m[n - 1], InitTree[n])
                 /\ fs_init(InitTree) = m[Len(InitTree)]
    BY EmAssumption, BootTables
  <1> DEFINE last == Len(InitTree)
             Good == {n \in 0..last : FilesOK(m[n])}
  <1>2. last \in Nat
    BY EmAssumption
  <1>3. FilesOK(Empty)
    <2>1. <<>> \in Seq(CharSet)
      BY EmptySeq
    <2> QED
      BY <2>1 DEF FilesOK, Empty, Unused
  <1>4. 0 \in Good
    BY <1>1, <1>2, <1>3
  <1>5. ASSUME NEW n \in 0..(last - 1), n \in Good
        PROVE  n + 1 \in Good
    <2>1. n + 1 \in 1..last /\ (n + 1) - 1 = n
      BY <1>2
    <2>2. m[n + 1] = BootStep(m[n], InitTree[n + 1])
      BY <1>1, <2>1
    <2>3. FilesOK(m[n])
      BY <1>5
    <2>4. InitTree[n + 1].data \in Seq(CharSet)
      BY <2>1, EmAssumption DEF CharSet
    <2>5. FilesOK(m[n + 1])
      BY <2>2, <2>3, <2>4, BootStepKeeps
    <2> QED
      BY <2>1, <2>5
  <1>6. last \in Good
    <2> HIDE DEF Good
    <2>1. \A n \in 0..last : n \in Good
      BY <1>2, <1>4, <1>5, CountUp
    <2> QED
      BY <1>2, <2>1
  <1> QED
    BY <1>1, <1>6

(* A text that fits buffer[] is never cut by fs_write.                     *)
LEMMA TextFits ==
    ASSUME TextOK
    PROVE  Text \in Seq(CharSet) /\ Clamp(Text) = Text /\ Text = TextOf(buffer, buf_len)
  <1>1. Text = TextOf(buffer, buf_len)
    BY DEF Text, TextOf
  <1>2. Text \in Seq(CharSet) /\ Len(Text) = buf_len
    BY <1>1, TextIsSeq DEF TextOK, IsText
  <1>3. buf_len \in Nat /\ buf_len <= EM_BUF_SIZE - 1
    BY Bounds DEF TextOK
  <1>4. ~(Len(Text) >= FS_MAX_FILESIZE)
    BY <1>2, <1>3, EmAssumption, FsAssumption
  <1>5. Clamp(Text) = SubSeq(Text, 1, Len(Text))
    BY <1>4 DEF Clamp
  <1> QED
    BY <1>1, <1>2, <1>5, SubSeqFull

LEMMA SaveHolds ==
    ASSUME TextOK, FilesOK(files), em_save
    PROVE  FilesOK(files') /\ (files' = files \/ Holds(files', cur_filename, Text))
  <1> DEFINE made == fs_create(files, cur_filename)
  <1>1. CASE Exists(files, cur_filename)
    <2>1. made = files
      BY <1>1 DEF fs_create, CanCreate
    <2>2. files' = fs_write(files, cur_filename, Text)
      BY <1>1, <2>1 DEF em_save
    <2>3. CASE IsFile(files, cur_filename)
      BY <2>2, <2>3, TextFits, WriteKeeps
    <2>4. CASE ~IsFile(files, cur_filename)
      BY <2>2, <2>4 DEF fs_write
    <2> QED
      BY <2>3, <2>4
  <1>2. CASE CanCreate(files, cur_filename)
    <2>1. files' = fs_write(made, cur_filename, Text)
      BY <1>2 DEF em_save
    <2>2. FilesOK(made) /\ IsFile(made, cur_filename)
      BY <1>2, CreateMakesFile
    <2> HIDE DEF made
    <2> QED
      BY <2>1, <2>2, TextFits, WriteKeeps
  <1>3. CASE ~(Exists(files, cur_filename) \/ CanCreate(files, cur_filename))
    BY <1>3 DEF em_save, fsvars
  <1> QED
    BY <1>1, <1>2, <1>3

-----------------------------------------------------------------------------
(* The keys, as steps of the two parts of the text                         *)

Lf == LeftOf(buffer, buf_len, cursor_pos)
Rt == RightOf(buffer, buf_len, cursor_pos)

Where == IF mode \in {"edit", "command"} THEN mode ELSE "closed"

Halves == INSTANCE TextBuffer WITH
            Chars <- CharSet, Capacity <- EM_BUF_SIZE - 1,
            Blanks <- [k \in 1..4 |-> Sp], Enter <- Nl,
            place <- Where, left <- Lf, right <- Rt, stored <- Stored

HalvesStep == [Halves!Next]_<<Where, key, Lf, Rt>>

LEMMA MoveStep ==
    ASSUME TextOK, cursor_pos' \in 0..buf_len, UNCHANGED <<buffer, buf_len>>
    PROVE  TextOK' /\ Lf' \o Rt' = Lf \o Rt
  <1>1. BufferOK(buffer, buf_len, cursor_pos')
    BY DEF TextOK, BufferOK
  <1>2. Lf' \o Rt' = TextOf(buffer, buf_len)
    <2>1. Lf' = LeftOf(buffer, buf_len, cursor_pos')
          /\ Rt' = RightOf(buffer, buf_len, cursor_pos')
      BY DEF Lf, Rt
    <2> QED
      BY <1>1, <2>1, PartsOfText DEF Parts
  <1>3. Lf \o Rt = TextOf(buffer, buf_len)
    BY PartsOfText DEF TextOK, Parts, Lf, Rt
  <1> QED
    BY <1>1, <1>2, <1>3 DEF TextOK

(* What there is room for of m times the same character.                   *)
LEMMA FittingRun ==
    ASSUME NEW m \in 1..4, NEW c \in CharSet, NEW room \in Nat
    PROVE  Halves!Fitting([i \in 1..m |-> c], room)
             = [i \in 1..AtMost(m, room) |-> c]
  <1> DEFINE s == [i \in 1..m |-> c]
  <1>1. s \in Seq(CharSet) /\ Len(s) = m /\ \A i \in 1..m : s[i] = c
    OBVIOUS
  <1> HIDE DEF s
  <1>2. CASE m <= room
    <2>1. AtMost(m, room) = m /\ Halves!Fitting(s, room) = s
      BY <1>1, <1>2 DEF AtMost, Halves!Fitting
    <2> QED
      BY <2>1 DEF s
  <1>3. CASE ~(m <= room)
    <2>1. AtMost(m, room) = room /\ Halves!Fitting(s, room) = SubSeq(s, 1, room)
      BY <1>1, <1>3 DEF AtMost, Halves!Fitting
    <2>2. \A i \in 1..room : i \in 1..m /\ s[i] = c /\ s[i] \in CharSet
      BY <1>1, <1>3
    <2>3. room = 0 \/ (1 \in 1..Len(s) /\ room \in 1..Len(s))
      BY <1>1, <1>3
    <2>4. /\ SubSeq(s, 1, room) \in Seq(CharSet)
          /\ Len(SubSeq(s, 1, room)) = room
          /\ \A i \in 1..room : SubSeq(s, 1, room)[i] = s[i]
      BY <1>1, <1>3, <2>2, SubSeqProperties
    <2> DEFINE q == [i \in 1..room |-> c]
    <2>5. q \in Seq(CharSet) /\ Len(q) = room /\ \A i \in 1..room : q[i] = c
      OBVIOUS
    <2> HIDE DEF q
    <2>6. SubSeq(s, 1, room) = q
      BY <2>2, <2>4, <2>5, SeqEqual
    <2> QED
      BY <2>1, <2>6 DEF s, q
  <1> QED
    BY <1>2, <1>3

LEMMA TypeStep ==
    ASSUME TextOK, NEW m \in 1..4, NEW c \in CharSet, em_insert_char(m, c)
    PROVE  TextOK' /\ Halves!Insert([i \in 1..m |-> c])
  <1> DEFINE fit == AtMost(m, EM_BUF_SIZE - 1 - buf_len)
             p == cursor_pos
             n == buf_len
             s == [i \in 1..fit |-> c]
  <1>1. n \in Nat /\ p \in Nat /\ p <= n /\ n <= EM_BUF_SIZE - 1
    BY Bounds DEF TextOK
  <1>2. fit \in Nat /\ fit <= 4 /\ n + fit <= EM_BUF_SIZE - 1
    BY <1>1, Sizes DEF AtMost
  <1>3. /\ buffer' = Opened(buffer, n, p, fit, c)
        /\ buf_len' = n + fit /\ cursor_pos' = p + fit
    BY Zenon DEF em_insert_char, Opened
  <1>4. BufferOK(buffer, n, p)
    BY DEF TextOK
  <1> HIDE DEF fit
  <1>5. /\ BufferOK(buffer', n + fit, p + fit)
        /\ \A k \in 0..(p - 1) : buffer'[k] = buffer[k]
        /\ \A k \in p..(p + fit - 1) : buffer'[k] = c
        /\ \A k \in 0..(n - p - 1) : buffer'[p + fit + k] = buffer[p + k]
    BY <1>2, <1>3, <1>4, OpenedIsText
  <1>6. Lf' = LeftOf(buffer', n + fit, p + fit)
        /\ Rt' = RightOf(buffer', n + fit, p + fit)
    BY <1>3 DEF Lf, Rt
  <1>7. Rt' = Rt
    <2>1. n - p = (n + fit) - (p + fit)
      BY <1>1, <1>2
    <2>2. \A k \in 0..(n - p - 1) : buffer[p + k] = buffer'[(p + fit) + k]
      BY <1>1, <1>2, <1>5
    <2>3. RightOf(buffer, n, p) = RightOf(buffer', n + fit, p + fit)
      BY <1>4, <1>5, <2>1, <2>2, SameRight
    <2> QED
      BY <1>6, <2>3 DEF Rt
  <1>8. /\ Lf \in Seq(CharSet) /\ Len(Lf) = p /\ Len(Rt) = n - p
        /\ \A i \in 1..p : Lf[i] = buffer[i - 1]
    BY <1>4, PartsOfText DEF Parts, Lf, Rt
  <1>9. /\ Lf' \in Seq(CharSet) /\ Len(Lf') = p + fit
        /\ \A i \in 1..(p + fit) : Lf'[i] = buffer'[i - 1]
    BY <1>5, <1>6, PartsOfText DEF Parts
  <1>10. s \in Seq(CharSet) /\ Len(s) = fit /\ \A i \in 1..fit : s[i] = c
    BY <1>2
  <1> HIDE DEF s
  <1>11. Lf' = Lf \o s
    <2>1. /\ Lf \o s \in Seq(CharSet) /\ Len(Lf \o s) = p + fit
          /\ \A i \in 1..(p + fit) :
               (Lf \o s)[i] = IF i <= p THEN Lf[i] ELSE s[i - p]
      BY <1>8, <1>10, ConcatProperties
    <2>2. ASSUME NEW i \in 1..(p + fit)
          PROVE  Lf'[i] = (Lf \o s)[i]
      <3>1. CASE i <= p
        <4>1. i \in 1..p /\ i - 1 \in 0..(p - 1)
          BY <1>1, <1>2, <3>1
        <4> QED
          BY <1>5, <1>8, <1>9, <2>1, <3>1, <4>1
      <3>2. CASE ~(i <= p)
        <4>1. i - p \in 1..fit /\ i - 1 \in p..(p + fit - 1)
          BY <1>1, <1>2, <3>2
        <4> QED
          BY <1>5, <1>9, <1>10, <2>1, <3>2, <4>1
      <3> QED
        BY <3>1, <3>2
    <2> QED
      BY <1>9, <2>1, <2>2, SeqEqual
  <1>12. TextOK'
    BY <1>3, <1>5 DEF TextOK
  <1>13. EM_BUF_SIZE - 1 - (Len(Lf) + Len(Rt)) = EM_BUF_SIZE - 1 - n
         /\ EM_BUF_SIZE - 1 - n \in Nat
    BY <1>1, <1>8, Sizes
  <1>14. Halves!Fitting([i \in 1..m |-> c],
                        EM_BUF_SIZE - 1 - (Len(Lf) + Len(Rt))) = s
    <2> DEFINE room == EM_BUF_SIZE - 1 - n
    <2>1. room \in Nat /\ EM_BUF_SIZE - 1 - (Len(Lf) + Len(Rt)) = room
      BY <1>13
    <2>2. s = [i \in 1..AtMost(m, room) |-> c]
      BY Zenon DEF s, fit
    <2> HIDE DEF room
    <2>3. Halves!Fitting([i \in 1..m |-> c], room)
            = [i \in 1..AtMost(m, room) |-> c]
      BY <2>1, FittingRun, Zenon
    <2> QED
      BY <2>1, <2>2, <2>3
  <1> QED
    BY <1>7, <1>11, <1>12, <1>14 DEF Halves!Insert

LEMMA DeleteStep ==
    ASSUME TextOK, em_delete_char
    PROVE  /\ TextOK' /\ Lf' = Lf
           /\ Rt' = IF Rt = <<>> THEN <<>> ELSE Tail(Rt)
  <1> DEFINE p == cursor_pos
             n == buf_len
  <1>1. n \in Nat /\ p \in Nat /\ p <= n /\ BufferOK(buffer, n, p)
    BY Bounds DEF TextOK
  <1>2. CASE ~(p < n)
    <2>1. UNCHANGED text
      BY <1>2 DEF em_delete_char
    <2>2. Len(Rt) = n - p /\ n - p = 0 /\ Rt \in Seq(CharSet)
      BY <1>1, <1>2, PartsOfText DEF Parts, Rt
    <2>3. Rt = <<>>
      BY <2>2, EmptySeq
    <2> QED
      BY <2>1, <2>3 DEF text, TextOK, Lf, Rt
  <1>3. CASE p < n
    <2>1. buffer' = Closed(buffer, n, p) /\ buf_len' = n - 1 /\ cursor_pos' = p
      BY <1>3 DEF em_delete_char, CloseGap, Closed
    <2>2. p \in 0..(n - 1)
      BY <1>1, <1>3
    <2>3. /\ BufferOK(buffer', n - 1, p)
          /\ \A k \in 0..(p - 1) : buffer'[k] = buffer[k]
          /\ \A k \in 0..(n - 1 - p - 1) : buffer'[p + k] = buffer[p + 1 + k]
      <3>1. ClosedRight(buffer, n, p)
        BY <1>1, <2>2, ClosedIsText
      <3> QED
        BY <2>1, <3>1, Zenon DEF ClosedRight
    <2>4. TextOK'
      BY <2>1, <2>3 DEF TextOK
    <2>5. Lf' = LeftOf(buffer', n - 1, p) /\ Rt' = RightOf(buffer', n - 1, p)
      BY <2>1 DEF Lf, Rt
    <2>6. Lf' = Lf
      BY <1>1, <2>3, <2>5, SameLeft DEF Lf
    <2>7. /\ Rt \in Seq(CharSet) /\ Len(Rt) = n - p
          /\ \A i \in 1..(n - p) : Rt[i] = buffer[p + i - 1]
      <3>1. Parts(buffer, n, p) /\ Rt = RightOf(buffer, n, p)
        BY <1>1, PartsOfText DEF Rt
      <3> HIDE DEF n, p
      <3> QED
        BY <3>1 DEF Parts
    <2>8. /\ Rt' \in Seq(CharSet) /\ Len(Rt') = n - 1 - p
          /\ \A i \in 1..(n - 1 - p) : Rt'[i] = buffer'[p + i - 1]
      BY <2>3, <2>5, PartsOfText DEF Parts
    <2>9. Rt # <<>>
      <3>1. Len(Rt) # 0
        BY <1>1, <1>3, <2>7
      <3> QED
        BY <3>1, EmptySeq
    <2>10. /\ Tail(Rt) \in Seq(CharSet) /\ Len(Tail(Rt)) = n - 1 - p
           /\ \A i \in 1..(n - 1 - p) : Tail(Rt)[i] = Rt[i + 1]
      BY <1>1, <2>7, <2>9, HeadTailProperties
    <2>11. ASSUME NEW i \in 1..(n - 1 - p)
           PROVE  Rt'[i] = Tail(Rt)[i]
      <3>1. i - 1 \in 0..(n - 1 - p - 1) /\ i + 1 \in 1..(n - p)
            /\ p + (i - 1) = p + i - 1 /\ p + 1 + (i - 1) = p + (i + 1) - 1
        BY <1>1
      <3>2. buffer'[p + i - 1] = buffer[p + (i + 1) - 1]
        BY <2>3, <3>1
      <3> QED
        BY <2>7, <2>8, <2>10, <3>1, <3>2
    <2>12. Rt' = Tail(Rt)
      BY <2>8, <2>10, <2>11, SeqEqual
    <2> QED
      BY <2>4, <2>6, <2>9, <2>12
  <1> QED
    BY <1>2, <1>3

LEMMA BackspaceStep ==
    ASSUME TextOK, em_backspace
    PROVE  /\ TextOK' /\ Rt' = Rt
           /\ Lf' = IF Lf = <<>> THEN <<>> ELSE Front(Lf)
  <1> DEFINE p == cursor_pos
             n == buf_len
             at == p - 1
  <1>1. n \in Nat /\ p \in Nat /\ p <= n /\ BufferOK(buffer, n, p)
    BY Bounds DEF TextOK
  <1>2. CASE ~(p > 0)
    <2>1. UNCHANGED text
      BY <1>2 DEF em_backspace
    <2>2. Len(Lf) = p /\ p = 0 /\ Lf \in Seq(CharSet)
      BY <1>1, <1>2, PartsOfText DEF Parts, Lf
    <2>3. Lf = <<>>
      BY <2>2, EmptySeq
    <2> QED
      BY <2>1, <2>3 DEF text, TextOK, Lf, Rt
  <1>3. CASE p > 0
    <2>1. buffer' = Closed(buffer, n, at) /\ buf_len' = n - 1 /\ cursor_pos' = at
      BY <1>3 DEF em_backspace, CloseGap, Closed
    <2>2. at \in 0..(n - 1)
      BY <1>1, <1>3
    <2> HIDE DEF at
    <2>3. /\ BufferOK(buffer', n - 1, at)
          /\ \A k \in 0..(at - 1) : buffer'[k] = buffer[k]
          /\ \A k \in 0..(n - 1 - at - 1) : buffer'[at + k] = buffer[at + 1 + k]
      <3>1. ClosedRight(buffer, n, at)
        BY <1>1, <2>2, ClosedIsText
      <3> QED
        BY <2>1, <3>1, Zenon DEF ClosedRight
    <2>4. TextOK'
      BY <2>1, <2>3 DEF TextOK
    <2>5. Lf' = LeftOf(buffer', n - 1, at) /\ Rt' = RightOf(buffer', n - 1, at)
      BY <2>1 DEF Lf, Rt
    <2>6. at \in Nat /\ p = at + 1
      BY <1>1, <1>3 DEF at
    <2>7. Rt' = Rt
      <3>1. n - p = (n - 1) - at
        BY <1>1, <2>6
      <3>2. ASSUME NEW k \in 0..(n - p - 1)
            PROVE  buffer[p + k] = buffer'[at + k]
        <4>1. k \in 0..(n - 1 - at - 1) /\ at + 1 + k = p + k
          BY <1>1, <2>6
        <4> QED
          BY <2>3, <4>1
      <3>3. RightOf(buffer, n, p) = RightOf(buffer', n - 1, at)
        BY <1>1, <2>3, <3>1, <3>2, SameRight
      <3> QED
        BY <2>5, <3>3 DEF Rt
    <2>8. /\ Lf \in Seq(CharSet) /\ Len(Lf) = p
          /\ \A i \in 1..p : Lf[i] = buffer[i - 1]
      BY <1>1, PartsOfText DEF Parts, Lf
    <2>9. /\ Lf' \in Seq(CharSet) /\ Len(Lf') = at
          /\ \A i \in 1..at : Lf'[i] = buffer'[i - 1]
      BY <2>3, <2>5, PartsOfText DEF Parts
    <2>10. Lf # <<>>
      <3>1. Len(Lf) # 0
        BY <1>1, <1>3, <2>8
      <3> QED
        BY <3>1, EmptySeq
    <2>11. /\ Front(Lf) \in Seq(CharSet) /\ Len(Front(Lf)) = at
           /\ \A i \in 1..at : Front(Lf)[i] = Lf[i]
      <3>1. Front(Lf) = SubSeq(Lf, 1, at)
        BY <2>8 DEF Front, at
      <3>2. \A i \in 1..at : Lf[i] \in CharSet
        BY <2>6, <2>8, ElementOfSeq
      <3>3. /\ SubSeq(Lf, 1, at) \in Seq(CharSet)
            /\ Len(SubSeq(Lf, 1, at)) = at
            /\ \A i \in 1..at : SubSeq(Lf, 1, at)[i] = Lf[i]
        BY <2>6, <2>8, <3>2, SubSeqProperties
      <3> QED
        BY <3>1, <3>3
    <2>12. ASSUME NEW i \in 1..at
           PROVE  Lf'[i] = Front(Lf)[i]
      <3>1. i \in 1..p /\ i - 1 \in 0..(at - 1)
        BY <2>6
      <3> QED
        BY <2>3, <2>8, <2>9, <2>11, <3>1
    <2>13. Lf' = Front(Lf)
      BY <2>9, <2>11, <2>12, SeqEqual
    <2> QED
      BY <2>4, <2>7, <2>10, <2>13
  <1> QED
    BY <1>2, <1>3

-----------------------------------------------------------------------------
(* The invariant                                                           *)

EmInv == TextOK /\ FilesOK(files)

LEMMA InitInv ==
    ASSUME Init
    PROVE  EmInv
  <1>1. buffer \in [Cells -> CharSet \cup {Nul}] /\ 0 \in Cells /\ buffer[0] = Nul
    BY Sizes DEF Init
  <1>2. \A k \in 0..(0 - 1) : buffer[k] \in CharSet
    OBVIOUS
  <1> QED
    BY <1>1, <1>2, BootFilesOK DEF Init, EmInv, TextOK, BufferOK

(* em_run: what is loaded is the text of the file, as much as there is     *)
(* room for, with the cursor at its beginning.                             *)
LEMMA OpenStep ==
    ASSUME EmInv, NEW path, Open(path), Where = "closed", UNCHANGED key
    PROVE  EmInv' /\ Halves!Open
  <1> DEFINE data == IF Exists(files, path) THEN files[fs_find(files, path)].data
                                            ELSE <<>>
             len == IF Len(data) >= EM_BUF_SIZE THEN EM_BUF_SIZE - 1 ELSE Len(data)
  <1>1. data \in Seq(CharSet)
    <2>1. CASE Exists(files, path)
      <3>1. Matches(files, path) \subseteq Slots /\ Matches(files, path) # {}
        BY <2>1 DEF Exists, Matches
      <3>2. fs_find(files, path) \in Slots
        BY <3>1, FirstIsMember DEF fs_find
      <3> QED
        BY <2>1, <3>2 DEF EmInv, FilesOK
    <2>2. CASE ~Exists(files, path)
      BY <2>2, EmptySeq
    <2> QED
      BY <2>1, <2>2
  <1>2. /\ buffer' = [k \in Cells |-> IF k < len THEN data[k + 1]
                                      ELSE IF k = len THEN Nul ELSE buffer[k]]
        /\ buf_len' = len /\ cursor_pos' = 0 /\ files' = files
    BY DEF Open
  <1> HIDE DEF data
  <1>3. len \in Nat /\ len <= Len(data) /\ len <= EM_BUF_SIZE - 1 /\ len \in Cells
    BY <1>1, Sizes, LenProperties
  <1> HIDE DEF len
  <1>4. \A k \in 0..(len - 1) : k + 1 \in 1..Len(data) /\ data[k + 1] \in CharSet
    <2>1. Len(data) \in Nat
      BY <1>1, LenProperties
    <2>2. \A k \in 0..(len - 1) : k + 1 \in 1..Len(data)
      BY <1>3, <2>1
    <2> QED
      BY <1>1, <2>2, ElementOfSeq
  <1>5. \A k \in Cells : k \in Nat /\ buffer[k] \in CharSet \cup {Nul}
    BY Sizes DEF EmInv, TextOK, BufferOK
  <1>6. \A k \in Cells : buffer'[k] \in CharSet \cup {Nul}
    <2> SUFFICES ASSUME NEW k \in Cells
                 PROVE  buffer'[k] \in CharSet \cup {Nul}
      OBVIOUS
    <2>1. CASE k < len
      <3>1. k \in 0..(len - 1)
        BY <1>3, <1>5, <2>1
      <3> QED
        BY <1>2, <1>4, <2>1, <3>1
    <2>2. CASE ~(k < len)
      BY <1>2, <1>5, <2>2
    <2> QED
      BY <2>1, <2>2
  <1>7. \A k \in 0..(len - 1) : buffer'[k] \in CharSet
    <2> SUFFICES ASSUME NEW k \in 0..(len - 1)
                 PROVE  buffer'[k] \in CharSet
      OBVIOUS
    <2>1. k \in Cells /\ k < len
      BY <1>3, Sizes
    <2> QED
      BY <1>2, <1>4, <2>1
  <1>8. buffer'[len] = Nul
    BY <1>2, <1>3
  <1>9. BufferOK(buffer', len, 0)
    <2>1. buffer' \in [Cells -> CharSet \cup {Nul}]
      <3>1. buffer' = [k \in Cells |-> buffer'[k]]
        BY <1>2
      <3> QED
        BY <1>6, <3>1
    <2>2. 0 \in 0..len
      BY <1>3
    <2> QED
      BY <1>3, <1>7, <1>8, <2>1, <2>2 DEF BufferOK
  <1>10. EmInv'
    BY <1>2, <1>9 DEF EmInv, TextOK
  <1>11. /\ Lf' \in Seq(CharSet) /\ Len(Lf') = 0
         /\ Rt' \in Seq(CharSet) /\ Len(Rt') = len
         /\ \A i \in 1..len : Rt'[i] = buffer'[i - 1]
    <2>1. Parts(buffer', len, 0)
      BY <1>9, PartsOfText
    <2>2. Lf' = LeftOf(buffer', len, 0) /\ Rt' = RightOf(buffer', len, 0)
      BY <1>2 DEF Lf, Rt
    <2>3. len - 0 = len /\ \A i \in 1..len : 0 + i - 1 = i - 1
      BY <1>3
    <2> QED
      BY <2>1, <2>2, <2>3 DEF Parts
  <1>12. Lf' = <<>>
    BY <1>11, EmptySeq
  <1>13. Stored' = data
    BY DEF Open, Stored, data
  <1>14. \A i \in 1..len : Rt'[i] = data[i]
    <2> SUFFICES ASSUME NEW i \in 1..len
                 PROVE  Rt'[i] = data[i]
      OBVIOUS
    <2>1. i - 1 \in 0..(len - 1) /\ i - 1 < len /\ i - 1 + 1 = i
      BY <1>3
    <2>2. i - 1 \in Cells
      BY <1>3, <2>1, Sizes
    <2> QED
      BY <1>2, <1>11, <2>1, <2>2
  <1>15. Rt' = Halves!Fitting(data, EM_BUF_SIZE - 1)
    <2>1. Len(data) \in Nat
      BY <1>1, LenProperties
    <2>2. CASE Len(data) <= EM_BUF_SIZE - 1
      <3>1. len = Len(data) /\ Halves!Fitting(data, EM_BUF_SIZE - 1) = data
        BY <2>1, <2>2, Sizes DEF len, Halves!Fitting
      <3> QED
        BY <1>1, <1>11, <1>14, <3>1, SeqEqual
    <2>3. CASE ~(Len(data) <= EM_BUF_SIZE - 1)
      <3>1. len = EM_BUF_SIZE - 1
            /\ Halves!Fitting(data, EM_BUF_SIZE - 1) = SubSeq(data, 1, len)
        BY <2>1, <2>3, Sizes DEF len, Halves!Fitting
      <3>2. \A i \in 1..len : data[i] \in CharSet
        BY <1>3, <1>11, <1>14, ElementOfSeq
      <3>3. /\ SubSeq(data, 1, len) \in Seq(CharSet)
            /\ Len(SubSeq(data, 1, len)) = len
            /\ \A i \in 1..len : SubSeq(data, 1, len)[i] = data[i]
        BY <1>1, <1>3, <3>2, SubSeqProperties
      <3> QED
        BY <1>11, <1>14, <3>1, <3>3, SeqEqual
    <2> QED
      BY <2>2, <2>3
  <1>16. Where' = "edit"
    BY DEF Open, Where
  <1> QED
    BY <1>10, <1>12, <1>13, <1>15, <1>16 DEF Halves!Open

(* What is left of the keys in writing mode is a move of the cursor.       *)
LEMMA CursorStep ==
    ASSUME TextOK,
           \/ em_move_left \/ em_move_right \/ em_move_home \/ em_move_end
           \/ em_move_up \/ em_move_down
    PROVE  TextOK' /\ Lf' \o Rt' = Lf \o Rt
  <1>1. buf_len \in Nat /\ cursor_pos \in Nat /\ cursor_pos <= buf_len
    BY Bounds DEF TextOK
  <1>2. UNCHANGED <<buffer, buf_len>>
    BY Zenon DEF em_move_left, em_move_right, em_move_home, em_move_end, em_move_up,
                 em_move_down, MoveTo
  <1>3. LineStart(cursor_pos) \in 0..cursor_pos
    BY <1>1, LineStartIs DEF IsStart
  <1>4. LineEnd(cursor_pos) \in cursor_pos..buf_len
    BY <1>1, LineEndIs DEF IsEnd
  <1>5. cursor_pos' \in 0..buf_len
    <2>1. CASE em_move_left \/ em_move_right
      BY <1>1, <2>1 DEF em_move_left, em_move_right, MoveTo
    <2>2. CASE em_move_home \/ em_move_end
      BY <1>1, <1>3, <1>4, <2>2 DEF em_move_home, em_move_end, MoveTo
    <2>3. CASE em_move_up
      BY <2>3, UpByLine
    <2>4. CASE em_move_down
      BY <2>4, DownByLine
    <2> QED
      BY <2>1, <2>2, <2>3, <2>4
  <1> QED
    BY <1>2, <1>5, MoveStep

(* A key in writing mode.                                                  *)
LEMMA EditStep ==
    ASSUME EmInv, Edit
    PROVE  EmInv' /\ Halves!Edit
  <1>1. TextOK /\ files' = files
    BY DEF EmInv, Edit, fsvars
  <1>2. Where = "edit" /\ UNCHANGED Where
    BY DEF Edit, Where
  <1>3. CASE \/ key' = "up" /\ em_move_up
             \/ key' = "down" /\ em_move_down
             \/ key' = "left" /\ em_move_left
             \/ key' = "right" /\ em_move_right
             \/ key' = "home" /\ em_move_home
             \/ key' = "end" /\ em_move_end
    <2>1. TextOK' /\ Lf' \o Rt' = Lf \o Rt
      BY <1>1, <1>3, CursorStep
    <2>2. Halves!Move
      BY <1>3, <2>1 DEF Halves!Move
    <2> QED
      BY <1>1, <1>2, <2>1, <2>2 DEF EmInv, Halves!Edit
  <1>4. CASE key' = "delete" /\ em_delete_char
    <2>1. /\ TextOK' /\ Lf' = Lf
          /\ Rt' = IF Rt = <<>> THEN <<>> ELSE Tail(Rt)
      BY <1>1, <1>4, DeleteStep
    <2>2. Halves!Delete
      BY <1>4, <2>1 DEF Halves!Delete
    <2> QED
      BY <1>1, <1>2, <2>1, <2>2 DEF EmInv, Halves!Edit
  <1>5. CASE key' = "backspace" /\ em_backspace
    <2>1. /\ TextOK' /\ Rt' = Rt
          /\ Lf' = IF Lf = <<>> THEN <<>> ELSE Front(Lf)
      BY <1>1, <1>5, BackspaceStep
    <2>2. Halves!Backspace
      BY <1>5, <2>1 DEF Halves!Backspace, Halves!Front, Front
    <2> QED
      BY <1>1, <1>2, <2>1, <2>2 DEF EmInv, Halves!Edit
  <1>6. ASSUME NEW c \in CharSet, key' = c, em_insert_char(1, c)
        PROVE  TextOK' /\ Halves!Type
    <2>1. TextOK' /\ Halves!Insert([i \in 1..1 |-> c])
      <3>1. 1 \in 1..4
        OBVIOUS
      <3> QED
        BY <1>1, <1>6, <3>1, TypeStep, Zenon
    <2>2. [i \in 1..1 |-> c] = <<c>>
      OBVIOUS
    <2> QED
      BY <1>6, <2>1, <2>2 DEF Halves!Type
  <1>7. CASE key' = "tab" /\ em_insert_char(4, Sp)
    <2>1. Sp \in CharSet /\ 4 \in 1..4
      BY DEF CharSet
    <2>2. TextOK' /\ Halves!Insert([i \in 1..4 |-> Sp])
      BY <1>1, <1>7, <2>1, TypeStep
    <2>3. Halves!Tab
      BY <1>7, <2>2, Zenon DEF Halves!Tab
    <2> QED
      BY <1>1, <1>2, <2>2, <2>3 DEF EmInv, Halves!Edit
  <1>8. CASE \E c \in CharSet : key' = c /\ em_insert_char(1, c)
    BY <1>1, <1>2, <1>6, <1>8 DEF EmInv, Halves!Edit
  <1> QED
    BY <1>3, <1>4, <1>5, <1>7, <1>8 DEF Edit

(* Enter in command mode.                                                  *)
LEMMA CommandStep ==
    ASSUME EmInv, execute_em_command
    PROVE  /\ EmInv' /\ Halves!Command
           /\ files' = files \/ Holds(files', cur_filename, Text)
  <1>1. TextOK /\ FilesOK(files)
    BY DEF EmInv
  <1>2. FilesOK(files') /\ (files' = files \/ Holds(files', cur_filename, Text))
    <2>1. CASE em_save
      BY <1>1, <2>1, SaveHolds
    <2>2. CASE UNCHANGED fsvars
      BY <1>1, <2>2 DEF fsvars
    <2> QED
      BY <2>1, <2>2 DEF execute_em_command
  <1>3. TextOK' /\ Lf' \o Rt' = Lf \o Rt
    <2>1. CASE MoveTo(em_hop_error)
      <3>1. cursor_pos' \in 0..buf_len /\ UNCHANGED <<buffer, buf_len>>
        BY <1>1, <2>1, HopInText DEF MoveTo
      <3> QED
        BY <1>1, <3>1, MoveStep
    <2>2. CASE UNCHANGED text
      BY <1>1, <2>2 DEF text, TextOK, Lf, Rt
    <2> QED
      BY <2>1, <2>2 DEF execute_em_command
  <1>4. Where = "command" /\ key' = Nl
    BY DEF execute_em_command, Where
  <1>5. Halves!Command
    BY <1>3, <1>4 DEF Halves!Command
  <1> QED
    BY <1>2, <1>3, <1>5 DEF EmInv

LEMMA EmStep ==
    ASSUME EmInv, [Next]_vars
    PROVE  /\ EmInv' /\ HalvesStep
           /\ files' = files \/ Holds(files', cur_filename, Text)
  <1>1. ASSUME UNCHANGED <<fsvars, text>>
        PROVE  EmInv' /\ files' = files /\ UNCHANGED <<Lf, Rt>>
    BY <1>1 DEF fsvars, text, EmInv, TextOK, Lf, Rt
  <1>2. ASSUME NEW path, Open(path), mode \in {"shell", "dialog"}, UNCHANGED key
        PROVE  EmInv' /\ HalvesStep /\ files' = files
    <2>1. Where = "closed" /\ files' = files
      BY <1>2 DEF Where, Open
    <2> QED
      BY <1>2, <2>1, OpenStep DEF HalvesStep, Halves!Next
  <1>3. ASSUME UNCHANGED <<fsvars, text, key>>,
               mode \in {"shell", "dialog"}, mode' \in {"shell", "dialog"}
        PROVE  EmInv' /\ HalvesStep /\ files' = files
    <2>1. UNCHANGED Where
      BY <1>3 DEF Where
    <2> QED
      BY <1>1, <1>3, <2>1 DEF HalvesStep
  <1>4. CASE em_run
    BY <1>2, <1>3, <1>4 DEF em_run
  <1>5. CASE DialogMove \/ DialogEscape
    BY <1>3, <1>5, Zenon DEF DialogMove, DialogEscape
  <1>6. CASE DialogEnter
    BY <1>2, <1>3, <1>6 DEF DialogEnter
  <1>7. CASE Edit
    BY <1>7, EditStep DEF Edit, fsvars, HalvesStep, Halves!Next
  <1>8. CASE EnterCommandMode
    <2>1. /\ UNCHANGED <<fsvars, text>> /\ key' = "alt"
          /\ Where = "edit" /\ Where' = "command"
      BY <1>8 DEF EnterCommandMode, Where
    <2> QED
      BY <1>1, <2>1 DEF HalvesStep, Halves!Next, Halves!StartCommand
  <1>9. CASE LeaveCommandMode \/ CommandBackspace \/ CommandType
    <2>1. UNCHANGED <<fsvars, text>> /\ Where = "command"
      BY <1>9 DEF LeaveCommandMode, CommandBackspace, CommandType, Where
    <2> QED
      BY <1>1, <2>1 DEF HalvesStep, Halves!Next, Halves!Command
  <1>10. CASE execute_em_command
    BY <1>10, CommandStep DEF HalvesStep, Halves!Next
  <1>11. CASE UNCHANGED vars
    BY <1>1, <1>11 DEF vars, Where, HalvesStep
  <1> QED
    BY <1>4, <1>5, <1>6, <1>7, <1>8, <1>9, <1>10, <1>11 DEF Next

LEMMA EmInvariant == Spec => []EmInv
  BY InitInv, EmStep, PTL DEF Spec

-----------------------------------------------------------------------------
(* ;-m goes to the next word, going round, that is in no active dictionary,*)
(* whatever the text, the dictionaries and the place of the cursor.        *)
THEOREM HopsToNextTypo == Spec => []HopFindsNext
  <1>1. EmInv => HopFindsNext
    BY HopIsNext DEF EmInv
  <1> QED
    BY <1>1, EmInvariant, PTL

(* Up and Down move by one line of buffer[], to the same column or to the  *)
(* end of a shorter line, and stay on the first and on the last line.      *)
THEOREM CursorMovesByLine == Spec => MovesByLine
  <1>1. ASSUME EmInv, [Next]_vars, mode = "edit", ~UNCHANGED vars
        PROVE  /\ key' = "up" => em_move_up
               /\ key' = "down" => em_move_down
    <2>1. Edit \/ EnterCommandMode
      BY <1>1, Zenon DEF Next, em_run, DialogMove, DialogEnter, DialogEscape,
        LeaveCommandMode, CommandBackspace, CommandType, execute_em_command
    <2>2. key' = "up" \/ key' = "down" => Edit /\ key' \notin CharSet
      BY <2>1, EmAssumption DEF EnterCommandMode, KeyNames, CharSet
    <2> QED
      BY <2>2 DEF Edit
  <1>2. ASSUME EmInv, [Next]_vars
        PROVE  [mode = "edit" =>
                  /\ key' = "up" => Lands(Row(cursor_pos) - 1, cursor_pos')
                  /\ key' = "down" => Lands(Row(cursor_pos) + 1, cursor_pos')]_vars
    BY <1>1, <1>2, UpByLine, DownByLine, Zenon DEF EmInv
  <1> QED
    BY <1>2, EmInvariant, PTL DEF Spec, MovesByLine

(* Whenever em_save changes files[], the file that is edited then holds    *)
(* the text in buffer[] to its last character.                             *)
THEOREM SavesTheText == Spec => SaveKeepsText
  <1>1. ASSUME EmInv, [Next]_vars
        PROVE  [files' # files =>
                  IsFile(files', cur_filename)
                  /\ files'[fs_find(files', cur_filename)].data = Text]_vars
    BY <1>1, EmStep, Zenon DEF Holds
  <1> QED
    BY <1>1, EmInvariant, PTL DEF Spec, SaveKeepsText

(* buffer[] as the mapping reads it.                                       *)
LEMMA MappedParts ==
    ASSUME NEW b, NEW n, NEW p, BufferOK(b, n, p)
    PROVE  /\ SubSeq(StringOf(b), 1, p) = LeftOf(b, n, p)
           /\ SubSeq(StringOf(b), p + 1, Len(StringOf(b))) = RightOf(b, n, p)
  <1>1. StringOf(b) = TextOf(b, n) /\ Len(TextOf(b, n)) = n
    BY StringIsText, TextIsSeq DEF IsText
  <1> QED
    BY <1>1, Zenon DEF LeftOf, RightOf

(* The array with its shifting loops implements the text left and right of *)
(* the cursor: em_run alone loads a text, the file's; every key types,     *)
(* deletes or moves at the cursor, and no key of either mode loses, doubles*)
(* or reorders a character elsewhere.                                      *)
THEOREM ImplementsTextBuffer == Spec => EditsAtCursor
  <1> DEFINE L == SubSeq(String, 1, cursor_pos)
             R == SubSeq(String, cursor_pos + 1, Len(String))
  <1>1. TextOK => L = Lf /\ R = Rt
    <2>1. String = StringOf(buffer)
      BY DEF String, StringOf
    <2> QED
      BY <2>1, MappedParts DEF TextOK, Lf, Rt
  <1>2. TextOK' => L' = Lf' /\ R' = Rt'
    <2>1. String' = StringOf(buffer')
      BY DEF String, StringOf
    <2> QED
      BY <2>1, MappedParts DEF TextOK, Lf, Rt
  <1>3. Init => TB!Init
    <2> SUFFICES ASSUME Init
                 PROVE  TB!Init
      OBVIOUS
    <2>1. TextOK
      BY Sizes DEF Init, TextOK, BufferOK
    <2>2. buf_len = 0 /\ cursor_pos = 0
      BY DEF Init
    <2>3. /\ Lf \in Seq(CharSet) /\ Rt \in Seq(CharSet)
          /\ Len(Lf) = 0 /\ Len(Rt) = 0 - 0
      BY <2>1, <2>2, PartsOfText DEF TextOK, Parts, Lf, Rt
    <2>4. Lf = <<>> /\ Rt = <<>>
      BY <2>3, EmptySeq
    <2>5. Where = "closed"
      BY DEF Init, Where
    <2> QED
      BY <1>1, <2>1, <2>4, <2>5 DEF TB!Init, Where
  <1>4. ASSUME EmInv, EmInv', HalvesStep
        PROVE  [TB!Next]_<<Where, key, L, R>>
    <2>1. L = Lf /\ R = Rt /\ L' = Lf' /\ R' = Rt'
      BY <1>1, <1>2, <1>4 DEF EmInv
    <2> QED
      BY <1>4, <2>1 DEF HalvesStep, Where,
        Halves!Next, Halves!Open, Halves!Edit, Halves!StartCommand,
        Halves!Command, Halves!Type, Halves!Tab, Halves!Insert, Halves!Fitting,
        Halves!Backspace, Halves!Delete, Halves!Move, Halves!Front,
        TB!Next, TB!Open, TB!Edit, TB!StartCommand,
        TB!Command, TB!Type, TB!Tab, TB!Insert, TB!Fitting,
        TB!Backspace, TB!Delete, TB!Move, TB!Front
  <1>5. EmInv /\ [Next]_vars => HalvesStep /\ EmInv'
    BY EmStep
  <1> QED
    BY <1>3, <1>4, <1>5, EmInvariant, PTL DEF Spec, EditsAtCursor, TB!Spec, Where


-----------------------------------------------------------------------------
(* The screen: what the recursive functions compute, step by step.         *)

Fresh == [at |-> At(0, 0), cells |-> BlankRows]

LEMMA RowsWalk ==
    ASSUME NEW r \in Nat
    PROVE  \E m : /\ m[0] = 0
                  /\ \A n \in 0..(r - 1) : m[n + 1] = (m[n] + Width(n) \div VGA_WIDTH) + 1
                  /\ RowsAbove(r) = m[r]
  <1> DEFINE L == r
             Is(m, n) == m = [k \in 0..n |-> IF k = 0 THEN 0
                                             ELSE (m[k - 1] + Width(k - 1) \div VGA_WIDTH) + 1]
             Good == {n \in 0..L : \E m : Is(m, n)}
             made == CHOOSE m : Is(m, L)
  <1>1. 0 \in Good
    <2> DEFINE one == [k \in 0..0 |-> 0]
    <2>1. \A k \in 0..0 : k = 0
      OBVIOUS
    <2>2. Is(one, 0)
      BY <2>1, Zenon
    <2>3. 0 \in 0..L
      OBVIOUS
    <2> QED
      BY <2>2, <2>3, Zenon
  <1>2. ASSUME NEW n \in 0..(L - 1), n \in Good
        PROVE  n + 1 \in Good
    <2>1. PICK m : Is(m, n)
      BY <1>2
    <2> DEFINE new == [k \in 0..(n + 1) |-> IF k = n + 1
                                            THEN (m[n] + Width(n) \div VGA_WIDTH) + 1
                                            ELSE m[k]]
    <2>2. \A k \in 0..n : m[k] = IF k = 0 THEN 0 ELSE (m[k - 1] + Width(k - 1) \div VGA_WIDTH) + 1
      BY <2>1
    <2>3. ASSUME NEW k \in 0..(n + 1)
          PROVE  new[k] = IF k = 0 THEN 0 ELSE (new[k - 1] + Width(k - 1) \div VGA_WIDTH) + 1
      <3>1. CASE k = n + 1
        <4>1. k # 0 /\ k - 1 = n /\ n \in 0..(n + 1) /\ n # n + 1
          BY <3>1
        <4>2. new[k - 1] = m[n] /\ new[k] = (m[n] + Width(n) \div VGA_WIDTH) + 1
          BY <3>1, <4>1
        <4> QED
          BY <4>1, <4>2
      <3>2. CASE k # n + 1
        <4>1. k \in 0..n /\ (k # 0 => k - 1 \in 0..(n + 1) /\ k - 1 # n + 1)
          BY <3>2
        <4>2. new[k] = m[k] /\ (k # 0 => new[k - 1] = m[k - 1])
          BY <3>2, <4>1
        <4> QED
          BY <2>2, <4>1, <4>2
      <3> QED
        BY <3>1, <3>2
    <2>4. Is(new, n + 1)
      <3>1. new = [k \in 0..(n + 1) |-> new[k]]
        OBVIOUS
      <3> HIDE DEF new
      <3> QED
        BY <2>3, <3>1
    <2>5. n + 1 \in 0..L
      OBVIOUS
    <2> QED
      BY <2>4, <2>5
  <1>3. L \in Good
    <2> HIDE DEF Good
    <2>1. \A n \in 0..L : n \in Good
      BY <1>1, <1>2, CountUp
    <2> QED
      BY <2>1
  <1>4. Is(made, L)
    <2>1. \E m : Is(m, L)
      BY <1>3
    <2> HIDE DEF Is
    <2> QED
      BY <2>1
  <1>5. RowsAbove(r) = made[r]
    BY DEF RowsAbove
  <1> HIDE DEF made
  <1>6. \A k \in 0..L : made[k] = IF k = 0 THEN 0 ELSE (made[k - 1] + Width(k - 1) \div VGA_WIDTH) + 1
    BY <1>4
  <1>7. made[0] = 0
    BY <1>6
  <1>8. ASSUME NEW n \in 0..(L - 1)
        PROVE  made[n + 1] = (made[n] + Width(n) \div VGA_WIDTH) + 1
    <2>1. n + 1 \in 0..L /\ n + 1 # 0 /\ (n + 1) - 1 = n
      OBVIOUS
    <2> QED
      BY <1>6, <2>1
  <1> QED
    BY <1>5, <1>7, <1>8

LEMMA CursorWalk ==
    ASSUME cursor_pos \in Nat
    PROVE  \E m : /\ m[0] = At(0, 0)
                  /\ \A n \in 0..(cursor_pos - 1) : m[n + 1] = Passed(m[n], n)
                  /\ get_cursor_row_col = m[cursor_pos]
  <1> DEFINE L == cursor_pos
             Is(m, n) == m = [k \in 0..n |-> IF k = 0 THEN At(0, 0)
                                             ELSE Passed(m[k - 1], k - 1)]
             Good == {n \in 0..L : \E m : Is(m, n)}
             made == CHOOSE m : Is(m, L)
  <1>1. 0 \in Good
    <2> DEFINE one == [k \in 0..0 |-> At(0, 0)]
    <2>1. \A k \in 0..0 : k = 0
      OBVIOUS
    <2>2. Is(one, 0)
      BY <2>1, Zenon
    <2>3. 0 \in 0..L
      OBVIOUS
    <2> QED
      BY <2>2, <2>3, Zenon
  <1>2. ASSUME NEW n \in 0..(L - 1), n \in Good
        PROVE  n + 1 \in Good
    <2>1. PICK m : Is(m, n)
      BY <1>2
    <2> DEFINE new == [k \in 0..(n + 1) |-> IF k = n + 1
                                            THEN Passed(m[n], n)
                                            ELSE m[k]]
    <2>2. \A k \in 0..n : m[k] = IF k = 0 THEN At(0, 0) ELSE Passed(m[k - 1], k - 1)
      BY <2>1
    <2>3. ASSUME NEW k \in 0..(n + 1)
          PROVE  new[k] = IF k = 0 THEN At(0, 0) ELSE Passed(new[k - 1], k - 1)
      <3>1. CASE k = n + 1
        <4>1. k # 0 /\ k - 1 = n /\ n \in 0..(n + 1) /\ n # n + 1
          BY <3>1
        <4>2. new[k - 1] = m[n] /\ new[k] = Passed(m[n], n)
          BY <3>1, <4>1
        <4> QED
          BY <4>1, <4>2
      <3>2. CASE k # n + 1
        <4>1. k \in 0..n /\ (k # 0 => k - 1 \in 0..(n + 1) /\ k - 1 # n + 1)
          BY <3>2
        <4>2. new[k] = m[k] /\ (k # 0 => new[k - 1] = m[k - 1])
          BY <3>2, <4>1
        <4> QED
          BY <2>2, <4>1, <4>2
      <3> QED
        BY <3>1, <3>2
    <2>4. Is(new, n + 1)
      <3>1. new = [k \in 0..(n + 1) |-> new[k]]
        OBVIOUS
      <3> HIDE DEF new
      <3> QED
        BY <2>3, <3>1
    <2>5. n + 1 \in 0..L
      OBVIOUS
    <2> QED
      BY <2>4, <2>5
  <1>3. L \in Good
    <2> HIDE DEF Good
    <2>1. \A n \in 0..L : n \in Good
      BY <1>1, <1>2, CountUp
    <2> QED
      BY <2>1
  <1>4. Is(made, L)
    <2>1. \E m : Is(m, L)
      BY <1>3
    <2> HIDE DEF Is
    <2> QED
      BY <2>1
  <1>5. get_cursor_row_col = made[cursor_pos]
    BY DEF get_cursor_row_col
  <1> HIDE DEF made
  <1>6. \A k \in 0..L : made[k] = IF k = 0 THEN At(0, 0) ELSE Passed(made[k - 1], k - 1)
    BY <1>4
  <1>7. made[0] = At(0, 0)
    BY <1>6
  <1>8. ASSUME NEW n \in 0..(L - 1)
        PROVE  made[n + 1] = Passed(made[n], n)
    <2>1. n + 1 \in 0..L /\ n + 1 # 0 /\ (n + 1) - 1 = n
      OBVIOUS
    <2> QED
      BY <1>6, <2>1
  <1> QED
    BY <1>5, <1>7, <1>8

LEMMA RenderWalk ==
    ASSUME buf_len \in Nat
    PROVE  \E m : /\ m[0] = Fresh
                  /\ \A n \in 0..(buf_len - 1) : m[n + 1] = Drawn(m[n], n)
                  /\ em_render = m[buf_len].cells
  <1> DEFINE L == buf_len
             Is(m, n) == m = [k \in 0..n |-> IF k = 0 THEN Fresh
                                             ELSE Drawn(m[k - 1], k - 1)]
             Good == {n \in 0..L : \E m : Is(m, n)}
             made == CHOOSE m : Is(m, L)
  <1>1. 0 \in Good
    <2> DEFINE one == [k \in 0..0 |-> Fresh]
    <2>1. \A k \in 0..0 : k = 0
      OBVIOUS
    <2>2. Is(one, 0)
      BY <2>1, Zenon
    <2>3. 0 \in 0..L
      OBVIOUS
    <2> QED
      BY <2>2, <2>3, Zenon
  <1>2. ASSUME NEW n \in 0..(L - 1), n \in Good
        PROVE  n + 1 \in Good
    <2>1. PICK m : Is(m, n)
      BY <1>2
    <2> DEFINE new == [k \in 0..(n + 1) |-> IF k = n + 1
                                            THEN Drawn(m[n], n)
                                            ELSE m[k]]
    <2>2. \A k \in 0..n : m[k] = IF k = 0 THEN Fresh ELSE Drawn(m[k - 1], k - 1)
      BY <2>1
    <2>3. ASSUME NEW k \in 0..(n + 1)
          PROVE  new[k] = IF k = 0 THEN Fresh ELSE Drawn(new[k - 1], k - 1)
      <3>1. CASE k = n + 1
        <4>1. k # 0 /\ k - 1 = n /\ n \in 0..(n + 1) /\ n # n + 1
          BY <3>1
        <4>2. new[k - 1] = m[n] /\ new[k] = Drawn(m[n], n)
          BY <3>1, <4>1
        <4> QED
          BY <4>1, <4>2
      <3>2. CASE k # n + 1
        <4>1. k \in 0..n /\ (k # 0 => k - 1 \in 0..(n + 1) /\ k - 1 # n + 1)
          BY <3>2
        <4>2. new[k] = m[k] /\ (k # 0 => new[k - 1] = m[k - 1])
          BY <3>2, <4>1
        <4> QED
          BY <2>2, <4>1, <4>2
      <3> QED
        BY <3>1, <3>2
    <2>4. Is(new, n + 1)
      <3>1. new = [k \in 0..(n + 1) |-> new[k]]
        OBVIOUS
      <3> HIDE DEF new
      <3> QED
        BY <2>3, <3>1
    <2>5. n + 1 \in 0..L
      OBVIOUS
    <2> QED
      BY <2>4, <2>5
  <1>3. L \in Good
    <2> HIDE DEF Good
    <2>1. \A n \in 0..L : n \in Good
      BY <1>1, <1>2, CountUp
    <2> QED
      BY <2>1
  <1>4. Is(made, L)
    <2>1. \E m : Is(m, L)
      BY <1>3
    <2> HIDE DEF Is
    <2> QED
      BY <2>1
  <1>5. em_render = made[buf_len].cells
    BY DEF em_render, Fresh
  <1> HIDE DEF made
  <1>6. \A k \in 0..L : made[k] = IF k = 0 THEN Fresh ELSE Drawn(made[k - 1], k - 1)
    BY <1>4
  <1>7. made[0] = Fresh
    BY <1>6
  <1>8. ASSUME NEW n \in 0..(L - 1)
        PROVE  made[n + 1] = Drawn(made[n], n)
    <2>1. n + 1 \in 0..L /\ n + 1 # 0 /\ (n + 1) - 1 = n
      OBVIOUS
    <2> QED
      BY <1>6, <2>1
  <1> QED
    BY <1>5, <1>7, <1>8

-----------------------------------------------------------------------------
(* The layout                                                              *)

(* One character further along a line of any length, on rows of w columns. *)
LEMMA NextColumn ==
    ASSUME NEW w \in Nat \ {0}, NEW c \in Nat
    PROVE  /\ c \div w \in Nat /\ c % w \in 0..(w - 1)
           /\ (c + 1) \div w = (IF (c % w) + 1 >= w THEN (c \div w) + 1 ELSE c \div w)
           /\ (c + 1) % w = (IF (c % w) + 1 >= w THEN 0 ELSE (c % w) + 1)
  <1>1. c \div w \in Int /\ c % w \in 0..(w - 1) /\ c = w * (c \div w) + (c % w)
    OBVIOUS
  <1>2. c + 1 \in Nat
    OBVIOUS
  <1> DEFINE d == c + 1
             q == c \div w
             r == c % w
  <1>3. d \div w \in Int /\ d % w \in 0..(w - 1) /\ d = w * (d \div w) + (d % w)
    BY <1>2
  <1> DEFINE qd == d \div w
             rd == d % w
  <1>4. /\ q \in Int /\ r \in 0..(w - 1) /\ c = w * q + r
        /\ qd \in Int /\ rd \in 0..(w - 1) /\ c + 1 = w * qd + rd
    BY <1>1, <1>3
  <1> HIDE DEF d, q, r, qd, rd
  <1>5. q \in Nat
    <2>1. CASE q <= -1
      <3>1. w * q <= w * (-1)
        BY <1>4, <2>1
      <3>2. w * q \in Int
        BY <1>4
      <3> QED
        BY <1>4, <3>1, <3>2
    <2> QED
      BY <1>4, <2>1
  <1>6. (c + 1) - w * q = r + 1 /\ w * q \in Int /\ w * qd \in Int
    BY <1>4
  <1>7. CASE r + 1 >= w
    <2>1. w * (q + 1) = w * q + w
      BY <1>4
    <2>2. qd = q + 1
      <3>1. CASE qd >= q + 2
        <4>1. w * qd >= w * (q + 2) /\ w * (q + 2) = w * q + w + w
          BY <1>4, <3>1
        <4> QED
          BY <1>4, <1>6, <4>1
      <3>2. CASE qd <= q
        <4>1. w * qd <= w * q
          BY <1>4, <3>2
        <4> QED
          BY <1>4, <1>6, <1>7, <4>1
      <3> QED
        BY <1>4, <3>1, <3>2
    <2>3. rd = 0
      BY <1>4, <1>6, <1>7, <2>1, <2>2
    <2> QED
      BY <1>4, <1>5, <1>7, <2>2, <2>3 DEF d, q, r, qd, rd
  <1>8. CASE r + 1 < w
    <2>1. qd = q
      <3>1. CASE qd >= q + 1
        <4>1. w * qd >= w * (q + 1) /\ w * (q + 1) = w * q + w
          BY <1>4, <3>1
        <4> QED
          BY <1>4, <1>6, <1>8, <4>1
      <3>2. CASE qd <= q - 1
        <4>1. w * qd <= w * (q - 1) /\ w * (q - 1) = w * q - w
          BY <1>4, <3>2
        <4> QED
          BY <1>4, <1>6, <4>1
      <3> QED
        BY <1>4, <3>1, <3>2
    <2>2. rd = r + 1
      BY <1>4, <1>6, <2>1
    <2> QED
      BY <1>4, <1>5, <1>8, <2>1, <2>2 DEF d, q, r, qd, rd
  <1> QED
    BY <1>4, <1>7, <1>8 DEF r

LEMMA WidthType ==
    ASSUME TextOK, NEW r \in Nat
    PROVE  Width(r) \in Nat
  <1> DEFINE line == {k \in 0..(buf_len - 1) : Row(k) = r /\ buffer[k] # Nl}
  <1>1. IsFiniteSet(0..(buf_len - 1)) /\ line \in SUBSET (0..(buf_len - 1))
    <2>1. 0 \in Int /\ buf_len - 1 \in Int
      BY Bounds DEF TextOK
    <2>2. IsFiniteSet(0..(buf_len - 1))
      BY <2>1, FS_Interval, Zenon
    <2> QED
      BY <2>2
  <1>2. IsFiniteSet(line)
    BY <1>1, FS_Subset
  <1> QED
    BY <1>2, FS_CardinalityType DEF Width

LEMMA ColumnType ==
    ASSUME NEW p \in Nat
    PROVE  Column(p) \in Nat
  <1>1. IsStart(LineStart(p), p)
    BY LineStartIs
  <1> QED
    BY <1>1, ColumnFromStart DEF IsStart

LEMMA SomeWidth == VGA_WIDTH \in Nat \ {0} /\ EM_TEXT_ROWS \in Nat \ {0}
  BY EmAssumption

(* A line of Width(r) characters takes that many rows.                     *)
LEMMA RowsAboveNext ==
    ASSUME TextOK, NEW r \in Nat
    PROVE  /\ RowsAbove(0) = 0 /\ RowsAbove(r) \in Nat
           /\ RowsAbove(r + 1) = (RowsAbove(r) + Width(r) \div VGA_WIDTH) + 1
  <1>1. RowsAbove(0) = 0
    BY RowsWalk
  <1> DEFINE Next1(m, L) == /\ m[0] = 0
                            /\ \A n \in 0..(L - 1) :
                                  m[n + 1] = (m[n] + Width(n) \div VGA_WIDTH) + 1
  <1>2. PICK a : Next1(a, r) /\ RowsAbove(r) = a[r]
    BY RowsWalk, Zenon
  <1>3. PICK b : Next1(b, r + 1) /\ RowsAbove(r + 1) = b[r + 1]
    <2>1. r + 1 \in Nat
      OBVIOUS
    <2> QED
      BY <2>1, RowsWalk, Zenon
  <1> DEFINE Good == {n \in 0..r : a[n] = b[n] /\ a[n] \in Nat}
  <1>4. 0 \in Good
    BY <1>2, <1>3
  <1>5. ASSUME NEW n \in 0..(r - 1), n \in Good
        PROVE  n + 1 \in Good
    <2>1. n + 1 \in 0..r /\ n \in 0..((r + 1) - 1)
      OBVIOUS
    <2>2. a[n + 1] = (a[n] + Width(n) \div VGA_WIDTH) + 1
      BY <1>2
    <2>3. b[n + 1] = (b[n] + Width(n) \div VGA_WIDTH) + 1
      BY <1>3, <2>1
    <2>4. Width(n) \div VGA_WIDTH \in Nat
      BY WidthType, SomeWidth, NextColumn
    <2> QED
      BY <1>5, <2>1, <2>2, <2>3, <2>4
  <1>6. r \in Good
    <2> HIDE DEF Good
    <2>1. \A n \in 0..r : n \in Good
      BY <1>4, <1>5, CountUp
    <2> QED
      BY <2>1
  <1>7. b[r + 1] = (b[r] + Width(r) \div VGA_WIDTH) + 1
    <2>1. r \in 0..((r + 1) - 1)
      OBVIOUS
    <2> QED
      BY <1>3, <2>1
  <1> QED
    BY <1>1, <1>2, <1>3, <1>6, <1>7

(* Behind a character the next one is in the next cell, or at the start of *)
(* the next row: the closed form is what both walks compute.               *)
LEMMA PlaceNext ==
    ASSUME TextOK, NEW p \in 0..(buf_len - 1)
    PROVE  Place(p + 1) = Passed(Place(p), p)
  <1> DEFINE w == VGA_WIDTH
             c == Column(p)
             q == p + 1
  <1>1. buf_len \in Nat /\ p \in Nat /\ q \in Nat /\ p \in 0..buf_len
    BY Bounds DEF TextOK
  <1>2. w \in Nat \ {0} /\ c \in Nat /\ Row(p) \in Nat /\ RowsAbove(Row(p)) \in Nat
    BY <1>1, SomeWidth, ColumnType, RowType, RowsAboveNext
  <1>3. IsStart(LineStart(p), p)
    BY <1>1, LineStartIs
  <1>4. c = p - LineStart(p) /\ LineStart(p) \in 0..p
    BY <1>1, <1>3, ColumnFromStart DEF IsStart
  <1>5. CASE buffer[p] = Nl
    <2>1. IsStart(q, q)
      BY <1>1, <1>5 DEF IsStart
    <2>2. Column(q) = 0
      <3>1. Column(q) = q - q
        BY <1>1, <2>1, ColumnFromStart
      <3> QED
        BY <1>1, <3>1
    <2>3. Row(q) = Row(p) + 1
      BY <1>1, <1>5, RowNext
    <2>4. IsEnd(p, p)
      BY <1>1, <1>5 DEF IsEnd
    <2>5. Width(Row(p)) = c
      BY <1>1, <1>3, <1>4, <2>4, WidthOfLine
    <2>6. RowsAbove(Row(q)) = (RowsAbove(Row(p)) + c \div w) + 1
      BY <1>2, <2>3, <2>5, RowsAboveNext
    <2>7. c \div w \in Nat /\ 0 \div w = 0 /\ 0 % w = 0
      BY <1>2, NextColumn
    <2> HIDE DEF c, w
    <2>8. RowsAbove(Row(q)) + 0 \div w = (RowsAbove(Row(p)) + c \div w) + 1
      BY <1>2, <2>6, <2>7
    <2>9. Place(q) = At((RowsAbove(Row(p)) + c \div w) + 1, 0)
      BY <2>2, <2>7, <2>8 DEF Place, w
    <2> QED
      BY <1>5, <2>9 DEF Passed, NextRow, Place, At, c, w
  <1>6. CASE buffer[p] # Nl
    <2>1. IsStart(LineStart(p), q)
      BY <1>1, <1>3, <1>6 DEF IsStart
    <2>2. Column(q) = c + 1
      <3>1. Column(q) = q - LineStart(p)
        BY <1>1, <2>1, ColumnFromStart
      <3> QED
        BY <1>1, <1>4, <3>1
    <2>3. Row(q) = Row(p)
      BY <1>1, <1>6, RowStays
    <2> DEFINE above == RowsAbove(Row(p))
               turn == (c % w) + 1 >= w
    <2>4. /\ c \div w \in Nat /\ c % w \in 0..(w - 1)
          /\ (c + 1) \div w = (IF turn THEN (c \div w) + 1 ELSE c \div w)
          /\ (c + 1) % w = (IF turn THEN 0 ELSE (c % w) + 1)
      <3> HIDE DEF c, w
      <3> QED
        BY <1>2, NextColumn
    <2>5. Place(p) = At(above + c \div w, c % w)
      BY DEF Place
    <2>6. Place(q) = At(above + (c + 1) \div w, (c + 1) % w)
      BY <2>2, <2>3 DEF Place
    <2>7. NextCell(Place(p)) = IF turn THEN At((above + c \div w) + 1, 0)
                                       ELSE At(above + c \div w, (c % w) + 1)
      BY <2>5 DEF NextCell, At
    <2>8. above \in Nat
      BY <1>2
    <2> HIDE DEF c, w, above
    <2>9. CASE turn
      <3>1. above + (c + 1) \div w = (above + c \div w) + 1
        BY <2>4, <2>8, <2>9
      <3> QED
        BY <1>6, <2>4, <2>6, <2>7, <2>9, <3>1 DEF Passed
    <2>10. CASE ~turn
      BY <1>6, <2>4, <2>6, <2>7, <2>10 DEF Passed
    <2> QED
      BY <2>9, <2>10
  <1> QED
    BY <1>5, <1>6

-----------------------------------------------------------------------------
(* The two walks                                                           *)

(* Reading order.                                                          *)
Before(x, y) == x.row < y.row \/ (x.row = y.row /\ x.col < y.col)

IsPlace(x) == /\ x = At(x.row, x.col)
              /\ x.row \in Nat /\ x.col \in 0..(VGA_WIDTH - 1)

LEMMA PlaceType ==
    ASSUME TextOK, NEW p \in 0..buf_len
    PROVE  IsPlace(Place(p))
  <1>1. buf_len \in Nat /\ p \in Nat
    BY Bounds DEF TextOK
  <1>2. RowsAbove(Row(p)) \in Nat
    BY <1>1, RowType, RowsAboveNext
  <1>3. Column(p) \div VGA_WIDTH \in Nat /\ Column(p) % VGA_WIDTH \in 0..(VGA_WIDTH - 1)
    BY <1>1, ColumnType, SomeWidth, NextColumn
  <1> DEFINE a == RowsAbove(Row(p)) + Column(p) \div VGA_WIDTH
             b == Column(p) % VGA_WIDTH
  <1>4. a \in Nat /\ b \in 0..(VGA_WIDTH - 1)
    BY <1>2, <1>3
  <1>5. Place(p) = At(a, b)
    BY DEF Place
  <1> HIDE DEF a, b
  <1> QED
    BY <1>4, <1>5 DEF IsPlace, At

LEMMA PassedBehind ==
    ASSUME NEW x, IsPlace(x), NEW p
    PROVE  IsPlace(Passed(x, p)) /\ Before(x, Passed(x, p))
  BY SomeWidth DEF IsPlace, Passed, NextRow, NextCell, At, Before

(* No two characters share a place, and the rows never go back.            *)
LEMMA PlacesInOrder ==
    ASSUME TextOK, NEW p \in 0..buf_len, NEW q \in 0..buf_len, p < q
    PROVE  Before(Place(p), Place(q))
  <1> DEFINE Good == {n \in 0..(q - p - 1) : Before(Place(p), Place(p + n + 1))}
  <1>1. buf_len \in Nat /\ p \in Nat /\ q \in Nat /\ q - p - 1 \in Nat /\ q <= buf_len
    BY Bounds DEF TextOK
  <1>2. ASSUME NEW n \in 0..(q - p - 1)
        PROVE  /\ IsPlace(Place(p + n)) /\ IsPlace(Place(p + n + 1))
               /\ Before(Place(p + n), Place(p + n + 1))
    <2> DEFINE k == p + n
    <2>1. k \in 0..(buf_len - 1) /\ k \in 0..buf_len /\ k + 1 \in 0..buf_len
      BY <1>1
    <2> HIDE DEF k
    <2>2. IsPlace(Place(k)) /\ IsPlace(Place(k + 1))
      BY <2>1, PlaceType
    <2>3. Before(Place(k), Place(k + 1))
      BY <2>1, <2>2, PlaceNext, PassedBehind
    <2> QED
      BY <2>2, <2>3 DEF k
  <1>3. 0 \in Good
    <2>1. 0 \in 0..(q - p - 1) /\ p + 0 = p
      BY <1>1
    <2>2. Before(Place(p + 0), Place(p + 0 + 1))
      BY <1>2, <2>1
    <2> QED
      BY <2>1, <2>2
  <1>4. ASSUME NEW n \in 0..(q - p - 1 - 1), n \in Good
        PROVE  n + 1 \in Good
    <2>1. n + 1 \in 0..(q - p - 1) /\ n \in 0..(q - p - 1) /\ p + (n + 1) = p + n + 1
      BY <1>1
    <2> DEFINE x == Place(p)
               y == Place(p + n + 1)
               z == Place(p + (n + 1) + 1)
    <2>2. IsPlace(y) /\ IsPlace(z) /\ Before(y, z)
      BY <1>2, <2>1
    <2>3. Before(x, y) /\ IsPlace(x)
      BY <1>4, PlaceType
    <2> HIDE DEF x, y, z
    <2>4. Before(x, z)
      BY <2>2, <2>3 DEF Before, IsPlace
    <2> QED
      BY <2>1, <2>4 DEF x, z
  <1>5. q - p - 1 \in Good
    <2> DEFINE last == q - p - 1
    <2> HIDE DEF Good
    <2>1. last \in Nat /\ 0 \in Good /\ \A n \in 0..(last - 1) : n \in Good => n + 1 \in Good
      BY <1>1, <1>3, <1>4
    <2> HIDE DEF last
    <2>2. \A n \in 0..last : n \in Good
      BY <2>1, CountUp
    <2>3. last \in Good
      BY <2>1, <2>2
    <2> QED
      BY <2>3 DEF last
  <1>6. p + (q - p - 1) + 1 = q
    BY <1>1
  <1> QED
    BY <1>5, <1>6

LEMMA FirstPlace ==
    ASSUME TextOK
    PROVE  Place(0) = At(0, 0)
  <1>1. IsStart(0, 0)
    BY DEF IsStart
  <1>2. Column(0) = 0
    <2>1. Column(0) = 0 - 0
      BY <1>1, ColumnFromStart
    <2> QED
      BY <2>1
  <1>3. Row(0) = 0
    <2>1. Newlines(0) = {}
      BY DEF Newlines
    <2> QED
      BY <2>1, RowType, FS_EmptySet
  <1>4. RowsAbove(0) = 0
    BY RowsAboveNext
  <1>5. 0 \div VGA_WIDTH = 0 /\ 0 % VGA_WIDTH = 0
    BY SomeWidth
  <1> QED
    BY <1>2, <1>3, <1>4, <1>5 DEF Place

(* get_cursor_row_col gives the place of the cursor.                       *)
LEMMA CursorIsPlace ==
    ASSUME TextOK
    PROVE  get_cursor_row_col = Place(cursor_pos)
  <1>1. buf_len \in Nat /\ cursor_pos \in Nat /\ cursor_pos <= buf_len
    BY Bounds DEF TextOK
  <1>2. PICK m : /\ m[0] = At(0, 0)
                 /\ \A n \in 0..(cursor_pos - 1) : m[n + 1] = Passed(m[n], n)
                 /\ get_cursor_row_col = m[cursor_pos]
    BY <1>1, CursorWalk
  <1> DEFINE Good == {n \in 0..cursor_pos : m[n] = Place(n)}
  <1>3. 0 \in Good
    BY <1>1, <1>2, FirstPlace
  <1>4. ASSUME NEW n \in 0..(cursor_pos - 1), n \in Good
        PROVE  n + 1 \in Good
    <2>1. n \in 0..(buf_len - 1) /\ n + 1 \in 0..cursor_pos
      BY <1>1
    <2>2. m[n + 1] = Passed(Place(n), n)
      BY <1>2, <1>4
    <2> QED
      BY <2>1, <2>2, PlaceNext
  <1>5. cursor_pos \in Good
    <2> HIDE DEF Good
    <2>1. \A n \in 0..cursor_pos : n \in Good
      BY <1>1, <1>3, <1>4, CountUp
    <2> QED
      BY <1>1, <2>1
  <1> QED
    BY <1>2, <1>5

TextRows == 0..(EM_TEXT_ROWS - 1)
TextCols == 0..(VGA_WIDTH - 1)
Grid(cells) == /\ DOMAIN cells = TextRows
               /\ \A r \in TextRows : DOMAIN cells[r] = TextCols
Drawing(p) == [ch |-> buffer[p], typo |-> InTypo(p)]

(* What draw_cell changes.                                                 *)
LEMMA DrawCell ==
    ASSUME NEW cells, Grid(cells), NEW r \in TextRows, NEW c \in TextCols, NEW p
    PROVE  LET new == draw_cell(cells, At(r, c), p)
           IN  /\ Grid(new) /\ new[r][c] = Drawing(p)
               /\ \A s \in TextRows : \A d \in TextCols :
                     s # r \/ d # c => new[s][d] = cells[s][d]
  <1> DEFINE new == draw_cell(cells, At(r, c), p)
             row == [cells[r] EXCEPT ![c] = Drawing(p)]
  <1>1. new = [cells EXCEPT ![r] = row]
    BY DEF draw_cell, At, Drawing
  <1>2. /\ DOMAIN row = TextCols /\ row[c] = Drawing(p)
        /\ \A d \in TextCols : d # c => row[d] = cells[r][d]
    BY DEF Grid
  <1> HIDE DEF row
  <1>3. /\ DOMAIN new = TextRows /\ new[r] = row
        /\ \A s \in TextRows : s # r => new[s] = cells[s]
    BY <1>1 DEF Grid
  <1> HIDE DEF new
  <1> QED
    BY <1>2, <1>3 DEF Grid, new

(* The screen x after the first k characters: each of them is in its place *)
(* if that is on the screen, and nothing else is.  Once the walk has left  *)
(* the last text row it stays there, and so do the places.                 *)
ShownUpTo(x, k) ==
    /\ Grid(x.cells)
    /\ IF Place(k).row < EM_TEXT_ROWS THEN x.at = Place(k)
                                       ELSE x.at.row >= EM_TEXT_ROWS
    /\ \A p \in Shown : p < k =>
          x.cells[Place(p).row][Place(p).col] = Drawing(p)
    /\ \A r \in TextRows : \A c \in TextCols :
          \/ \E p \in Shown : p < k /\ Place(p) = At(r, c)
          \/ x.cells[r][c] = EmptyCell

LEMMA DrawnShows ==
    ASSUME TextOK, NEW k \in 0..(buf_len - 1), NEW x, ShownUpTo(x, k)
    PROVE  ShownUpTo(Drawn(x, k), k + 1)
  <1> DEFINE here == Place(k)
             next == Place(k + 1)
             y == Drawn(x, k)
  <1>1. /\ buf_len \in Nat /\ k \in Nat /\ k \in 0..buf_len /\ k + 1 \in 0..buf_len
        /\ k < k + 1
    BY Bounds DEF TextOK
  <1>2. IsPlace(here) /\ IsPlace(next) /\ Before(here, next)
    BY <1>1, PlaceType, PlacesInOrder
  <1>3. next = Passed(here, k)
    BY PlaceNext
  <1>4. \A p \in Shown : p < k + 1 <=> p < k \/ p = k
    BY <1>1 DEF Shown
  <1> HIDE DEF here, next
  <1>5. CASE here.row >= EM_TEXT_ROWS
    <2>1. x.at.row >= EM_TEXT_ROWS
      <3>1. ~(here.row < EM_TEXT_ROWS)
        BY <1>2, <1>5, SomeWidth DEF IsPlace
      <3> QED
        BY <3>1 DEF ShownUpTo, here
    <2>2. y = x
      BY <2>1 DEF Drawn
    <2>3. ~(next.row < EM_TEXT_ROWS) /\ ~(here.row < EM_TEXT_ROWS)
      BY <1>2, <1>5, SomeWidth DEF IsPlace, Before
    <2>4. k \notin Shown
      BY <2>3 DEF Shown, here
    <2>5. \A p \in Shown : p < k + 1 <=> p < k
      BY <1>4, <2>4
    <2> QED
      BY <2>1, <2>2, <2>3, <2>5 DEF ShownUpTo, next
  <1>6. CASE here.row < EM_TEXT_ROWS
    <2>1. x.at = here /\ ~(x.at.row >= EM_TEXT_ROWS)
      BY <1>2, <1>6, SomeWidth DEF ShownUpTo, here, IsPlace
    <2>2. next.row < EM_TEXT_ROWS \/ next.row >= EM_TEXT_ROWS
      BY <1>2, SomeWidth DEF IsPlace
    <2>3. CASE buffer[k] = Nl
      <3>1. y = [at |-> NextRow(here), cells |-> x.cells]
        BY <2>1, <2>3 DEF Drawn
      <3>2. y.at = next /\ y.cells = x.cells
        BY <1>3, <2>3, <3>1 DEF Passed
      <3>3. \A p \in Shown : p < k + 1 <=> p < k
        BY <1>4, <2>3 DEF Shown
      <3> HIDE DEF y
      <3> QED
        BY <2>2, <3>2, <3>3 DEF ShownUpTo, next, y
    <2>4. CASE buffer[k] # Nl
      <3> DEFINE r == here.row
                 c == here.col
                 cells == draw_cell(x.cells, At(r, c), k)
      <3>1. here = At(r, c) /\ r \in TextRows /\ c \in TextCols
        BY <1>2, <1>6, SomeWidth DEF IsPlace, TextRows, TextCols
      <3>2. y = [at |-> NextCell(here), cells |-> cells]
        BY <2>1, <2>4, <3>1 DEF Drawn
      <3>3. y.at = next /\ y.cells = cells
        BY <1>3, <2>4, <3>2 DEF Passed
      <3>4. Grid(x.cells)
        BY DEF ShownUpTo
      <3> HIDE DEF y, r, c
      <3>5. /\ Grid(cells) /\ cells[r][c] = Drawing(k)
            /\ \A s \in TextRows : \A d \in TextCols :
                  s # r \/ d # c => cells[s][d] = x.cells[s][d]
        BY <3>1, <3>4, DrawCell
      <3> HIDE DEF cells
      <3>6. k \in Shown
        BY <1>6, <2>4 DEF Shown, here
      <3>7. ASSUME NEW p \in Shown, p < k
            PROVE  /\ Place(p).row \in TextRows /\ Place(p).col \in TextCols
                   /\ Place(p).row # r \/ Place(p).col # c
        <4>1. p \in 0..buf_len /\ Place(p).row < EM_TEXT_ROWS
          BY <1>1 DEF Shown
        <4>2. IsPlace(Place(p)) /\ Before(Place(p), here)
          BY <1>1, <3>7, <4>1, PlaceType, PlacesInOrder DEF here
        <4> QED
          BY <1>2, <4>1, <4>2, SomeWidth DEF IsPlace, Before, TextRows, TextCols, r, c
      <3>8. ASSUME NEW p \in Shown, p < k + 1
            PROVE  cells[Place(p).row][Place(p).col] = Drawing(p)
        <4>1. CASE p < k
          <5>1. x.cells[Place(p).row][Place(p).col] = Drawing(p)
            BY <4>1 DEF ShownUpTo
          <5> QED
            BY <3>5, <3>7, <4>1, <5>1
        <4>2. CASE p = k
          <5>1. Place(p).row = r /\ Place(p).col = c
            BY <4>2 DEF here, r, c
          <5> QED
            BY <3>5, <4>2, <5>1
        <4> QED
          BY <1>4, <3>8, <4>1, <4>2
      <3>9. ASSUME NEW s \in TextRows, NEW d \in TextCols
            PROVE  \/ \E p \in Shown : p < k + 1 /\ Place(p) = At(s, d)
                   \/ cells[s][d] = EmptyCell
        <4>1. CASE s = r /\ d = c
          <5>1. Place(k) = At(s, d)
            BY <3>1, <4>1 DEF here
          <5> QED
            BY <1>1, <3>6, <5>1
        <4>2. CASE s # r \/ d # c
          <5>1. cells[s][d] = x.cells[s][d]
            BY <3>5, <4>2
          <5>2. \/ \E p \in Shown : p < k /\ Place(p) = At(s, d)
                \/ x.cells[s][d] = EmptyCell
            BY DEF ShownUpTo
          <5> QED
            BY <1>4, <5>1, <5>2
        <4> QED
          BY <4>1, <4>2
      <3>10. IF next.row < EM_TEXT_ROWS THEN y.at = next ELSE y.at.row >= EM_TEXT_ROWS
        BY <2>2, <3>3
      <3> QED
        BY <3>3, <3>5, <3>8, <3>9, <3>10 DEF ShownUpTo, next, y
    <2> QED
      BY <2>3, <2>4
  <1> QED
    BY <1>2, <1>5, <1>6, SomeWidth DEF IsPlace

LEMMA FreshShows ==
    ASSUME TextOK
    PROVE  ShownUpTo(Fresh, 0)
  <1>1. Place(0) = At(0, 0) /\ At(0, 0).row = 0 /\ 0 < EM_TEXT_ROWS
    BY FirstPlace, SomeWidth DEF At
  <1>2. Fresh.at = At(0, 0) /\ Fresh.cells = BlankRows
    BY DEF Fresh
  <1>3. /\ Grid(BlankRows)
        /\ \A r \in TextRows : \A c \in TextCols : BlankRows[r][c] = EmptyCell
    BY DEF BlankRows, Grid, TextRows, TextCols
  <1>4. \A p \in Shown : ~(p < 0)
    BY Bounds DEF Shown, TextOK
  <1> QED
    BY <1>1, <1>2, <1>3, <1>4 DEF ShownUpTo

LEMMA RenderShows ==
    ASSUME TextOK
    PROVE  \E x : ShownUpTo(x, buf_len) /\ em_render = x.cells
  <1>1. buf_len \in Nat
    BY Bounds DEF TextOK
  <1>2. PICK m : /\ m[0] = Fresh
                 /\ \A n \in 0..(buf_len - 1) : m[n + 1] = Drawn(m[n], n)
                 /\ em_render = m[buf_len].cells
    BY <1>1, RenderWalk
  <1> DEFINE Good == {n \in 0..buf_len : ShownUpTo(m[n], n)}
  <1>3. 0 \in Good
    BY <1>1, <1>2, FreshShows
  <1>4. ASSUME NEW n \in 0..(buf_len - 1), n \in Good
        PROVE  n + 1 \in Good
    <2>1. m[n + 1] = Drawn(m[n], n) /\ n + 1 \in 0..buf_len
      BY <1>1, <1>2
    <2>2. ShownUpTo(m[n], n)
      BY <1>4
    <2>3. ShownUpTo(m[n + 1], n + 1)
      BY <2>1, <2>2, DrawnShows
    <2> QED
      BY <2>1, <2>3
  <1>5. buf_len \in Good
    <2> HIDE DEF Good
    <2>1. \A n \in 0..buf_len : n \in Good
      BY <1>1, <1>3, <1>4, CountUp
    <2> QED
      BY <1>1, <2>1
  <1> QED
    BY <1>2, <1>5

(* The text rows show the text and the cursor: whatever its lines, each of *)
(* its characters is drawn at the place that the lengths of the lines      *)
(* before it give, red when it belongs to a typo, the other cells are      *)
(* empty, and get_cursor_row_col, the other walk over the buffer, stands   *)
(* where em_render has drawn the character under the cursor.               *)
THEOREM ScreenIsTheText == Spec => []ScreenShowsText
  <1>1. ASSUME EmInv
        PROVE  ScreenShowsText
    <2>1. TextOK /\ buf_len \in Nat
      BY <1>1, Bounds DEF EmInv, TextOK
    <2>2. PICK x : ShownUpTo(x, buf_len) /\ em_render = x.cells
      BY <2>1, RenderShows
    <2>3. \A p \in Shown : p < buf_len
      BY <2>1 DEF Shown
    <2>4. \A p \in Shown : em_render[Place(p).row][Place(p).col]
                             = [ch |-> buffer[p], typo |-> InTypo(p)]
      BY <2>2, <2>3 DEF ShownUpTo, Drawing
    <2>5. \A r \in DOMAIN em_render : \A c \in DOMAIN em_render[r] :
             \/ \E p \in Shown : Place(p) = At(r, c)
             \/ em_render[r][c] = EmptyCell
      BY <2>2 DEF ShownUpTo, Grid
    <2>6. IF Place(cursor_pos).row < EM_TEXT_ROWS
          THEN HardwareCursor = Place(cursor_pos)
          ELSE HardwareCursor.row = EM_TEXT_ROWS - 1
      BY <2>1, CursorIsPlace DEF HardwareCursor, At
    <2> QED
      BY <2>4, <2>5, <2>6 DEF ScreenShowsText
  <1> QED
    BY <1>1, EmInvariant, PTL
=============================================================================
