----------------------------- MODULE BufferProofs -----------------------------
(***************************************************************************)
(* Proofs about Buffer for every prepend size, initial size and stack      *)
(* buffer.  Each method is described by one lemma: what it does to the     *)
(* readable bytes, and that it keeps the record well formed and ordered.   *)
(***************************************************************************)
EXTENDS Buffer, SequenceTheorems, TLAPS

(* A function on 1..n is a sequence of length n.                           *)
LEMMA FunIsSeq ==
  ASSUME NEW S, NEW n \in Nat, NEW f \in [1..n -> S]
  PROVE  f \in Seq(S) /\ Len(f) = n
<1>1. f \in Seq(S)
  BY SeqDef
<1>2. Len(f) \in Nat /\ 1..Len(f) = 1..n
  BY <1>1, LenProperties
<1> QED
  BY <1>1, <1>2

Ok(x) == WellFormed(x) /\ Ordered(x)

(* The readable bytes are a sequence as long as readableBytes() says.      *)
LEMMA ReadableSeq ==
  ASSUME NEW x, Ok(x)
  PROVE  /\ Readable(x) \in Seq(Nat)
         /\ Len(Readable(x)) = readableBytes(x)
         /\ readableBytes(x) \in Nat
<1>1. readableBytes(x) \in Nat
  BY DEF Ok, WellFormed, Ordered, readableBytes
<1>2. ASSUME NEW i \in 1..readableBytes(x) PROVE x.cell[x.reader + i - 1] \in Nat
  <2>1. /\ x.size \in Nat /\ x.reader \in Nat /\ x.writer \in Nat
        /\ x.writer <= x.size
    BY DEF Ok, WellFormed, Ordered
  <2>2. x.reader + i - 1 \in Cells(x.size)
    BY <2>1 DEF readableBytes, Cells
  <2>3. x.cell \in [Cells(x.size) -> Nat]
    BY DEF Ok, WellFormed
  <2> QED
    BY <2>2, <2>3
<1>3. Readable(x) \in [1..readableBytes(x) -> Nat]
  BY <1>2 DEF Readable
<1> QED
  BY <1>1, <1>3, FunIsSeq

(* Copying behind the writer appends to the readable bytes.                *)
LEMMA CopyInOk ==
  ASSUME NEW x, Ok(x), NEW from \in Nat, NEW len \in Nat, x.writer + len <= x.size
  PROVE  /\ Ok(CopyIn(x, from, len))
         /\ Readable(CopyIn(x, from, len)) = Readable(x) \o BQ!Numbered(from, len)
         /\ CopyIn(x, from, len).size = x.size
         /\ CopyIn(x, from, len).writer = x.writer + len
         /\ CopyIn(x, from, len).reader = x.reader
<1> DEFINE y == CopyIn(x, from, len)
<1>0. /\ x.size \in Nat /\ x.reader \in Nat /\ x.writer \in Nat
      /\ x.reader <= x.writer /\ x.writer <= x.size /\ kCheapPrepend <= x.reader
  BY DEF Ok, WellFormed, Ordered
<1>a. x.cell \in [Cells(x.size) -> Nat]
  BY DEF Ok, WellFormed
<1>1. /\ y.size = x.size /\ y.writer = x.writer + len /\ y.reader = x.reader
      /\ y = [cell |-> y.cell, size |-> y.size, reader |-> y.reader, writer |-> y.writer]
      /\ y.cell = [c \in Cells(x.size) |->
               IF c \in x.writer..x.writer + len - 1 THEN from + (c - x.writer) + 1
                                                     ELSE x.cell[c]]
  BY DEF CopyIn
<1> HIDE DEF y
<1>2. y.cell \in [Cells(y.size) -> Nat]
  <2>1. ASSUME NEW c \in Cells(x.size)
        PROVE  (IF c \in x.writer..x.writer + len - 1 THEN from + (c - x.writer) + 1
                                                       ELSE x.cell[c]) \in Nat
    <3>1. CASE c \in x.writer..x.writer + len - 1
      BY <1>0, <3>1
    <3>2. CASE c \notin x.writer..x.writer + len - 1
      BY <1>a, <3>2
    <3> QED
      BY <3>1, <3>2
  <2> QED
    BY <1>1, <2>1
<1>3. Ok(y)
  BY <1>0, <1>1, <1>2 DEF Ok, WellFormed, Ordered
<1>4. Readable(y) = Readable(x) \o BQ!Numbered(from, len)
  <2> DEFINE n == BQ!Numbered(from, len)
             r == Readable(x) \o n
  <2>1. n \in Seq(Nat) /\ Len(n) = len /\ \A i \in 1..len : n[i] = from + i
    BY DEF BQ!Numbered
  <2>2. /\ Readable(x) \in Seq(Nat) /\ Len(Readable(x)) = readableBytes(x)
        /\ readableBytes(x) = x.writer - x.reader
    BY ReadableSeq DEF readableBytes
  <2>3. /\ Readable(y) \in Seq(Nat) /\ Len(Readable(y)) = readableBytes(x) + len
    BY <1>0, <1>1, <1>3, ReadableSeq DEF readableBytes
  <2>4. /\ r \in Seq(Nat) /\ Len(r) = readableBytes(x) + len
        /\ \A i \in 1..readableBytes(x) + len :
             r[i] = IF i <= readableBytes(x) THEN Readable(x)[i]
                                             ELSE n[i - readableBytes(x)]
    <3> HIDE DEF n
    <3>1. /\ r \in Seq(Nat) /\ Len(r) = Len(Readable(x)) + Len(n)
          /\ \A i \in 1..Len(Readable(x)) + Len(n) :
               r[i] = IF i <= Len(Readable(x)) THEN Readable(x)[i]
                                               ELSE n[i - Len(Readable(x))]
      BY <2>1, <2>2, ConcatProperties
    <3> HIDE DEF r
    <3> QED
      BY <2>1, <2>2, <3>1
  <2> HIDE DEF n, r
  <2>5. ASSUME NEW i \in 1..Len(Readable(y)) PROVE Readable(y)[i] = r[i]
    <3>0. /\ i \in 1..readableBytes(x) + len /\ i \in Int
          /\ readableBytes(y) = readableBytes(x) + len
          /\ readableBytes(x) \in Nat
      BY <1>0, <1>1, <2>2, <2>3 DEF readableBytes
    <3>1. PICK p : p = x.reader + i - 1
      OBVIOUS
    <3>a. readableBytes(x) = x.writer - x.reader
      BY DEF readableBytes
    <3>b. i \in Int /\ 1 <= i /\ i <= readableBytes(x) + len
      BY <3>0
    <3>c. /\ x.reader \in Nat /\ x.writer \in Nat /\ x.size \in Nat /\ len \in Nat
          /\ x.reader <= x.writer /\ x.writer + len <= x.size
      BY <1>0
    <3>d. p \in Int /\ 0 <= p /\ p <= x.size - 1
      BY <3>1, <3>a, <3>b, <3>c, SMTT(30)
    <3>2. p \in Cells(x.size) /\ p \in Int
      BY <3>c, <3>d DEF Cells
    <3>3. y.reader = x.reader
      BY <1>1
    <3>4. Readable(y)[i] = y.cell[p]
      BY <3>0, <3>1, <3>3 DEF Readable
    <3>5. CASE i <= readableBytes(x)
      <4>1. Readable(x)[i] = x.cell[p]
        BY <3>0, <3>1, <3>5 DEF Readable
      <4>2. p \notin x.writer..x.writer + len - 1
        <5>1. p < x.writer
          BY <3>1, <3>a, <3>b, <3>c, <3>5, SMTT(30)
        <5> QED
          BY <3>c, <3>d, <5>1
      <4>3. y.cell[p] = x.cell[p]
        BY <1>1, <3>2, <4>2
      <4>4. r[i] = Readable(x)[i]
        BY <2>4, <3>0, <3>5
      <4> QED
        BY <3>4, <4>1, <4>3, <4>4
    <3>6. CASE i > readableBytes(x)
      <4>1. p \in x.writer..x.writer + len - 1
        <5>1. x.writer <= p /\ p <= x.writer + len - 1
          BY <3>1, <3>a, <3>b, <3>c, <3>6, SMTT(30)
        <5> QED
          BY <3>c, <3>d, <5>1
      <4>2. y.cell[p] = from + (p - x.writer) + 1
        BY <1>1, <3>2, <4>1
      <4>3. i - readableBytes(x) \in 1..len /\ ~(i <= readableBytes(x))
        BY <3>0, <3>6
      <4>4. r[i] = from + (i - readableBytes(x))
        BY <2>1, <2>4, <3>0, <4>3
      <4>5. from + (p - x.writer) + 1 = from + (i - readableBytes(x))
        BY <1>0, <3>1, <3>a, <3>b
      <4> QED
        BY <3>4, <4>2, <4>4, <4>5
    <3> QED
      BY <3>0, <3>5, <3>6
  <2>6. Len(Readable(y)) = Len(r)
    BY <2>3, <2>4
  <2>7. Readable(y) = r
    BY <2>3, <2>4, <2>5, <2>6, SeqEqual
  <2> QED
    BY <2>7 DEF n, r
<1> QED
  BY <1>1, <1>3, <1>4 DEF y

(* ensureWriteableBytes keeps the readable bytes and makes room; it grows  *)
(* the vector only by what is missing.                                     *)
LEMMA EnsureOk ==
  ASSUME NEW x, Ok(x), NEW len \in Nat
  PROVE  LET e == ensureWriteableBytes(x, len)
         IN  /\ Ok(e) /\ e.writer + len <= e.size
             /\ Readable(e) = Readable(x) /\ readableBytes(e) = readableBytes(x)
             /\ e.size > x.size => e.size < kCheapPrepend + readableBytes(x) + len + len
<1> DEFINE e == ensureWriteableBytes(x, len)
<1>0. /\ x.size \in Nat /\ x.reader \in Nat /\ x.writer \in Nat
      /\ x.reader <= x.writer /\ x.writer <= x.size /\ kCheapPrepend <= x.reader
      /\ kCheapPrepend \in Nat
  BY SizeAssumption DEF Ok, WellFormed, Ordered
<1>a. x.cell \in [Cells(x.size) -> Nat]
  BY DEF Ok, WellFormed
<1>1. CASE writableBytes(x) >= len
  <2>1. e = x
    BY <1>0, <1>1 DEF ensureWriteableBytes, writableBytes
  <2> QED
    BY <1>0, <1>1, <2>1 DEF writableBytes
<1>2. CASE writableBytes(x) < len /\ SpaceMissing(x, len)
  <2>1. e = Resize(x, x.writer + len)
    BY <1>2 DEF ensureWriteableBytes, makeSpace
  <2>2. /\ e.size = x.writer + len /\ e.reader = x.reader /\ e.writer = x.writer
        /\ e = [cell |-> e.cell, size |-> e.size, reader |-> e.reader, writer |-> e.writer]
        /\ e.cell = [c \in Cells(x.writer + len) |->
                       IF c \in Cells(x.size) THEN x.cell[c] ELSE 0]
    BY <2>1 DEF Resize
  <2> HIDE DEF e
  <2>3. Ok(e)
    <3>1. e.cell \in [Cells(e.size) -> Nat]
      BY <1>a, <2>2
    <3> QED
      BY <1>0, <2>2, <3>1 DEF Ok, WellFormed, Ordered
  <2>4. readableBytes(e) = readableBytes(x)
    BY <2>2 DEF readableBytes
  <2>5. \A i \in 1..readableBytes(x) : e.cell[e.reader + i - 1] = x.cell[x.reader + i - 1]
    <3> SUFFICES ASSUME NEW i \in 1..readableBytes(x), NEW p, p = x.reader + i - 1
                 PROVE  e.cell[p] = x.cell[p]
      BY <2>2
    <3>1. readableBytes(x) = x.writer - x.reader
      BY DEF readableBytes
    <3>2. p \in Int /\ 0 <= p /\ p <= x.writer - 1
      BY <1>0, <3>1
    <3>3. p \in Cells(x.size) /\ p \in Cells(x.writer + len)
      BY <1>0, <3>2 DEF Cells
    <3> QED
      BY <2>2, <3>3
  <2>6. Readable(e) = Readable(x)
    BY <2>4, <2>5 DEF Readable
  <2>7. e.size < kCheapPrepend + readableBytes(x) + len + len
    BY <1>0, <1>2, <2>2
       DEF SpaceMissing, writableBytes, prependableBytes, readableBytes
  <2>8. e.writer + len <= e.size
    BY <1>0, <2>2
  <2> QED
    BY <2>3, <2>4, <2>6, <2>7, <2>8 DEF e
<1>3. CASE writableBytes(x) < len /\ ~SpaceMissing(x, len)
  <2>1. e = MoveToFront(x)
    BY <1>3 DEF ensureWriteableBytes, makeSpace
  <2>2. /\ e.size = x.size /\ e.reader = kCheapPrepend
        /\ e.writer = kCheapPrepend + readableBytes(x)
        /\ e = [cell |-> e.cell, size |-> e.size, reader |-> e.reader, writer |-> e.writer]
        /\ e.cell = [c \in Cells(x.size) |->
               IF c \in kCheapPrepend..kCheapPrepend + readableBytes(x) - 1
               THEN x.cell[c - kCheapPrepend + x.reader] ELSE x.cell[c]]
    BY <2>1 DEF MoveToFront
  <2> HIDE DEF e
  <2>3. readableBytes(x) = x.writer - x.reader /\ readableBytes(x) \in Nat
    BY <1>0 DEF readableBytes
  <2>4. e.cell \in [Cells(e.size) -> Nat]
    <3>1. ASSUME NEW c \in Cells(x.size)
          PROVE  (IF c \in kCheapPrepend..kCheapPrepend + readableBytes(x) - 1
                  THEN x.cell[c - kCheapPrepend + x.reader] ELSE x.cell[c]) \in Nat
      <4>1. CASE c \in kCheapPrepend..kCheapPrepend + readableBytes(x) - 1
        <5>1. c \in Int /\ kCheapPrepend <= c /\ c <= kCheapPrepend + readableBytes(x) - 1
          BY <1>0, <2>3, <4>1
        <5>2. c - kCheapPrepend + x.reader \in Cells(x.size)
          BY <1>0, <2>3, <5>1 DEF Cells
        <5> QED
          BY <1>a, <4>1, <5>2
      <4>2. CASE c \notin kCheapPrepend..kCheapPrepend + readableBytes(x) - 1
        BY <1>a, <4>2
      <4> QED
        BY <4>1, <4>2
    <3> QED
      BY <2>2, <3>1
  <2>5. Ok(e)
    BY <1>0, <2>2, <2>3, <2>4 DEF Ok, WellFormed, Ordered
  <2>6. readableBytes(e) = readableBytes(x)
    BY <1>0, <2>2, <2>3 DEF readableBytes
  <2>7. \A i \in 1..readableBytes(x) : e.cell[e.reader + i - 1] = x.cell[x.reader + i - 1]
    <3> SUFFICES ASSUME NEW i \in 1..readableBytes(x)
                 PROVE  e.cell[e.reader + i - 1] = x.cell[x.reader + i - 1]
      OBVIOUS
    <3>1. /\ kCheapPrepend + i - 1 \in kCheapPrepend..kCheapPrepend + readableBytes(x) - 1
          /\ kCheapPrepend + i - 1 \in Cells(x.size)
          /\ (kCheapPrepend + i - 1) - kCheapPrepend + x.reader = x.reader + i - 1
      BY <1>0, <2>3 DEF Cells
    <3> QED
      BY <2>2, <3>1
  <2>8. Readable(e) = Readable(x)
    BY <2>6, <2>7 DEF Readable
  <2>9. e.writer + len <= e.size
    BY <1>0, <1>3, <2>2, <2>3 DEF SpaceMissing, writableBytes, prependableBytes
  <2> QED
    BY <1>0, <2>2, <2>5, <2>6, <2>8, <2>9 DEF e
<1> QED
  BY <1>0, <1>1, <1>2, <1>3 DEF writableBytes

(* append adds the new bytes behind the readable ones.                     *)
LEMMA AppendOk ==
  ASSUME NEW x, Ok(x), NEW from \in Nat, NEW len \in Nat
  PROVE  LET y == append(x, from, len)
         IN  /\ Ok(y)
             /\ Readable(y) = Readable(x) \o BQ!Numbered(from, len)
             /\ y.size > x.size => y.size < kCheapPrepend + readableBytes(y) + len
             /\ readableBytes(y) = readableBytes(x) + len
<1> DEFINE e == ensureWriteableBytes(x, len)
           y == append(x, from, len)
<1>1. /\ Ok(e) /\ e.writer + len <= e.size
      /\ Readable(e) = Readable(x) /\ readableBytes(e) = readableBytes(x)
      /\ e.size > x.size => e.size < kCheapPrepend + readableBytes(x) + len + len
  BY EnsureOk
<1>2. y = CopyIn(e, from, len)
  BY DEF append
<1> HIDE DEF e, y
<1>3. /\ Ok(y) /\ Readable(y) = Readable(e) \o BQ!Numbered(from, len)
      /\ y.size = e.size /\ y.writer = e.writer + len /\ y.reader = e.reader
  BY <1>1, <1>2, CopyInOk
<1>4. readableBytes(y) = readableBytes(x) + len
  <2>1. e.writer \in Nat /\ e.reader \in Nat
    BY <1>1 DEF Ok, WellFormed
  <2>2. readableBytes(x) = e.writer - e.reader
    BY <1>1 DEF readableBytes
  <2> QED
    BY <1>3, <2>1, <2>2 DEF readableBytes
<1>5. readableBytes(x) \in Nat
  BY ReadableSeq
<1>6. y.size > x.size => y.size < kCheapPrepend + readableBytes(y) + len
  BY <1>1, <1>3, <1>4, <1>5, SizeAssumption
<1> QED
  BY <1>1, <1>3, <1>4, <1>6 DEF y

(* Two consecutive runs of numbered bytes are one run.                     *)
LEMMA NumberedSplit ==
  ASSUME NEW from \in Nat, NEW m \in Nat, NEW n \in Nat
  PROVE  BQ!Numbered(from, m) \o BQ!Numbered(from + m, n) = BQ!Numbered(from, m + n)
<1> DEFINE p == BQ!Numbered(from, m)
           q == BQ!Numbered(from + m, n)
           l == p \o q
           r == BQ!Numbered(from, m + n)
<1>1. /\ p \in Seq(Nat) /\ Len(p) = m /\ \A i \in 1..m : p[i] = from + i
      /\ q \in Seq(Nat) /\ Len(q) = n /\ \A i \in 1..n : q[i] = from + m + i
      /\ r \in Seq(Nat) /\ Len(r) = m + n /\ \A i \in 1..m + n : r[i] = from + i
  BY DEF BQ!Numbered
<1> HIDE DEF p, q, r
<1>2. /\ l \in Seq(Nat) /\ Len(l) = Len(p) + Len(q)
      /\ \A i \in 1..Len(p) + Len(q) :
           l[i] = IF i <= Len(p) THEN p[i] ELSE q[i - Len(p)]
  BY <1>1, ConcatProperties
<1> HIDE DEF l
<1>3. ASSUME NEW i \in 1..Len(l) PROVE l[i] = r[i]
  <2>1. i \in 1..m + n /\ i \in Int
    BY <1>1, <1>2
  <2>2. CASE i <= m
    BY <1>1, <1>2, <2>1, <2>2
  <2>3. CASE i > m
    <3>1. i - m \in 1..n /\ ~(i <= m)
      BY <2>1, <2>3
    <3>2. q[i - m] = from + m + (i - m)
      BY <1>1, <3>1
    <3> QED
      BY <1>1, <1>2, <2>1, <3>1, <3>2
  <2> QED
    BY <2>1, <2>2, <2>3
<1>4. l = r
  BY <1>1, <1>2, <1>3, SeqEqual
<1> QED
  BY <1>4 DEF l, p, q, r

(* readFd: filling the vector and appending the rest is one append.        *)
LEMMA ReadFdOk ==
  ASSUME NEW x, Ok(x), NEW from \in Nat, NEW n \in Nat
  PROVE  LET y == readFd(x, from, n)
         IN  /\ Ok(y)
             /\ Readable(y) = Readable(x) \o BQ!Numbered(from, n)
             /\ y.size > x.size => y.size < kCheapPrepend + readableBytes(y) + n
<1> DEFINE w == writableBytes(x)
           f == CopyIn(x, from, w)
           y == readFd(x, from, n)
<1>0. w \in Nat /\ x.writer + w = x.size /\ x.size \in Nat /\ x.writer \in Nat
  BY DEF writableBytes, Ok, WellFormed, Ordered
<1>1. CASE n <= w
  <2>1. y = CopyIn(x, from, n) /\ x.writer + n <= x.size
    BY <1>0, <1>1 DEF readFd
  <2> HIDE DEF y
  <2>2. /\ Ok(y) /\ Readable(y) = Readable(x) \o BQ!Numbered(from, n)
        /\ y.size = x.size
    BY <2>1, CopyInOk
  <2> QED
    BY <1>0, <2>2 DEF y
<1>2. CASE n > w
  <2>1. y = append(f, from + w, n - w)
    BY <1>0, <1>2 DEF readFd
  <2> HIDE DEF y
  <2>2. /\ Ok(f) /\ Readable(f) = Readable(x) \o BQ!Numbered(from, w)
        /\ f.size = x.size
    <3> HIDE DEF w
    <3> QED
      BY <1>0, CopyInOk
  <2> HIDE DEF f, w
  <2>3. from + w \in Nat /\ n - w \in Nat
    BY <1>0, <1>2
  <2>4. /\ Ok(y)
        /\ Readable(y) = Readable(f) \o BQ!Numbered(from + w, n - w)
        /\ y.size > f.size => y.size < kCheapPrepend + readableBytes(y) + (n - w)
    BY <2>1, <2>2, <2>3, AppendOk
  <2>5. BQ!Numbered(from, w) \o BQ!Numbered(from + w, n - w) = BQ!Numbered(from, n)
    <3>1. w + (n - w) = n
      BY <1>0
    <3>2. BQ!Numbered(from, w) \o BQ!Numbered(from + w, n - w)
            = BQ!Numbered(from, w + (n - w))
      BY <1>0, <2>3, NumberedSplit
    <3> QED
      BY <3>1, <3>2, Zenon
  <2>6. /\ BQ!Numbered(from, w) \in Seq(Nat) /\ BQ!Numbered(from + w, n - w) \in Seq(Nat)
        /\ Readable(x) \in Seq(Nat)
    BY <1>0, <2>3, ReadableSeq DEF BQ!Numbered
  <2>7. Readable(y) = Readable(x) \o BQ!Numbered(from, n)
    <3>1. (Readable(x) \o BQ!Numbered(from, w)) \o BQ!Numbered(from + w, n - w)
            = Readable(x) \o (BQ!Numbered(from, w) \o BQ!Numbered(from + w, n - w))
      BY <2>6, ConcatAssociative
    <3> QED
      BY <2>2, <2>4, <2>5, <3>1, Zenon
  <2>8. readableBytes(y) \in Nat /\ y.size \in Nat
    BY <2>4, ReadableSeq DEF Ok, WellFormed
  <2>9. y.size > x.size => y.size < kCheapPrepend + readableBytes(y) + n
    BY <1>0, <1>2, <2>2, <2>4, <2>8, SizeAssumption
  <2> QED
    BY <2>4, <2>7, <2>9 DEF y
<1> QED
  BY <1>0, <1>1, <1>2

(* retrieve drops the first bytes.                                         *)
LEMMA RetrieveOk ==
  ASSUME NEW x, Ok(x), NEW len \in Nat, len <= readableBytes(x)
  PROVE  LET y == retrieve(x, len)
         IN  /\ Ok(y) /\ y.size = x.size
             /\ Readable(y) = SubSeq(Readable(x), len + 1, Len(Readable(x)))
<1> DEFINE y == retrieve(x, len)
           s == SubSeq(Readable(x), len + 1, Len(Readable(x)))
<1>0. /\ x.size \in Nat /\ x.reader \in Nat /\ x.writer \in Nat
      /\ x.reader <= x.writer /\ x.writer <= x.size /\ kCheapPrepend <= x.reader
      /\ kCheapPrepend \in Nat /\ readableBytes(x) = x.writer - x.reader
  BY SizeAssumption DEF Ok, WellFormed, Ordered, readableBytes
<1>1. /\ Readable(x) \in Seq(Nat) /\ Len(Readable(x)) = readableBytes(x)
      /\ readableBytes(x) \in Nat
  BY ReadableSeq
<1>2. CASE len = readableBytes(x)
  <2>1. /\ y.size = x.size /\ y.reader = kCheapPrepend /\ y.writer = kCheapPrepend
        /\ y.cell = x.cell
        /\ y = [cell |-> y.cell, size |-> y.size, reader |-> y.reader, writer |-> y.writer]
    <3>1. ~(len < readableBytes(x))
      BY <1>1, <1>2
    <3>2. y = [x EXCEPT !.reader = kCheapPrepend, !.writer = kCheapPrepend]
      BY <3>1 DEF retrieve
    <3>3. x = [cell |-> x.cell, size |-> x.size, reader |-> x.reader, writer |-> x.writer]
      BY DEF Ok, WellFormed
    <3> HIDE DEF y
    <3> QED
      BY <3>2, <3>3
  <2> HIDE DEF y
  <2>2. Ok(y)
    BY <1>0, <2>1 DEF Ok, WellFormed, Ordered
  <2>3. readableBytes(y) = 0
    BY <1>0, <2>1 DEF readableBytes
  <2>4. Readable(y) \in Seq(Nat) /\ Len(Readable(y)) = 0
    BY <2>2, <2>3, ReadableSeq
  <2>5. Readable(y) = <<>>
    BY <2>4, EmptySeq
  <2>6. s = <<>>
    BY <1>1, <1>2, SubSeqEmpty
  <2> QED
    BY <2>1, <2>2, <2>5, <2>6 DEF y
<1>3. CASE len < readableBytes(x)
  <2>1. /\ y.size = x.size /\ y.reader = x.reader + len /\ y.writer = x.writer
        /\ y.cell = x.cell
        /\ y = [cell |-> y.cell, size |-> y.size, reader |-> y.reader, writer |-> y.writer]
    BY <1>3 DEF retrieve, Ok, WellFormed
  <2> HIDE DEF y
  <2>2. Ok(y)
    BY <1>0, <1>3, <2>1 DEF Ok, WellFormed, Ordered
  <2>3. readableBytes(y) = readableBytes(x) - len
    BY <1>0, <2>1 DEF readableBytes
  <2>4. Readable(y) \in Seq(Nat) /\ Len(Readable(y)) = readableBytes(x) - len
    BY <2>2, <2>3, ReadableSeq
  <2>5. /\ s \in Seq(Nat) /\ Len(s) = readableBytes(x) - len
        /\ \A i \in 1..readableBytes(x) - len : s[i] = Readable(x)[len + i]
    <3>1. \A i \in len + 1..Len(Readable(x)) : Readable(x)[i] \in Nat
      BY <1>1, ElementOfSeq
    <3>2. /\ s \in Seq(Nat)
          /\ Len(s) = IF len + 1 <= Len(Readable(x)) THEN Len(Readable(x)) - (len + 1) + 1 ELSE 0
          /\ \A i \in 1..Len(Readable(x)) - (len + 1) + 1 :
               s[i] = Readable(x)[(len + 1) + i - 1]
      <4>1. len + 1 \in Int /\ Len(Readable(x)) \in Int
        BY <1>1
      <4> QED
        BY <3>1, <4>1, SubSeqProperties
    <3> HIDE DEF s
    <3>3. Len(Readable(x)) - (len + 1) + 1 = readableBytes(x) - len
      BY <1>1
    <3> QED
      BY <1>1, <1>3, <3>2, <3>3
  <2> HIDE DEF s
  <2>6. ASSUME NEW i \in 1..Len(Readable(y)) PROVE Readable(y)[i] = s[i]
    <3>1. i \in Int /\ 1 <= i /\ i <= readableBytes(x) - len
      BY <1>1, <2>4
    <3>2. len + i \in 1..readableBytes(x) /\ i \in 1..readableBytes(y)
      BY <1>1, <2>3, <3>1
    <3>3. Readable(x)[len + i] = x.cell[x.reader + (len + i) - 1]
      BY <3>2 DEF Readable
    <3>4. Readable(y)[i] = x.cell[x.reader + len + i - 1]
      BY <2>1, <3>2 DEF Readable
    <3>5. x.reader + (len + i) - 1 = x.reader + len + i - 1
      BY <1>0, <3>1
    <3>6. s[i] = Readable(x)[len + i]
      BY <1>1, <2>5, <3>1
    <3> QED
      BY <3>3, <3>4, <3>5, <3>6
  <2>7. Readable(y) = s
    BY <2>4, <2>5, <2>6, SeqEqual
  <2> QED
    BY <2>1, <2>2, <2>7 DEF y, s
<1> QED
  BY <1>1, <1>2, <1>3

-----------------------------------------------------------------------------
BInv == Ok(b) /\ count \in Nat

(* A fresh buffer is well formed.                                          *)
LEMMA InitBInv == Init => BInv /\ BQ!Init
<1> SUFFICES ASSUME Init PROVE BInv /\ BQ!Init
  OBVIOUS
<1>1. Ok(b) /\ count = 0
  BY SizeAssumption DEF Init, Empty, Ok, WellFormed, Ordered, Cells
<1>2. Readable(b) \in Seq(Nat) /\ Len(Readable(b)) = 0
  <2>1. readableBytes(b) = 0
    BY SizeAssumption DEF Init, Empty, readableBytes
  <2> QED
    BY <1>1, <2>1, ReadableSeq
<1> QED
  BY <1>1, <1>2, EmptySeq DEF BInv, BQ!Init

(* One step: the invariant is kept, the vector grows only when full, and   *)
(* the step is one of ByteQueue.                                           *)
LEMMA StepBInv ==
  ASSUME BInv, [Next]_vars
  PROVE  /\ BInv'
         /\ b'.size > b.size => b'.size < kCheapPrepend + readableBytes(b') + (count' - count)
         /\ [BQ!Next]_<<Readable(b), count>>
<1>0. b.size \in Nat
  BY DEF BInv, Ok, WellFormed
<1>1. ASSUME NEW n \in 0..MaxBytes, AppendData(n) \/ ReadFd(n)
      PROVE  /\ BInv'
             /\ b'.size > b.size =>
                  b'.size < kCheapPrepend + readableBytes(b') + (count' - count)
             /\ [BQ!Next]_<<Readable(b), count>>
  <2>1. /\ Ok(b')
        /\ Readable(b') = Readable(b) \o BQ!Numbered(count, n)
        /\ b'.size > b.size => b'.size < kCheapPrepend + readableBytes(b') + n
        /\ count' = count + n /\ count + n <= MaxBytes
    <3>0. n \in Nat /\ Ok(b) /\ count \in Nat
      BY SizeAssumption DEF BInv
    <3>1. CASE AppendData(n)
      BY <3>0, <3>1, AppendOk DEF AppendData
    <3>2. CASE ReadFd(n)
      BY <3>0, <3>2, ReadFdOk DEF ReadFd
    <3> QED
      BY <1>1, <3>1, <3>2
  <2>2. BQ!Put(n)
    BY <2>1 DEF BQ!Put
  <2>3. count' - count = n /\ count' \in Nat
    BY <2>1, SizeAssumption DEF BInv
  <2> QED
    BY <2>1, <2>2, <2>3 DEF BInv, BQ!Next
<1>2. ASSUME NEW n \in 0..MaxBytes, Retrieve(n)
      PROVE  BInv' /\ b'.size = b.size /\ [BQ!Next]_<<Readable(b), count>>
  <2>1. /\ Ok(b') /\ b'.size = b.size /\ count' = count
        /\ Readable(b') = SubSeq(Readable(b), n + 1, Len(Readable(b)))
    BY <1>2, RetrieveOk, SizeAssumption DEF Retrieve, BInv
  <2>2. n <= Len(Readable(b))
    BY <1>2, ReadableSeq DEF Retrieve, BInv
  <2>3. BQ!Take(n)
    BY <2>1, <2>2 DEF BQ!Take
  <2> QED
    BY <2>1, <2>3 DEF BInv, BQ!Next
<1>3. CASE UNCHANGED vars
  BY <1>0, <1>3 DEF vars, BInv, Readable, readableBytes
<1> QED
  BY <1>0, <1>1, <1>2, <1>3 DEF Next

(* Types and the order of the indices: no unsigned wrap-around and no      *)
(* access outside the vector (Buffer.cpp:16-26,119-128).                   *)
THEOREM IndicesInOrder == Spec => [](TypeOK /\ IndicesOrdered)
<1>1. BInv => TypeOK /\ IndicesOrdered
  BY DEF BInv, Ok, TypeOK, IndicesOrdered
<1>2. BInv /\ [Next]_vars => BInv'
  BY StepBInv
<1> QED
  BY InitBInv, <1>1, <1>2, PTL DEF Spec

(* The vector grows only when the data does not fit (Buffer.cpp:119-128).  *)
THEOREM GrowthBounded == Spec => GrowsOnlyWhenFull
<1>1. BInv /\ [Next]_vars => BInv'
  BY StepBInv
<1>2. BInv /\ [Next]_vars =>
        [b'.size > b.size =>
           b'.size < kCheapPrepend + readableBytes(b') + (count' - count)]_vars
  BY StepBInv
<1> QED
  BY InitBInv, <1>1, <1>2, PTL DEF Spec, GrowsOnlyWhenFull

(* Buffer is a FIFO of bytes (Buffer.cpp:38-128).                          *)
THEOREM BufferIsQueue == Spec => ImplementsByteQueue
<1>1. BInv /\ [Next]_vars => BInv' /\ [BQ!Next]_<<Readable(b), count>>
  BY StepBInv
<1> QED
  BY InitBInv, <1>1, PTL DEF Spec, ImplementsByteQueue, BQ!Spec
=============================================================================
