-------------------------------- MODULE Buffer --------------------------------
(***************************************************************************)
(* mymuduo/Buffer: a vector<char> with a reader and a writer index.  Its   *)
(* methods are operators on a record, composed as the methods call each    *)
(* other.  Bytes are numbered as they are appended; a cell that was never  *)
(* written holds 0.                                                        *)
(*                                                                         *)
(* The indices are size_t in the code and integers here.  Under            *)
(* IndicesOrdered every subtraction is of a smaller number from a larger   *)
(* one, so that invariant is also what rules out wrap-around.              *)
(***************************************************************************)
EXTENDS Integers, Sequences

CONSTANTS kCheapPrepend,  \* 8 in the code
          kInitialSize,   \* 1024
          ExtraSize,      \* sizeof extrabuf in readFd, 65536
          MaxBytes        \* bound on the bytes appended in one behaviour

ASSUME SizeAssumption ==
  /\ kCheapPrepend \in Nat /\ kInitialSize \in Nat
  /\ ExtraSize \in Nat /\ MaxBytes \in Nat

VARIABLES b,      \* [cell: buffer_, size: its size(), reader: readerIndex_,
                  \*  writer: writerIndex_]
          count   \* how many bytes were ever appended

vars == <<b, count>>

Cells(n) == 0..n - 1

readableBytes(x) == x.writer - x.reader
writableBytes(x) == x.size - x.writer
prependableBytes(x) == x.reader

\* The bytes from peek() to beginWrite().
Readable(x) == [i \in 1..readableBytes(x) |-> x.cell[x.reader + i - 1]]

Empty ==
  [cell |-> [c \in Cells(kCheapPrepend + kInitialSize) |-> 0],
   size |-> kCheapPrepend + kInitialSize,
   reader |-> kCheapPrepend, writer |-> kCheapPrepend]

-----------------------------------------------------------------------------
\* std::copy of the bytes numbered from+1 .. from+len to the cells from the
\* writer on, and the writer moved behind them.
CopyIn(x, from, len) ==
  [cell |-> [c \in Cells(x.size) |->
               IF c \in x.writer..x.writer + len - 1 THEN from + (c - x.writer) + 1
                                                     ELSE x.cell[c]],
   size |-> x.size, reader |-> x.reader, writer |-> x.writer + len]

\* Fault: the test counts the prepend area as free.
SpaceMissingPrepend(x, len) == writableBytes(x) + prependableBytes(x) < len

\* Fault: space in front of the reader is never reused.
SpaceMissingAlways(x, len) == TRUE

SpaceMissing(x, len) == writableBytes(x) + prependableBytes(x) - kCheapPrepend < len

\* buffer_.resize(n).
Resize(x, n) ==
  [cell |-> [c \in Cells(n) |-> IF c \in Cells(x.size) THEN x.cell[c] ELSE 0],
   size |-> n, reader |-> x.reader, writer |-> x.writer]

\* Fault: the indices are moved and the bytes are not.
MoveToFrontWrong(x) ==
  [cell |-> x.cell, size |-> x.size,
   reader |-> kCheapPrepend, writer |-> kCheapPrepend + readableBytes(x)]

\* The other branch of makeSpace.
MoveToFront(x) ==
  [cell |-> [c \in Cells(x.size) |->
               IF c \in kCheapPrepend..kCheapPrepend + readableBytes(x) - 1
               THEN x.cell[c - kCheapPrepend + x.reader] ELSE x.cell[c]],
   size |-> x.size,
   reader |-> kCheapPrepend, writer |-> kCheapPrepend + readableBytes(x)]

makeSpace(x, len) ==
  IF SpaceMissing(x, len) THEN Resize(x, x.writer + len) ELSE MoveToFront(x)

ensureWriteableBytes(x, len) ==
  IF writableBytes(x) < len THEN makeSpace(x, len) ELSE x

append(x, from, len) == CopyIn(ensureWriteableBytes(x, len), from, len)

\* retrieve and retrieveAll.
retrieve(x, len) ==
  IF len < readableBytes(x)
  THEN [x EXCEPT !.reader = @ + len]
  ELSE [x EXCEPT !.reader = kCheapPrepend, !.writer = kCheapPrepend]

\* readv fills the writable bytes first, then the stack buffer, which is
\* offered only when the writable part is the smaller one.
ReadLimit(x) ==
  writableBytes(x) + (IF writableBytes(x) < ExtraSize THEN ExtraSize ELSE 0)

\* readFd after readv returned n >= 0.
readFd(x, from, n) ==
  IF n <= writableBytes(x) THEN CopyIn(x, from, n)
  ELSE append(CopyIn(x, from, writableBytes(x)),
              from + writableBytes(x), n - writableBytes(x))

-----------------------------------------------------------------------------
Init == b = Empty /\ count = 0

AppendData(len) ==
  /\ count + len <= MaxBytes
  /\ b' = append(b, count, len)
  /\ count' = count + len

ReadFd(n) ==
  /\ count + n <= MaxBytes /\ n <= ReadLimit(b)
  /\ b' = readFd(b, count, n)
  /\ count' = count + n

\* retrieve by the amount a frame or a write() took, and, through
\* retrieveAsString, of everything: callers never ask for more than there is.
Retrieve(len) ==
  /\ len <= readableBytes(b)
  /\ b' = retrieve(b, len)
  /\ UNCHANGED count

Next == \E n \in 0..MaxBytes : AppendData(n) \/ ReadFd(n) \/ Retrieve(n)

Spec == Init /\ [][Next]_vars

-----------------------------------------------------------------------------
(* Types: the vector has a cell for every number below its size            *)
(* (Buffer.cpp:11-14,119-128).                                             *)
WellFormed(x) ==
  /\ x = [cell |-> x.cell, size |-> x.size, reader |-> x.reader, writer |-> x.writer]
  /\ x.size \in Nat /\ x.reader \in Nat /\ x.writer \in Nat
  /\ x.cell \in [Cells(x.size) -> Nat]

TypeOK == WellFormed(b) /\ count \in Nat

Ordered(x) == kCheapPrepend <= x.reader /\ x.reader <= x.writer /\ x.writer <= x.size

(* kCheapPrepend <= readerIndex_ <= writerIndex_ <= size(): no unsigned    *)
(* difference of Buffer.cpp:16-26,120 wraps around, and peek() and         *)
(* beginWrite() stay inside the vector.                                    *)
IndicesOrdered == Ordered(b)

(* The vector grows only when the data really does not fit: after growing, *)
(* it exceeds the prepend area and the data it holds by less than the      *)
(* append that made it grow (Buffer.cpp:119-128), so a connection whose    *)
(* reader keeps up never makes its buffers creep upwards.                  *)
GrowsOnlyWhenFull ==
  [][b'.size > b.size =>
       b'.size < kCheapPrepend + readableBytes(b') + (count' - count)]_vars

(* The bytes come out in the order they went in, across compaction,        *)
(* growth and the two-part read of readFd (Buffer.cpp:38-128).             *)
BQ == INSTANCE ByteQueue WITH queue <- Readable(b)

ImplementsByteQueue == BQ!Spec
=============================================================================
