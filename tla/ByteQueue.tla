------------------------------ MODULE ByteQueue ------------------------------
(***************************************************************************)
(* What Buffer promises TcpConnection and ChatServer: bytes come out in    *)
(* the order in which they went in, each once.  Bytes are numbered as they *)
(* are appended.                                                           *)
(***************************************************************************)
EXTENDS Naturals, Sequences

CONSTANT MaxBytes       \* bound on the bytes appended in one behaviour

VARIABLES queue,    \* the bytes inside
          count     \* how many bytes were ever appended

Numbered(from, n) == [i \in 1..n |-> from + i]

Init == queue = <<>> /\ count = 0

Put(n) ==
  /\ count + n <= MaxBytes
  /\ queue' = queue \o Numbered(count, n)
  /\ count' = count + n

Take(n) ==
  /\ n <= Len(queue)
  /\ queue' = SubSeq(queue, n + 1, Len(queue))
  /\ UNCHANGED count

Next == \E n \in 0..MaxBytes : Put(n) \/ Take(n)

Spec == Init /\ [][Next]_<<queue, count>>
=============================================================================
