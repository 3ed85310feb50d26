-------------------------------- MODULE MCChat --------------------------------
(* Chat for TLC: two I/O loops with one connection each.                   *)
EXTENDS Chat, TLC

CONSTANTS l1, l2, c1, c2

MCLoopOf == c1 :> l1 @@ c2 :> l2

\* Users are only compared, and so are the two loops, each with its client.
Swap == c1 :> c2 @@ c2 :> c1 @@ l1 :> l2 @@ l2 :> l1
ChatSymmetry == {p @@ q : p \in Permutations(Users), q \in {Swap, [x \in DOMAIN Swap |-> x]}}

\* Bound: logins and messages together.
LoginsAndMessages == logins + sent <= 4
=============================================================================
