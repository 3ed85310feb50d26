------------------------------ MODULE MCDatabase ------------------------------
(* Database for TLC: two I/O loops and the base loop.                      *)
EXTENDS Database, TLC

\* Loops, names and passwords are interchangeable.
Symmetric == Permutations(IOLoops) \cup Permutations(Users) \cup Permutations(Passwords)

\* Bound: what follows a data race on the user handle is not explored.  All
\* that is stated of users is silent from then on.
UserHandleSound == "user" \notin torn
=============================================================================
