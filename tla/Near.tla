--------------------------------- MODULE Near ---------------------------------
(***************************************************************************)
(* Which texts diff.c is known to compare within its arrays: Diff shows it *)
(* of them (NearStaysInside), and Accounts takes it from there.            *)
(***************************************************************************)
EXTENDS Integers

\* Two texts of n and m lines, equal at the places (i, j) of "same": lines in common
\* at their start and at their end leave two lines of each at most, or none of one.
Near(n, m, same) ==
  \E p \in 0..n, q \in 0..n :
    LET x == n - p - q y == m - p - q IN
    /\ x >= 0 /\ y >= 0
    /\ \A i \in 1..p : <<i, i>> \in same
    /\ \A i \in 1..q : <<n + 1 - i, m + 1 - i>> \in same
    /\ x = 0 \/ y = 0 \/ (x <= 2 /\ y <= 2)
=============================================================================
