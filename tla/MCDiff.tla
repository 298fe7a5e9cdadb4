-------------------------------- MODULE MCDiff --------------------------------
(***************************************************************************)
(* Diff with named lines, which are interchangeable.                       *)
(***************************************************************************)
EXTENDS Diff, TLC

CONSTANTS l1, l2, l3

LineNames == Permutations(Lines)
=============================================================================
