------------------------------ MODULE MCConsole ------------------------------
(* Console for TLC: the characters one can type are interchangeable. *)
EXTENDS Console, TLC

CharSymmetry == Permutations(Chars)
=============================================================================
