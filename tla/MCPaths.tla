------------------------------ MODULE MCPaths ------------------------------
(* Paths of up to two words, with the root and the two that go nowhere. *)
EXTENDS Paths, TLC

Words == Names \cup {".", ".."}
Typed ==
  [abs : BOOLEAN, parts : UNION {[1 .. k -> Words] : k \in 0 .. 2}]

NameSymmetry == Permutations(Names)
=============================================================================
