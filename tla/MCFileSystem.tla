---------------------------- MODULE MCFileSystem ----------------------------
(* FileSystem on disks small enough for TLC. *)
EXTENDS FileSystem, TLC

NameSymmetry == Permutations(Names)

(* The places where a reset can fall, for the runs that allow one. *)
AnyPoint == Pcs \ {"boot"}
(* Everywhere but between the first cleared bit and the erased entry. *)
NotWhileRemoving == AnyPoint \ {"clear", "next", "erase"}

(* New disks, with the same word everywhere: zeros or ones.                *)
Filled(w) == [f \in Frames |-> w]
NewDisks  == {Filled(w) : w \in EndOfChain}
(* Used disks: the words are text, or the number of a region, or of one    *)
(* that runs over the end of the bitmap.  Those of the first region may    *)
(* lead to others, and these on, back and round in a circle.               *)
Leftovers == {RegionSize, NumFrames - 1, Junk}
UsedDisks ==
  {[f \in Frames |-> IF f < RegionSize THEN v ELSE w] : v, w \in Leftovers}
NewAndUsedDisks == NewDisks \cup UsedDisks
TextDisk  == {Filled(Junk)}
FrameDisk == {Filled(NumFrames - 1)}
=============================================================================
