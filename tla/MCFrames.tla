------------------------------ MODULE MCFrames ------------------------------
(* Frames of two bytes, so that the bitmap takes more than one. *)
EXTENDS Frames, Sequences

Region(base, length, usable) == [base |-> base, length |-> length, usable |-> usable]

(* The bitmap fits the first usable region; it fills the first one it fits *)
(* after a smaller one; it leaves part of its last frame unused; the       *)
(* highest region is not usable; all usable memory is the bitmap's.        *)
Maps ==
  {<<Region(0, 2, FALSE), Region(2, 18, TRUE)>>,
   <<Region(2, 2, TRUE), Region(6, 4, TRUE), Region(12, 3, FALSE), Region(20, 20, TRUE)>>,
   <<Region(2, 6, TRUE), Region(10, 18, TRUE), Region(28, 10, FALSE)>>,
   <<Region(0, 32, FALSE), Region(32, 4, TRUE), Region(36, 5, FALSE)>>}
=============================================================================
