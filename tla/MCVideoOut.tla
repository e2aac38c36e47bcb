----------------------------- MODULE MCVideoOut -----------------------------
(* The frames of a video port on small instances.                          *)
EXTENDS VideoOut

(* Frames differ in nothing, nor do flushing threads.                      *)
Symmetry == Permutations(Frames) \cup Permutations(Users)
=============================================================================
