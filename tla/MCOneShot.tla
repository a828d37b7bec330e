------------------------------ MODULE MCOneShot -----------------------------
(* OneShot on three objects and five heap cells. *)
EXTENDS OneShot, TLC

Symmetry == Permutations(Slot) \cup Permutations(Target)
=============================================================================
