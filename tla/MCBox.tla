------------------------------- MODULE MCBox -------------------------------
(* Box at a type with two Box members. *)
EXTENDS Box, TLC

Symmetry == Permutations(Slot) \cup Permutations(Cell) \cup Permutations(Field)
=============================================================================
