------------------------------ MODULE MCMapStore ------------------------------
(* MapStore for TLC: maps are interchangeable, and every property is a safety
   property. *)
EXTENDS MapStore, TLC

Symmetry == Permutations(Maps)

==============================================================================
