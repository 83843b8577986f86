------------------------------ MODULE MCBrands ------------------------------
(* Requests are interchangeable. *)
EXTENDS Brands, TLC

Symmetry == Permutations(Requests)
=============================================================================
