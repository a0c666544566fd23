------------------------------ MODULE MCStock ------------------------------
(* Stock with one ingredient and one product, whose recipe may be edited.  *)
EXTENDS Stock, TLC

Symmetry == Permutations(Orders) \cup Permutations(Lines)
=============================================================================
