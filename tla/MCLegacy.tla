----------------------------- MODULE MCLegacy ------------------------------
(* Legacy with interchangeable requests: one order with everything that    *)
(* may happen to it, and a plain one beside it.                            *)
EXTENDS Legacy, TLC

Symmetry == Permutations(Workers)
=============================================================================
