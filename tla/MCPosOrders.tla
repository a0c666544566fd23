---------------------------- MODULE MCPosOrders ----------------------------
(* PosOrders on a small outlet.                                            *)
EXTENDS PosOrders, TLC

\* Rows, tables and session ids are interchangeable.
Symmetry == Permutations(Orders) \cup Permutations(Lines)
              \cup Permutations(Tables) \cup Permutations(Sessions)
=============================================================================
