---------------------------- MODULE MCSettlement ----------------------------
(* Settlement with small amounts; the cfgs choose how many orders share     *)
(* the customer's account and how coarse cash rounding is.                  *)
EXTENDS Settlement
=============================================================================
