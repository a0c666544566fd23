------------------------------ MODULE MCOutbox ------------------------------
(* Two overlapping runs of the publisher and one screen at an outlet.       *)
EXTENDS Outbox
=============================================================================
