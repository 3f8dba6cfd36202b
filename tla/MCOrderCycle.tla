----------------------------- MODULE MCOrderCycle -----------------------------
(* Instances of OrderCycle for TLC: the values are in the .cfg files.        *)
EXTENDS OrderCycle
=============================================================================
