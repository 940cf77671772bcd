------------------------- MODULE MCOrderFulfilment -------------------------
(* Instances of OrderFulfilment for TLC. *)
EXTENDS OrderFulfilment, TLC

CONSTANTS w1, w2, s1, u1, u2, r1, r2

MCBoth == {"PUBLISHER", "PLATFORM"}
=============================================================================
