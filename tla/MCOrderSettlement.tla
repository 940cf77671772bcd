------------------------- MODULE MCOrderSettlement -------------------------
(* Small instances of OrderSettlement for TLC. *)
EXTENDS OrderSettlement, TLC

CONSTANTS a, b, r1, s1, s2

MCGross == [o \in Orders |-> IF o = a THEN 2 ELSE 3]
MCFee == [o \in Orders |-> 1]

\* Bound: the order is flagged for its URL, or its delivery fails, not both.
OneConcern == \A o \in Orders : reuse = 0 \/ delivery[o].version = 0

=============================================================================
