------------------------- MODULE MCPayoutExecution -------------------------
(* Small instances of PayoutExecution for TLC. *)
EXTENDS PayoutExecution, TLC

CONSTANTS p1, p2, o1, o2, o3, s1, i1, i2

MCStripe == [w \in Withdrawals |-> {"stripe"}]
MCMixed == [w \in Withdrawals |-> IF w = p1 THEN {"stripe", "manual"} ELSE {"manual"}]
MCAmount == [w \in Withdrawals |-> IF w = p1 THEN 1 ELSE 2]

LaneSymmetry == Permutations(OperatorLanes) \cup Permutations(InboxLanes)
=============================================================================
