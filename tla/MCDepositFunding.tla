-------------------------- MODULE MCDepositFunding --------------------------
(* Small instances of DepositFunding for TLC. *)
EXTENDS DepositFunding, TLC

CONSTANTS d1, d2, c1, c2, h1, h2, w1, w2

MCCredit == [d \in Deposits |-> IF d = d1 THEN 1 ELSE 2]

Runtime(finance, stripe, key) ==
  [finance |-> finance, stripe |-> stripe, recoveryKey |-> key]

MCRuntimeNormal == {Runtime("normal", TRUE, "ok")}
MCRuntimesAll == {Runtime("normal", TRUE, "ok"), Runtime("locked", TRUE, "ok"),
                  Runtime("recovery_only", TRUE, "missing"),
                  Runtime("recovery_only", FALSE, "mismatch")}

LaneSymmetry == Permutations(CheckoutLanes) \cup Permutations(WebhookLanes)
                  \cup Permutations(WorkerLanes)
=============================================================================
