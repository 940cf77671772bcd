-------------------------- MODULE MCPaymentDispute --------------------------
(* Small instances of PaymentDispute for TLC. *)
EXTENDS PaymentDispute, TLC

CONSTANTS d1, p1, p2, e1, e2, e3, o1, a1, a2, w1, w2

Envelope(p, amount, target) ==
  [dispute |-> p, deposit |-> d1, amount |-> amount, target |-> target]

MCCredit == [d \in Deposits |-> 3]
MCPrice == [o \in Orders |-> 2]

\* One dispute's open and close events in any order, and a third event that
\* contradicts the close or opens a second dispute of the deposit, within its
\* credit or beyond it.
MCEnvelopesCore ==
  (e1 :> {Envelope(p1, 2, "OPEN"), Envelope(p1, 1, "OPEN")}) @@
  (e2 :> {Envelope(p1, 2, "WON"), Envelope(p1, 2, "LOST")}) @@
  (e3 :> {Envelope(p2, 1, "OPEN"), Envelope(p2, 2, "OPEN"), Envelope(p1, 2, "LOST")})

\* Two event identities of one dispute: an open event that may be resent
\* malformed, and its close event.
MCEnvelopesLeases ==
  (e1 :> {Envelope(p1, 2, "OPEN"), Envelope(p1, 2, "INVALID")}) @@
  (e2 :> {Envelope(p1, 2, "LOST")})

MCRuntimesAll == {[finance |-> "normal", stripe |-> TRUE],
                  [finance |-> "recovery_only", stripe |-> FALSE],
                  [finance |-> "locked", stripe |-> TRUE]}
MCRuntimesRunning == {[finance |-> "normal", stripe |-> TRUE],
                      [finance |-> "recovery_only", stripe |-> FALSE]}
WorkerSymmetry == Permutations(WorkerLanes)
=============================================================================
