--------------------------- MODULE OrderContract ---------------------------
(***************************************************************************)
(* What the order components promise about the captured money of a         *)
(* verified order: it is held, then earned at most once, and refunded at   *)
(* most once, from either state.  A refund takes the earning back, may     *)
(* compensate the publisher, and never hands out more than the order paid  *)
(* when the compensation is charged to the customer.                       *)
(***************************************************************************)
EXTENDS Integers

CONSTANTS
  Orders,  \* the orders
  Gross,   \* Gross[o]: the captured amount
  Share    \* Share[o]: what a publisher earns with the order

VARIABLES
  payees,    \* orders with a publisher to pay
  state,     \* state[o] \in {"HELD", "EARNED", "REFUNDED"}
  earnings,  \* the publisher's earnings over all orders
  credit     \* credit[o]: returned to the customer

cvars == <<payees, state, earnings, credit>>

Init ==
  /\ payees \subseteq Orders
  /\ state = [o \in Orders |-> "HELD"]
  /\ earnings = 0
  /\ credit = [o \in Orders |-> 0]

Earned(o) == IF o \in payees THEN Share[o] ELSE 0

Earn(o) ==
  /\ state[o] = "HELD"
  /\ state' = [state EXCEPT ![o] = "EARNED"]
  /\ earnings' = earnings + Earned(o)
  /\ UNCHANGED <<payees, credit>>

Refund(o, amount, comp) ==
  /\ state[o] # "REFUNDED"
  /\ o \in payees \/ comp = 0
  /\ amount = Gross[o] \/ amount + comp <= Gross[o]
  /\ state' = [state EXCEPT ![o] = "REFUNDED"]
  /\ earnings' = earnings - (IF state[o] = "EARNED" THEN Earned(o) ELSE 0) + comp
  /\ credit' = [credit EXCEPT ![o] = amount]
  /\ UNCHANGED payees

Next ==
  \E o \in Orders :
    \/ Earn(o)
    \/ \E amount, comp \in 0..Gross[o] : Refund(o, amount, comp)

Spec == Init /\ [][Next]_cvars
=============================================================================
