--------------------------- MODULE PayoutContract ---------------------------
(***************************************************************************)
(* What the payout component promises a publisher about a withdrawal: its  *)
(* amount leaves the withdrawable balance once, and then is either booked  *)
(* as paid, after the bank has paid it, or returned; never both.           *)
(***************************************************************************)
EXTENDS Integers

CONSTANTS Withdrawals, Amount, Balance

VARIABLES
  state,         \* state[w] \in {"NONE", "RESERVED", "PAID", "RETURNED"}
  paidOut,       \* paidOut[w]: the bank has paid the withdrawal
  withdrawable,  \* what the publisher may still request
  lifetimePaid   \* what is booked as paid

cvars == <<state, paidOut, withdrawable, lifetimePaid>>

Init ==
  /\ state = [w \in Withdrawals |-> "NONE"]
  /\ paidOut = [w \in Withdrawals |-> FALSE]
  /\ withdrawable = Balance
  /\ lifetimePaid = 0

Reserve(w) ==
  /\ state[w] = "NONE"
  /\ withdrawable >= Amount[w]
  /\ state' = [state EXCEPT ![w] = "RESERVED"]
  /\ withdrawable' = withdrawable - Amount[w]
  /\ UNCHANGED <<paidOut, lifetimePaid>>

BankPays(w) ==
  /\ state[w] = "RESERVED"
  /\ ~paidOut[w]
  /\ paidOut' = [paidOut EXCEPT ![w] = TRUE]
  /\ UNCHANGED <<state, withdrawable, lifetimePaid>>

Book(w) ==
  /\ state[w] = "RESERVED"
  /\ paidOut[w]
  /\ state' = [state EXCEPT ![w] = "PAID"]
  /\ lifetimePaid' = lifetimePaid + Amount[w]
  /\ UNCHANGED <<paidOut, withdrawable>>

Return(w) ==
  /\ state[w] = "RESERVED"
  /\ ~paidOut[w]
  /\ state' = [state EXCEPT ![w] = "RETURNED"]
  /\ withdrawable' = withdrawable + Amount[w]
  /\ UNCHANGED <<paidOut, lifetimePaid>>

Next == \E w \in Withdrawals : Reserve(w) \/ BankPays(w) \/ Book(w) \/ Return(w)

Spec == Init /\ [][Next]_cvars
=============================================================================
