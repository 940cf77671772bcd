-------------------------- MODULE DepositContract --------------------------
(***************************************************************************)
(* What the deposit component promises about a customer wallet: a deposit  *)
(* adds its amount to the balance once, or is closed and never does.       *)
(***************************************************************************)
EXTENDS Integers

CONSTANTS Deposits, Credit

VARIABLES
  funding,  \* funding[d] \in {"OPEN", "FUNDED", "CLOSED"}
  balance   \* what the deposits have added to the wallet

cvars == <<funding, balance>>

Init ==
  /\ funding = [d \in Deposits |-> "OPEN"]
  /\ balance = 0

Fund(d) ==
  /\ funding[d] = "OPEN"
  /\ funding' = [funding EXCEPT ![d] = "FUNDED"]
  /\ balance' = balance + Credit[d]

Close(d) ==
  /\ funding[d] = "OPEN"
  /\ funding' = [funding EXCEPT ![d] = "CLOSED"]
  /\ UNCHANGED balance

Next == \E d \in Deposits : Fund(d) \/ Close(d)

Spec == Init /\ [][Next]_cvars
=============================================================================
