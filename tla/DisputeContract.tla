-------------------------- MODULE DisputeContract --------------------------
(***************************************************************************)
(* What the dispute component promises about a customer wallet: every     *)
(* dispute moves money at most once in each direction.  It may freeze     *)
(* part of the free balance when it opens; closing it gives exactly that  *)
(* amount back or takes exactly that amount, and a dispute that is closed *)
(* before it opened takes money directly or not at all.  All other        *)
(* changes of the free balance leave every dispute alone.                 *)
(***************************************************************************)
EXTENDS Integers

CONSTANT Disputes

VARIABLES
  outcome,   \* outcome[p] \in {"NONE", "OPEN", "WON", "LOST"}
  frozen,    \* frozen[p]: what dispute p has frozen
  taken,     \* taken[p]: what dispute p has cost the wallet for good
  free       \* the spendable balance

cvars == <<outcome, frozen, taken, free>>

Init ==
  /\ outcome = [p \in Disputes |-> "NONE"]
  /\ frozen = [p \in Disputes |-> 0]
  /\ taken = [p \in Disputes |-> 0]
  /\ free = 0

Open(p) ==
  /\ outcome[p] = "NONE"
  /\ outcome' = [outcome EXCEPT ![p] = "OPEN"]
  /\ \E h \in 0..free : /\ frozen' = [frozen EXCEPT ![p] = h]
                        /\ free' = free - h
  /\ UNCHANGED taken

Win(p) ==
  /\ outcome[p] \in {"NONE", "OPEN"}
  /\ outcome' = [outcome EXCEPT ![p] = "WON"]
  /\ frozen' = [frozen EXCEPT ![p] = 0]
  /\ free' = free + frozen[p]
  /\ UNCHANGED taken

Lose(p) ==
  /\ outcome[p] = "OPEN"
  /\ outcome' = [outcome EXCEPT ![p] = "LOST"]
  /\ frozen' = [frozen EXCEPT ![p] = 0]
  /\ taken' = [taken EXCEPT ![p] = frozen[p]]
  /\ UNCHANGED free

LoseUnopened(p) ==
  /\ outcome[p] = "NONE"
  /\ outcome' = [outcome EXCEPT ![p] = "LOST"]
  /\ \E h \in 0..free : /\ taken' = [taken EXCEPT ![p] = h]
                        /\ free' = free - h
  /\ UNCHANGED frozen

\* Deposits, purchases and refunds.
OtherMovement ==
  /\ free' \in Nat
  /\ UNCHANGED <<outcome, frozen, taken>>

Next ==
  \/ \E p \in Disputes : Open(p) \/ Win(p) \/ Lose(p) \/ LoseUnopened(p)
  \/ OtherMovement

Spec == Init /\ [][Next]_cvars
=============================================================================
