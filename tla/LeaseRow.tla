------------------------------ MODULE LeaseRow ------------------------------
(***************************************************************************)
(* Rows that processes lease: the provider-event inbox                     *)
(* (PaymentProviderEvent) and the deposit recoveries                       *)
(* (DepositCreditRecovery) follow the same discipline.  A row is claimed   *)
(* by compare-and-set on its attempts counter, a claim goes stale after 15 *)
(* minutes, and every later update by the claimer is fenced by             *)
(* (attempts, lockedAt).  Every claim increments attempts, so attempts     *)
(* alone identifies the claim here.                                        *)
(*                                                                         *)
(* `due` abstracts the two deadlines of a row: for a PENDING or FAILED row *)
(* availableAt <= now, for a PROCESSING row that lockedAt is older than    *)
(* the lease.                                                              *)
(***************************************************************************)
EXTENDS Integers

Stale(row) == row.status = "PROCESSING" /\ row.due

\* Mutant: stale leases are left alone.
MutRecovered(row) == row

\* A stale row is made available again at once.
Recovered(row) ==
  IF Stale(row) THEN [row EXCEPT !.status = "FAILED"] ELSE row

Claimable(row) == row.status \in {"PENDING", "FAILED"} /\ row.due

Claimed(row) ==
  [row EXCEPT !.status = "PROCESSING", !.attempts = @ + 1, !.due = FALSE]

\* The row still carries claim number `attempts`.
OwnedBy(row, attempts) == row.status = "PROCESSING" /\ row.attempts = attempts

\* The claimer gives up: it schedules a retry or quarantines the row.
Returned(row, verdict) ==
  [row EXCEPT !.status = IF verdict = "RETRY" THEN "FAILED" ELSE "QUARANTINED",
              !.due = FALSE]
=============================================================================
