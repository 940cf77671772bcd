------------------------ MODULE DeliveryVerification ------------------------
(***************************************************************************)
(* Verification of a published delivery: the queue job and its retries,    *)
(* the worker that fetches the page and commits a verdict, the sweep that  *)
(* dispatches lost jobs again, and the staff interventions that race with  *)
(* them.  OrderFulfilment composes it with the life of the order.          *)
(*                                                                         *)
(* verificationVersion is only ever compared with the value a run or a     *)
(* request has read, and only grows: `current' is the set of runs and      *)
(* requests whose value is still the row's.  A job carries the version in  *)
(* its id, so `job' is the job of the present version; one of an earlier   *)
(* version finds itself stale and does nothing.  A second delivery of an   *)
(* order cannot be submitted, since no handler leads back to APPROVED.     *)
(*                                                                         *)
(* The page, the snapshot store and the fraud detectors answer as they     *)
(* like; what they answer is chosen when it is used.  Roles and reasons    *)
(* are free refusals.                                                      *)
(***************************************************************************)
EXTENDS Integers, FiniteSets

CONSTANTS
  Workers,      \* concurrent runs of verification jobs
  Staff,        \* concurrent staff requests
  MaxAttempts,  \* attempts of a job
  MaxFaults,    \* bound: stalled and failed runs
  MaxReviews,   \* bound: staff interventions
  None          \* no run

ASSUME DeliveryAssumption ==
  /\ Workers \cap Staff = {}
  /\ None \notin Workers
  /\ MaxAttempts \in Nat \ {0} /\ MaxFaults \in Nat /\ MaxReviews \in Nat

VARIABLES
  order,     \* Order row: channel, status and whether acceptedAt is set
  delivery,  \* its OrderDeliveryVersion: verification and intervention status
  held,      \* a DeliveryFraudHold of the order is unresolved
  job,       \* the verification job of the present verificationVersion
  run,       \* what each worker run has read
  review,    \* what each staff request has read
  current,   \* runs and requests that read the present verificationVersion
  faults,    \* stalled and failed runs so far
  reviews    \* staff interventions so far

deliveryVars == <<delivery, held, job, run, review, current, faults, reviews>>

-----------------------------------------------------------------------------
(* State *)

Undecided == {"PENDING", "RETRYING"}
Unverified == {"FAILED", "MANUAL_REVIEW"}
Verifications == Undecided \cup Unverified \cup {"VERIFIED"}
Interventions == {"NONE", "APPROVED", "REJECTED", "OVERRIDDEN"}

NoDelivery == [verification |-> "ABSENT", intervention |-> "NONE"]
NoJob == [state |-> "absent", attempts |-> 0, owner |-> None]
Queued == [NoJob EXCEPT !.state = "waiting"]

\* final: the run is the job's last attempt; intervention: what it has read.
Free == [at |-> "free", final |-> FALSE, intervention |-> "NONE"]

DeliveryInit ==
  /\ delivery = NoDelivery
  /\ held = FALSE
  /\ job = NoJob
  /\ run = [w \in Workers |-> Free]
  /\ review = [s \in Staff |-> "none"]
  /\ current = {}
  /\ faults = 0
  /\ reviews = 0

Published == order.status = "PUBLISHED"
OrderTo(status) == order' = [order EXCEPT !.status = status]

\* orderDeliveryVersion.updateMany with verificationVersion + 1: what was read
\* before is stale, and the next version has no job yet.
NextVersion(verification, intervention, jobs) ==
  /\ delivery' = [verification |-> verification, intervention |-> intervention]
  /\ current' = {}
  /\ job' \in jobs

-----------------------------------------------------------------------------
(* The queue: retries and stalled jobs are BullMQ's *)

\* The enqueue after the commit may be lost.
Enqueued == {NoJob, Queued}

\* Mutant: a job that ended is left alone.
MutDispatch ==
  /\ delivery.verification \in Undecided
  /\ job.state = "absent"
  /\ job' = Queued
  /\ UNCHANGED <<order, delivery, held, run, review, current, faults, reviews>>

\* dispatchPendingDeliveryVerifications: a job that ended, or was never added,
\* while the delivery is undecided.
Dispatch ==
  /\ delivery.verification \in Undecided
  /\ job.state \in {"absent", "ended"}
  /\ job' = Queued
  /\ UNCHANGED <<order, delivery, held, run, review, current, faults, reviews>>

\* A run that lost its job to a stall cannot end it.
Retried(w) ==
  IF job.owner # w THEN job
  ELSE [state |-> IF job.attempts + 1 < MaxAttempts THEN "waiting" ELSE "ended",
        attempts |-> job.attempts + 1, owner |-> None]

Ended(w) ==
  IF job.owner # w THEN job ELSE [job EXCEPT !.state = "ended", !.owner = None]

FreeRun(w) == run' = [run EXCEPT ![w] = Free]

\* The eligibility check of the processor and the reads of
\* runDeliveryVerification; the fetch follows outside any transaction.
StartRun(w) ==
  /\ run[w] = Free
  /\ job.state = "waiting"
  /\ delivery.verification \in Undecided
  /\ job' = [job EXCEPT !.state = "active", !.owner = w]
  /\ run' = [run EXCEPT ![w] =
       [at |-> "fetching", final |-> job.attempts >= MaxAttempts - 1,
        intervention |-> delivery.intervention]]
  /\ current' = current \cup {w}
  /\ UNCHANGED <<order, delivery, held, review, faults, reviews>>

\* The run throws, or the worker dies, before its transaction.
FailRun(w) ==
  /\ run[w].at = "fetching"
  /\ faults < MaxFaults
  /\ faults' = faults + 1
  /\ job' = Retried(w)
  /\ FreeRun(w)
  /\ current' = current \ {w}
  /\ UNCHANGED <<order, delivery, held, review, reviews>>

\* The stalled-job check gives the job away, or up, while the run goes on.
Stall(w) ==
  /\ job.owner = w
  /\ faults < MaxFaults
  /\ faults' = faults + 1
  /\ \E state \in {"waiting", "ended"} :
       job' = [job EXCEPT !.state = state, !.owner = None]
  /\ UNCHANGED <<order, delivery, held, run, review, current, reviews>>

-----------------------------------------------------------------------------
(* runDeliveryVerification, after the fetch *)

\* The fetch fails and attempts are left: RETRYING, under the order lock.
RetryLater(w) ==
  /\ run[w].at = "fetching"
  /\ ~run[w].final
  /\ IF w \in current /\ Published
     THEN /\ delivery' = [delivery EXCEPT !.verification = "RETRYING"]
          /\ job' = Retried(w)
     ELSE /\ job' = Ended(w)
          /\ UNCHANGED delivery
  /\ current' = current \ {w}
  /\ FreeRun(w)
  /\ UNCHANGED <<order, held, review, faults, reviews>>

\* The fetch fails on the last attempt.
Escalate(w) ==
  /\ run[w].at = "fetching"
  /\ run[w].final
  /\ IF w \in current /\ Published
     THEN NextVersion("MANUAL_REVIEW", delivery.intervention, {NoJob})
     ELSE /\ job' = Ended(w)
          /\ current' = current \ {w}
          /\ UNCHANGED delivery
  /\ FreeRun(w)
  /\ UNCHANGED <<order, held, review, faults, reviews>>

\* The snapshot cannot be stored and attempts are left: nothing is written.
SnapshotLost(w) ==
  /\ run[w].at = "fetching"
  /\ ~run[w].final
  /\ job' = Retried(w)
  /\ current' = current \ {w}
  /\ FreeRun(w)
  /\ UNCHANGED <<order, delivery, held, review, faults, reviews>>

\* The verdict of the page; without a stored snapshot, on the last attempt,
\* staff must look.
Bases(w) ==
  {"VERIFIED", "FAILED"} \cup (IF run[w].final THEN {"MANUAL_REVIEW"} ELSE {})

\* Mutant: holds found by earlier runs are not looked up.
MutEffective(base, suspect) ==
  IF base = "VERIFIED" /\ suspect THEN "MANUAL_REVIEW" ELSE base

\* A pass needs the absence of holds, of earlier runs too.
Effective(base, suspect) ==
  IF base = "VERIFIED" /\ (held \/ suspect) THEN "MANUAL_REVIEW" ELSE base

\* Mutant: the version is not compared under the lock.
MutCommitVerdict(w, base, suspect) ==
  /\ run[w].at = "fetching"
  /\ Published
  /\ LET status == Effective(base, suspect)
     IN  /\ NextVersion(status, delivery.intervention, {NoJob})
         /\ IF status = "VERIFIED" THEN OrderTo("VERIFIED") ELSE UNCHANGED order
  /\ held' = (held \/ suspect)
  /\ FreeRun(w)
  /\ UNCHANGED <<review, faults, reviews>>

\* The transaction of a completed fetch; suspect: it raises new fraud signals.
CommitVerdict(w, base, suspect) ==
  /\ run[w].at = "fetching"
  /\ w \in current
  /\ Published
  /\ LET status == Effective(base, suspect)
     IN  /\ NextVersion(status, delivery.intervention, {NoJob})
         /\ IF status = "VERIFIED" THEN OrderTo("VERIFIED") ELSE UNCHANGED order
  /\ held' = (held \/ suspect)
  /\ FreeRun(w)
  /\ UNCHANGED <<review, faults, reviews>>

\* A version conflict fails the attempt; an order that moved on is skipped.
DropVerdict(w) ==
  /\ run[w].at = "fetching"
  /\ \/ w \notin current /\ job' = Retried(w)
     \/ w \in current /\ ~Published /\ job' = Ended(w)
  /\ current' = current \ {w}
  /\ FreeRun(w)
  /\ UNCHANGED <<order, delivery, held, review, faults, reviews>>

-----------------------------------------------------------------------------
(* Staff interventions *)

Decisions == {"approve", "reject", "override", "reverify"}

\* loadVersionWithOrder, before the transaction.
ReadReview(s, decision) ==
  /\ review[s] = "none"
  /\ delivery # NoDelivery
  /\ decision = "approve" => delivery.verification \in Unverified
  /\ review' = [review EXCEPT ![s] = decision]
  /\ current' = current \cup {s}
  /\ UNCHANGED <<order, delivery, held, job, run, faults, reviews>>

\* loadActiveVersionUnderLock
Reviewing(s, decision) ==
  /\ review[s] = decision
  /\ s \in current
  /\ reviews < MaxReviews
  /\ reviews' = reviews + 1
  /\ review' = [review EXCEPT ![s] = "none"]

ManualApprove(s) ==
  /\ Reviewing(s, "approve")
  /\ delivery.verification \in Unverified
  /\ Published
  /\ ~held
  /\ NextVersion(delivery.verification, "APPROVED", {NoJob})
  /\ OrderTo("VERIFIED")
  /\ UNCHANGED <<held, run, faults>>

\* The verification status stays: an undecided delivery is dispatched again.
ManualReject(s) ==
  /\ Reviewing(s, "reject")
  /\ Published
  /\ NextVersion(delivery.verification, "REJECTED", {NoJob})
  /\ UNCHANGED <<order, held, run, faults>>

OverrideVerified(s) ==
  /\ Reviewing(s, "override")
  /\ Published
  /\ ~held
  /\ NextVersion("VERIFIED", "OVERRIDDEN", {NoJob})
  /\ OrderTo("VERIFIED")
  /\ UNCHANGED <<held, run, faults>>

\* Mutant: the order keeps the status it had.
MutOverrideFailed(s) ==
  /\ Reviewing(s, "override")
  /\ order.status = "VERIFIED"
  /\ NextVersion("FAILED", "OVERRIDDEN", {NoJob})
  /\ UNCHANGED <<order, held, run, faults>>

OverrideFailed(s) ==
  /\ Reviewing(s, "override")
  /\ order.status = "VERIFIED"
  /\ NextVersion("FAILED", "OVERRIDDEN", {NoJob})
  /\ OrderTo("PUBLISHED")
  /\ UNCHANGED <<held, run, faults>>

Reverify(s) ==
  /\ Reviewing(s, "reverify")
  /\ Published
  /\ NextVersion("PENDING", "NONE", Enqueued)
  /\ UNCHANGED <<order, held, run, faults>>

\* The request is refused: it is stale, or a check says no.
RefuseReview(s) ==
  /\ review[s] # "none"
  /\ review' = [review EXCEPT ![s] = "none"]
  /\ current' = current \ {s}
  /\ UNCHANGED <<order, delivery, held, job, run, faults, reviews>>

\* resolveFraudFlag: staff clear the signals.
ClearHold ==
  /\ held
  /\ held' = FALSE
  /\ UNCHANGED <<order, delivery, job, run, review, current, faults, reviews>>

-----------------------------------------------------------------------------

\* submitDelivery: a new PENDING version, and its job unless the enqueue fails.
NewDelivery ==
  /\ NextVersion("PENDING", "NONE", Enqueued)
  /\ UNCHANGED <<held, run, review, faults, reviews>>

Outcome(w) ==
  \/ RetryLater(w) \/ Escalate(w) \/ SnapshotLost(w) \/ DropVerdict(w)
  \/ \E base \in Bases(w), suspect \in BOOLEAN : CommitVerdict(w, base, suspect)

RunStep(w) == StartRun(w) \/ FailRun(w) \/ Stall(w) \/ Outcome(w)

ReviewStep(s) ==
  \/ \E decision \in Decisions : ReadReview(s, decision)
  \/ ManualApprove(s) \/ ManualReject(s) \/ OverrideVerified(s)
  \/ OverrideFailed(s) \/ Reverify(s) \/ RefuseReview(s)

DeliveryStep ==
  \/ Dispatch \/ ClearHold
  \/ \E w \in Workers : RunStep(w)
  \/ \E s \in Staff : ReviewStep(s)

-----------------------------------------------------------------------------
(* Properties *)

DeliveryTypeOK ==
  /\ delivery \in [verification : Verifications \cup {"ABSENT"},
                   intervention : Interventions]
  /\ held \in BOOLEAN
  /\ job \in [state : {"absent", "waiting", "active", "ended"},
              attempts : 0..MaxAttempts, owner : Workers \cup {None}]
  /\ run \in [Workers -> [at : {"free", "fetching"}, final : BOOLEAN,
                          intervention : Interventions]]
  /\ review \in [Staff -> Decisions \cup {"none"}]
  /\ current \subseteq Workers \cup Staff
  /\ faults \in 0..MaxFaults
  /\ reviews \in 0..MaxReviews

\* The order and its delivery tell the same story, whatever mix of runs and
\* staff decided: a published order awaits a verdict or has a negative one, a
\* verified order has a positive one (runDeliveryVerification, manualApprove,
\* override, reverify, and disputes that move the order away and back).
DeliveryAgrees ==
  LET positive == delivery.verification = "VERIFIED"
                  \/ delivery.intervention = "APPROVED"
  IN  /\ Published => delivery # NoDelivery /\ ~positive
      /\ order.status \in {"VERIFIED", "DELIVERED"} => positive

\* No published order passes with an unresolved fraud signal, whichever run,
\* earlier verdict or customer acceptance raised it (holds are created under
\* the order lock and asked for by every handler that lets an order pass).
HeldNeverPasses ==
  [][Published /\ order'.status \in {"VERIFIED", "DELIVERED", "COMPLETED"}
       => ~held /\ ~held']_<<order, held>>

=============================================================================
