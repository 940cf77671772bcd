----------------------- MODULE OrderFulfilmentProofs -----------------------
(* Proofs about OrderFulfilment and DeliveryVerification for every set of   *)
(* requests, operators, worker runs and staff, and every bound.             *)
EXTENDS OrderFulfilment, TLAPS

-----------------------------------------------------------------------------
(* The inductive invariant.                                                *)

\* A job that can still run has an attempt left, and only a running job has an
\* owner.
JobBounded ==
  /\ job.state \in {"waiting", "active"} => job.attempts < MaxAttempts
  /\ job.owner # None => job.state = "active"

\* A run that has read the present version works on an undecided delivery, and
\* knows its intervention.
RunsCurrent ==
  \A w \in Workers : w \in current =>
    /\ delivery.verification \in Undecided
    /\ delivery.intervention = run[w].intervention

\* A delivery that is told by order status s.
Agrees(s) ==
  LET positive == delivery.verification = "VERIFIED"
                  \/ delivery.intervention = "APPROVED"
  IN  /\ s = "PUBLISHED" => delivery # NoDelivery /\ ~positive
      /\ s \in {"VERIFIED", "DELIVERED"} => positive

\* No request outlives the case that is opened under it.
CaseStopsWork ==
  ActiveCase => case.prev \in Working /\ \A r \in Requests : request[r] = Idle

\* An order is DISPUTED under an open dispute that knows where to return to;
\* what it returns to still fits the delivery and the assignment.
DisputeKeepsPlace ==
  /\ order.status = "DISPUTED" => dispute.status = "OPEN" /\ Agrees(dispute.prev)
  /\ dispute.status = "OPEN" => /\ dispute.prev # "NONE"
                                /\ order.status \in {"DISPUTED", "REFUNDED"}
                                /\ dispute.prev \in {"PUBLISHED", "VERIFIED"} => ~Assigned

AllJobs == {"accept", "content", "ready", "review", "submit", "publish"}

\* The assignment a fulfilment request has read is the present one, and an
\* operator's request is of the assignee; orders are assigned to operators.
RequestsCurrent ==
  \A r \in Requests :
    /\ request[r].op \in AllJobs =>
         /\ request[r].assignment = assignment
         /\ request[r].by \in Operators => Assigned /\ assignment.user = request[r].by
    /\ request[r].op \in {"claim", "assign"} => request[r].by \in Operators

SubmittedFresh == order.status = "SUBMITTED" => ~order.accepted

\* Staff have not intervened in a delivery that does not exist.
AbsentUntouched == delivery.verification = "ABSENT" => delivery.intervention = "NONE"

DeliveryInv == DeliveryTypeOK /\ JobBounded /\ RunsCurrent /\ AbsentUntouched

OrderRows == [channel : Channels, status : Statuses, accepted : BOOLEAN]
DeliveryRows == [verification : Verifications \cup {"ABSENT"}, intervention : Interventions]
CaseRows == [status : ActiveCases \cup {"NONE", "APPROVED"}, prev : Working \cup {"NONE"}]
DisputeRows == [status : {"NONE", "OPEN", "RESTORED", "REFUNDED"},
                prev : Working \cup {"NONE", "PUBLISHED", "VERIFIED"}]
RequestRows ==
  [op : {"idle", "accept", "content", "ready", "review", "submit", "publish",
          "claim", "assign"},
   status : Unpublished \cup {"NONE"},
   by : Operators \cup {None, Admin, Publisher},
   assignment : Assignments]

FulfilTypes ==
  /\ order \in OrderRows
  /\ assignment \in Assignments
  /\ revision \in BOOLEAN
  /\ rounds \in 0..MaxRevisions
  /\ case \in CaseRows
  /\ dispute \in DisputeRows
  /\ listed \in BOOLEAN
  /\ refund \in Unaccepted \cup {"NONE", "CASE", "FORCED", "DISPUTE"}
  /\ request \in [Requests -> RequestRows]

OrderInv ==
  /\ FulfilTypes
  /\ FulfilmentPaused /\ CaseStopsWork
  /\ RefundGrounded /\ SubmittedFresh
  /\ AssignmentsClosed /\ RequestsCurrent
  /\ DeliveryAgrees /\ DisputeKeepsPlace

IInv == DeliveryInv /\ OrderInv

-----------------------------------------------------------------------------
(* Delivery verification *)

\* What the steps of DeliveryVerification may do to the order.
OrderEffect ==
  \/ order' = order
  \/ order.status = "PUBLISHED" /\ OrderTo("VERIFIED")
  \/ order.status = "VERIFIED" /\ OrderTo("PUBLISHED")

\* A job row that satisfies its type and JobBounded.
GoodJob(j) ==
  /\ j \in [state : {"absent", "waiting", "active", "ended"},
            attempts : 0..MaxAttempts, owner : Workers \cup {None}]
  /\ j.state \in {"waiting", "active"} => j.attempts < MaxAttempts
  /\ j.owner # None => j.state = "active"

LEMMA GoodJobs == DeliveryInv => GoodJob(job)
  BY DEF DeliveryInv, DeliveryTypeOK, JobBounded, GoodJob

LEMMA EndedJob ==
  ASSUME NEW w \in Workers, GoodJob(job)
  PROVE  GoodJob(Ended(w))
<1>1. CASE job.owner # w
  BY <1>1 DEF Ended
<1>2. CASE job.owner = w
  <2>1. Ended(w) = [job EXCEPT !.state = "ended", !.owner = None]
    BY <1>2 DEF Ended
  <2> QED
    BY <2>1 DEF GoodJob
<1> QED
  BY <1>1, <1>2

LEMMA RetriedJob ==
  ASSUME NEW w \in Workers, GoodJob(job)
  PROVE  GoodJob(Retried(w))
<1>1. CASE job.owner # w
  BY <1>1 DEF Retried
<1>2. CASE job.owner = w
  <2>1. job.attempts \in 0..MaxAttempts /\ job.attempts < MaxAttempts
    BY <1>2, DeliveryAssumption DEF GoodJob
  <2>2. job.attempts + 1 \in 0..MaxAttempts
    BY <2>1, DeliveryAssumption
  <2>3. CASE job.attempts + 1 < MaxAttempts
    <3>1. Retried(w) = [state |-> "waiting", attempts |-> job.attempts + 1, owner |-> None]
      BY <1>2, <2>3 DEF Retried
    <3> QED
      BY <2>2, <2>3, <3>1 DEF GoodJob
  <2>4. CASE ~(job.attempts + 1 < MaxAttempts)
    <3>1. Retried(w) = [state |-> "ended", attempts |-> job.attempts + 1, owner |-> None]
      BY <1>2, <2>4 DEF Retried
    <3> QED
      BY <2>2, <3>1 DEF GoodJob
  <2> QED
    BY <2>3, <2>4
<1> QED
  BY <1>1, <1>2

LEMMA FreshJobs ==
  ASSUME NEW j \in Enqueued
  PROVE  GoodJob(j)
  BY DeliveryAssumption DEF Enqueued, NoJob, Queued, GoodJob

\* A new version leaves nothing current.
LEMMA NewVersion ==
  ASSUME NEW v \in Verifications, NEW i \in Interventions,
         NEW J \in SUBSET Enqueued, NextVersion(v, i, J)
  PROVE  /\ delivery' \in [verification : Verifications \cup {"ABSENT"},
                           intervention : Interventions]
         /\ GoodJob(job')
         /\ current' = {}
         /\ delivery'.verification = v /\ delivery'.intervention = i
         /\ delivery' # NoDelivery
<1>1. GoodJob(job')
  BY FreshJobs DEF NextVersion
<1> QED
  BY <1>1 DEF NextVersion, NoDelivery, Verifications, Undecided, Unverified

\* A step that leaves the order and its delivery alone.
LEMMA QuietStep ==
  ASSUME DeliveryInv, DeliveryAgrees, order' = order, delivery' = delivery,
         held' \in BOOLEAN, GoodJob(job'),
         run' \in [Workers -> [at : {"free", "fetching"}, final : BOOLEAN,
                               intervention : Interventions]],
         review' \in [Staff -> Decisions \cup {"none"}],
         current' \subseteq Workers \cup Staff,
         faults' \in 0..MaxFaults, reviews' \in 0..MaxReviews,
         RunsCurrent'
  PROVE  DeliveryInv' /\ DeliveryAgrees'
<1>1. DeliveryTypeOK'
  BY DEF DeliveryInv, DeliveryTypeOK, GoodJob
<1>2. JobBounded'
  BY DEF JobBounded, GoodJob
<1>3. DeliveryAgrees'
  BY DEF DeliveryAgrees, Published
<1> QED
  BY <1>1, <1>2, <1>3 DEF DeliveryInv, AbsentUntouched

LEMMA RunTypes ==
  ASSUME DeliveryInv, NEW w \in Workers, FreeRun(w)
  PROVE  /\ run' \in [Workers -> [at : {"free", "fetching"}, final : BOOLEAN,
                                  intervention : Interventions]]
         /\ \A x \in Workers \ {w} : run'[x] = run[x]
  BY DEF DeliveryInv, DeliveryTypeOK, FreeRun, Free, Interventions

\* A run that ends without a verdict.
LEMMA RunGivesUp ==
  ASSUME DeliveryInv, DeliveryAgrees, NEW w \in Workers, FreeRun(w),
         current' = current \ {w}, job' \in {Retried(w), Ended(w)},
         order' = order, delivery' = delivery, held' = held, review' = review,
         faults' \in 0..MaxFaults, reviews' = reviews
  PROVE  DeliveryInv' /\ DeliveryAgrees'
<1>1. GoodJob(job')
  BY GoodJobs, RetriedJob, EndedJob
<1>2. RunsCurrent'
  BY RunTypes DEF DeliveryInv, RunsCurrent
<1>3. /\ held' \in BOOLEAN /\ review' \in [Staff -> Decisions \cup {"none"}]
      /\ current' \subseteq Workers \cup Staff /\ reviews' \in 0..MaxReviews
  BY DEF DeliveryInv, DeliveryTypeOK
<1> QED
  BY <1>1, <1>2, <1>3, RunTypes, QuietStep

\* A step to a new version.
LEMMA VersionStep ==
  ASSUME DeliveryInv, NEW v \in Verifications, NEW i \in Interventions,
         NEW J \in SUBSET Enqueued, NextVersion(v, i, J),
         held' \in BOOLEAN,
         run' \in [Workers -> [at : {"free", "fetching"}, final : BOOLEAN,
                               intervention : Interventions]],
         review' \in [Staff -> Decisions \cup {"none"}],
         faults' \in 0..MaxFaults, reviews' \in 0..MaxReviews
  PROVE  DeliveryInv'
<1>1. DeliveryTypeOK' /\ JobBounded'
  BY NewVersion DEF DeliveryTypeOK, JobBounded, GoodJob
<1>2. RunsCurrent'
  BY NewVersion DEF RunsCurrent
<1>3. AbsentUntouched'
  BY NewVersion DEF AbsentUntouched, Verifications, Undecided, Unverified
<1> QED
  BY <1>1, <1>2, <1>3 DEF DeliveryInv

-----------------------------------------------------------------------------

\* What a verification step guarantees: the order moves between PUBLISHED and
\* VERIFIED only, and only there does the delivery change.
VerifyKeeps ==
  /\ DeliveryInv' /\ DeliveryAgrees' /\ OrderEffect
  /\ order.status \notin {"PUBLISHED", "VERIFIED"} => delivery' = delivery

LEMMA RunStepKeeps ==
  ASSUME DeliveryInv, DeliveryAgrees, order \in OrderRows,
         NEW w \in Workers, RunStep(w)
  PROVE  VerifyKeeps
<1> USE DEF VerifyKeeps, OrderEffect
<1>1. CASE StartRun(w)
  <2>1. GoodJob(job')
    <3>1. GoodJob(job) /\ job.state = "waiting"
      BY <1>1, GoodJobs DEF StartRun
    <3> QED
      BY <1>1, <3>1 DEF StartRun, GoodJob
  <2>2. /\ run' \in [Workers -> [at : {"free", "fetching"}, final : BOOLEAN,
                                 intervention : Interventions]]
        /\ run'[w].intervention = delivery.intervention
        /\ \A x \in Workers \ {w} : run'[x] = run[x]
    BY <1>1, DeliveryAssumption DEF StartRun, DeliveryInv, DeliveryTypeOK
  <2>3. RunsCurrent'
    BY <1>1, <2>2 DEF StartRun, DeliveryInv, RunsCurrent
  <2>4. /\ held' \in BOOLEAN /\ review' \in [Staff -> Decisions \cup {"none"}]
        /\ current' \subseteq Workers \cup Staff
        /\ faults' \in 0..MaxFaults /\ reviews' \in 0..MaxReviews
    BY <1>1 DEF StartRun, DeliveryInv, DeliveryTypeOK
  <2> QED
    BY <1>1, <2>1, <2>2, <2>3, <2>4, QuietStep DEF StartRun
<1>2. CASE FailRun(w)
  <2>1. faults' \in 0..MaxFaults
    BY <1>2, DeliveryAssumption DEF FailRun, DeliveryInv, DeliveryTypeOK
  <2> QED
    BY <1>2, <2>1, RunGivesUp DEF FailRun
<1>3. CASE Stall(w)
  <2>1. GoodJob(job')
    <3>1. GoodJob(job) /\ job.state = "active"
      BY <1>3, GoodJobs, DeliveryAssumption DEF Stall, GoodJob
    <3> QED
      BY <1>3, <3>1 DEF Stall, GoodJob
  <2>2. faults' \in 0..MaxFaults
    BY <1>3, DeliveryAssumption DEF Stall, DeliveryInv, DeliveryTypeOK
  <2>3. RunsCurrent'
    BY <1>3 DEF Stall, DeliveryInv, RunsCurrent
  <2> QED
    BY <1>3, <2>1, <2>2, <2>3, QuietStep DEF Stall, DeliveryInv, DeliveryTypeOK
<1>4. CASE RetryLater(w)
  <2>1. CASE ~(w \in current /\ Published)
    BY <1>4, <2>1, RunGivesUp DEF RetryLater, DeliveryInv, DeliveryTypeOK
  <2>2. CASE w \in current /\ Published
    <3>1. /\ delivery.verification \in Undecided
          /\ delivery \in DeliveryRows
          /\ delivery' = [delivery EXCEPT !.verification = "RETRYING"]
      BY <1>4, <2>2 DEF RetryLater, DeliveryInv, RunsCurrent, DeliveryTypeOK, DeliveryRows
    <3>2. /\ delivery' \in DeliveryRows /\ delivery'.verification = "RETRYING"
          /\ delivery'.intervention = delivery.intervention
      BY <3>1 DEF DeliveryRows, Verifications, Undecided
    <3>3. GoodJob(job')
      BY <1>4, <2>2, GoodJobs, RetriedJob DEF RetryLater
    <3>4. RunsCurrent'
      BY <1>4, <3>2, RunTypes DEF RetryLater, DeliveryInv, RunsCurrent, Undecided
    <3>5. DeliveryTypeOK' /\ JobBounded'
      BY <1>4, <3>2, <3>3, RunTypes
      DEF RetryLater, DeliveryInv, DeliveryTypeOK, JobBounded, GoodJob, DeliveryRows
    <3>6. DeliveryAgrees'
      BY <1>4, <2>2, <3>2 DEF RetryLater, DeliveryAgrees, Published, NoDelivery
    <3> QED
      BY <1>4, <2>2, <3>2, <3>4, <3>5, <3>6
      DEF RetryLater, DeliveryInv, AbsentUntouched, Published
  <2> QED
    BY <2>1, <2>2
<1>5. CASE Escalate(w)
  <2>1. CASE ~(w \in current /\ Published)
    BY <1>5, <2>1, RunGivesUp DEF Escalate, DeliveryInv, DeliveryTypeOK
  <2>2. CASE w \in current /\ Published
    <3>1. /\ NextVersion("MANUAL_REVIEW", delivery.intervention, {NoJob})
          /\ "MANUAL_REVIEW" \in Verifications /\ delivery.intervention \in Interventions
          /\ {NoJob} \in SUBSET Enqueued
      BY <1>5, <2>2
      DEF Escalate, DeliveryInv, DeliveryTypeOK, Verifications, Unverified, Enqueued
    <3>2. DeliveryInv'
      BY <1>5, <3>1, VersionStep, RunTypes DEF Escalate, DeliveryInv, DeliveryTypeOK
    <3>3. DeliveryAgrees'
      BY <1>5, <2>2, <3>1, NewVersion DEF Escalate, DeliveryAgrees, Published
    <3> QED
      BY <1>5, <2>2, <3>2, <3>3 DEF Escalate, Published
  <2> QED
    BY <2>1, <2>2
<1>6. CASE SnapshotLost(w)
  BY <1>6, RunGivesUp DEF SnapshotLost, DeliveryInv, DeliveryTypeOK
<1>7. CASE DropVerdict(w)
  BY <1>7, RunGivesUp DEF DropVerdict, DeliveryInv, DeliveryTypeOK
<1>8. ASSUME NEW base \in Bases(w), NEW suspect \in BOOLEAN,
             CommitVerdict(w, base, suspect)
      PROVE  VerifyKeeps
  <2> DEFINE status == Effective(base, suspect)
  <2>1. /\ NextVersion(status, delivery.intervention, {NoJob})
        /\ status \in Verifications /\ delivery.intervention \in Interventions
        /\ {NoJob} \in SUBSET Enqueued
    BY <1>8
    DEF CommitVerdict, DeliveryInv, DeliveryTypeOK, Verifications, Unverified, Enqueued,
        Effective, Bases
  <2>2. DeliveryInv'
    <3>1. held' \in BOOLEAN
      BY <1>8 DEF CommitVerdict, DeliveryInv, DeliveryTypeOK
    <3> HIDE DEF status
    <3> QED
      BY <1>8, <2>1, <3>1, VersionStep, RunTypes DEF CommitVerdict, DeliveryInv, DeliveryTypeOK
  <2>3. /\ order.status = "PUBLISHED"
        /\ status = "VERIFIED" => OrderTo("VERIFIED")
        /\ status # "VERIFIED" => order' = order
    BY <1>8 DEF CommitVerdict, Published
  <2> HIDE DEF status
  <2>4. DeliveryAgrees'
    BY <2>1, <2>3, NewVersion DEF DeliveryAgrees, Published, OrderTo, OrderRows
  <2> QED
    BY <2>2, <2>3, <2>4
<1> QED
  BY <1>1, <1>2, <1>3, <1>4, <1>5, <1>6, <1>7, <1>8 DEF RunStep, Outcome

LEMMA ReviewStepKeeps ==
  ASSUME DeliveryInv, DeliveryAgrees, order \in OrderRows,
         NEW s \in Staff, ReviewStep(s)
  PROVE  VerifyKeeps
<1> USE DEF VerifyKeeps, OrderEffect
<1>1. ASSUME NEW decision \in Decisions, ReadReview(s, decision)
      PROVE  VerifyKeeps
  <2>1. RunsCurrent'
    BY <1>1, DeliveryAssumption DEF ReadReview, DeliveryInv, RunsCurrent
  <2>2. /\ review' \in [Staff -> Decisions \cup {"none"}]
        /\ current' \subseteq Workers \cup Staff
    BY <1>1 DEF ReadReview, DeliveryInv, DeliveryTypeOK
  <2> QED
    BY <1>1, <2>1, <2>2, GoodJobs, QuietStep DEF ReadReview, DeliveryInv, DeliveryTypeOK
<1>2. CASE RefuseReview(s)
  <2>1. RunsCurrent'
    BY <1>2 DEF RefuseReview, DeliveryInv, RunsCurrent
  <2>2. /\ review' \in [Staff -> Decisions \cup {"none"}]
        /\ current' \subseteq Workers \cup Staff
    BY <1>2 DEF RefuseReview, DeliveryInv, DeliveryTypeOK
  <2> QED
    BY <1>2, <2>1, <2>2, GoodJobs, QuietStep DEF RefuseReview, DeliveryInv, DeliveryTypeOK
<1>3. ASSUME NEW decision, Reviewing(s, decision)
      PROVE  /\ review' \in [Staff -> Decisions \cup {"none"}]
             /\ reviews' \in 0..MaxReviews
  BY <1>3, DeliveryAssumption DEF Reviewing, DeliveryInv, DeliveryTypeOK
<1>4. /\ delivery.intervention \in Interventions
      /\ {NoJob} \in SUBSET Enqueued /\ Enqueued \in SUBSET Enqueued
      /\ {"APPROVED", "REJECTED", "OVERRIDDEN", "NONE"} \subseteq Interventions
      /\ {"VERIFIED", "FAILED", "PENDING"} \cup Unverified \subseteq Verifications
  BY DEF DeliveryInv, DeliveryTypeOK, Enqueued, Interventions, Verifications, Undecided,
         Unverified
<1>5. Published => delivery.verification \in Verifications
  <2>1. delivery \in DeliveryRows
    BY DEF DeliveryInv, DeliveryTypeOK, DeliveryRows
  <2>2. delivery.verification = "ABSENT" => delivery = NoDelivery
    BY <2>1 DEF DeliveryInv, AbsentUntouched, DeliveryRows, NoDelivery
  <2> QED
    BY <2>1, <2>2 DEF DeliveryAgrees, DeliveryRows
<1>6. CASE ManualApprove(s)
  <2>1. NextVersion(delivery.verification, "APPROVED", {NoJob})
          /\ delivery.verification \in Verifications
    BY <1>4, <1>6 DEF ManualApprove
  <2>2. DeliveryInv'
    BY <1>3, <1>4, <1>6, <2>1, VersionStep DEF ManualApprove, DeliveryInv, DeliveryTypeOK
  <2>3. DeliveryAgrees'
    BY <1>4, <1>6, <2>1, NewVersion
    DEF ManualApprove, DeliveryAgrees, Published, OrderTo, OrderRows
  <2> QED
    BY <1>6, <2>2, <2>3 DEF ManualApprove, Published
<1>7. CASE ManualReject(s)
  <2>1. NextVersion(delivery.verification, "REJECTED", {NoJob})
          /\ delivery.verification \in Verifications
    BY <1>5, <1>7 DEF ManualReject
  <2>2. DeliveryInv'
    BY <1>3, <1>4, <1>7, <2>1, VersionStep DEF ManualReject, DeliveryInv, DeliveryTypeOK
  <2>3. DeliveryAgrees'
    BY <1>4, <1>7, <2>1, NewVersion DEF ManualReject, DeliveryAgrees, Published
  <2> QED
    BY <1>7, <2>2, <2>3 DEF ManualReject, Published
<1>8. CASE OverrideVerified(s)
  <2>1. NextVersion("VERIFIED", "OVERRIDDEN", {NoJob})
    BY <1>8 DEF OverrideVerified
  <2>2. DeliveryInv'
    BY <1>3, <1>4, <1>8, <2>1, VersionStep DEF OverrideVerified, DeliveryInv, DeliveryTypeOK
  <2>3. DeliveryAgrees'
    BY <1>4, <1>8, <2>1, NewVersion
    DEF OverrideVerified, DeliveryAgrees, Published, OrderTo, OrderRows
  <2> QED
    BY <1>8, <2>2, <2>3 DEF OverrideVerified, Published
<1>9. CASE OverrideFailed(s)
  <2>1. NextVersion("FAILED", "OVERRIDDEN", {NoJob})
    BY <1>9 DEF OverrideFailed
  <2>2. DeliveryInv'
    BY <1>3, <1>4, <1>9, <2>1, VersionStep DEF OverrideFailed, DeliveryInv, DeliveryTypeOK
  <2>3. DeliveryAgrees'
    BY <1>4, <1>9, <2>1, NewVersion
    DEF OverrideFailed, DeliveryAgrees, Published, OrderTo, OrderRows
  <2> QED
    BY <1>9, <2>2, <2>3 DEF OverrideFailed
<1>10. CASE Reverify(s)
  <2>1. NextVersion("PENDING", "NONE", Enqueued)
    BY <1>10 DEF Reverify
  <2>2. DeliveryInv'
    BY <1>3, <1>4, <1>10, <2>1, VersionStep DEF Reverify, DeliveryInv, DeliveryTypeOK
  <2>3. DeliveryAgrees'
    BY <1>4, <1>10, <2>1, NewVersion DEF Reverify, DeliveryAgrees, Published
  <2> QED
    BY <1>10, <2>2, <2>3 DEF Reverify, Published
<1> QED
  BY <1>1, <1>2, <1>6, <1>7, <1>8, <1>9, <1>10 DEF ReviewStep

LEMMA DeliveryStepKeeps ==
  ASSUME DeliveryInv, DeliveryAgrees, order \in OrderRows, DeliveryStep
  PROVE  VerifyKeeps
<1>1. CASE Dispatch
  <2>1. GoodJob(job')
    BY <1>1, FreshJobs DEF Dispatch, Enqueued
  <2>2. RunsCurrent'
    BY <1>1 DEF Dispatch, DeliveryInv, RunsCurrent
  <2> QED
    BY <1>1, <2>1, <2>2, QuietStep
    DEF Dispatch, DeliveryInv, DeliveryTypeOK, VerifyKeeps, OrderEffect
<1>2. CASE ClearHold
  <2>1. RunsCurrent'
    BY <1>2 DEF ClearHold, DeliveryInv, RunsCurrent
  <2> QED
    BY <1>2, <2>1, GoodJobs, QuietStep
    DEF ClearHold, DeliveryInv, DeliveryTypeOK, VerifyKeeps, OrderEffect
<1> QED
  BY <1>1, <1>2, RunStepKeeps, ReviewStepKeeps DEF DeliveryStep

-----------------------------------------------------------------------------
(* Fulfilment and cancellation *)

\* Deliveries that a step leaves alone.
LEMMA KeepDelivery ==
  ASSUME DeliveryInv, Keep
  PROVE  DeliveryInv' /\ delivery' = delivery
  BY DEF DeliveryInv, DeliveryTypeOK, JobBounded, RunsCurrent, AbsentUntouched, Keep,
         deliveryVars

\* After a version change nobody's read counts.
LEMMA Bumped ==
  ASSUME Bump
  PROVE  /\ request' \in [Requests -> RequestRows]
         /\ \A r \in Requests : request'[r] = Idle
         /\ RequestsCurrent'
  BY DEF Bump, RequestRows, Idle, NoAssignment, Assignments, RequestsCurrent, AllJobs

\* A request that has read has not seen the order end.
LEMMA RequestStatus ==
  ASSUME OrderInv, NEW r \in Requests, Cas(r)
  PROVE  order.status \in Unpublished /\ refund = "NONE" /\ ~(dispute.status = "OPEN")
  BY DEF OrderInv, FulfilTypes, Cas, OrderRows, RequestRows, Statuses, Unpublished, Working,
         RefundGrounded, DisputeKeepsPlace

LEMMA ReadWorkKeeps ==
  ASSUME OrderInv, NEW r \in Requests, NEW op,
         NEW by \in Operators \cup {Admin, Publisher}, ReadWork(r, op, by)
  PROVE  OrderInv'
<1>1. op \in AllJobs /\ order.status \in Unpublished
  BY DEF ReadWork, Jobs, AllJobs, From, Unpublished, Working
<1>2. /\ request' \in [Requests -> RequestRows]
      /\ \A q \in Requests \ {r} : request'[q] = request[q]
      /\ request'[r].assignment = assignment /\ request'[r].by = by
      /\ request'[r].op = op
  BY <1>1 DEF ReadWork, OrderInv, FulfilTypes, RequestRows, AllJobs
<1>3. delivery' = delivery
  BY DEF ReadWork, Keep, deliveryVars
<1>4. FulfilTypes'
  BY <1>2 DEF ReadWork, OrderInv, FulfilTypes
<1>5. RequestsCurrent'
  <2>1. by \in Operators => Assigned /\ assignment.user = by
    BY FulfilmentAssumption DEF ReadWork, MayWork
  <2> QED
    BY <1>1, <1>2, <2>1 DEF ReadWork, OrderInv, RequestsCurrent, Assigned, AllJobs
<1>6. FulfilmentPaused' /\ CaseStopsWork'
  BY DEF ReadWork, FulfilmentPaused, CaseStopsWork, ActiveCase
<1>7. RefundGrounded' /\ SubmittedFresh' /\ AssignmentsClosed' /\ DeliveryAgrees'
        /\ DisputeKeepsPlace'
  BY <1>3 DEF ReadWork, OrderInv, RefundGrounded, SubmittedFresh, AssignmentsClosed,
              DeliveryAgrees, DisputeKeepsPlace, Agrees, Assigned, Published
<1> QED
  BY <1>4, <1>5, <1>6, <1>7 DEF OrderInv

LEMMA ReadAssignKeeps ==
  ASSUME OrderInv, NEW r \in Requests, NEW op \in {"claim", "assign"},
         NEW u \in Operators, ReadAssign(r, op, u)
  PROVE  OrderInv'
<1>1. /\ request' \in [Requests -> RequestRows]
      /\ \A q \in Requests \ {r} : request'[q] = request[q]
      /\ request'[r].op = op /\ request'[r].by = u
  BY DEF ReadAssign, OrderInv, FulfilTypes, RequestRows, Idle, NoAssignment, Assignments
<1>2. delivery' = delivery
  BY DEF ReadAssign, Keep, deliveryVars
<1>3. FulfilTypes'
  BY <1>1 DEF ReadAssign, OrderInv, FulfilTypes
<1>4. RequestsCurrent'
  BY <1>1 DEF ReadAssign, OrderInv, RequestsCurrent, Assigned, AllJobs
<1>5. FulfilmentPaused' /\ CaseStopsWork'
  BY DEF ReadAssign, FulfilmentPaused, CaseStopsWork, ActiveCase
<1>6. RefundGrounded' /\ SubmittedFresh' /\ AssignmentsClosed' /\ DeliveryAgrees'
        /\ DisputeKeepsPlace'
  BY <1>2 DEF ReadAssign, OrderInv, RefundGrounded, SubmittedFresh, AssignmentsClosed,
              DeliveryAgrees, DisputeKeepsPlace, Agrees, Assigned, Published
<1> QED
  BY <1>3, <1>4, <1>5, <1>6 DEF OrderInv

LEMMA RefuseKeeps ==
  ASSUME OrderInv, NEW r \in Requests, Refuse(r)
  PROVE  OrderInv'
<1>1. /\ request' \in [Requests -> RequestRows]
      /\ \A q \in Requests \ {r} : request'[q] = request[q]
      /\ request'[r] = Idle
  BY DEF Refuse, Answered, OrderInv, FulfilTypes, RequestRows, Idle, NoAssignment, Assignments
<1>2. delivery' = delivery
  BY DEF Refuse, Keep, deliveryVars
<1>3. FulfilTypes'
  BY <1>1 DEF Refuse, OrderInv, FulfilTypes
<1>4. RequestsCurrent'
  BY <1>1 DEF Refuse, OrderInv, RequestsCurrent, Assigned, AllJobs, Idle
<1>5. FulfilmentPaused' /\ CaseStopsWork'
  BY <1>1 DEF Refuse, OrderInv, FulfilmentPaused, CaseStopsWork, ActiveCase
<1>6. RefundGrounded' /\ SubmittedFresh' /\ AssignmentsClosed' /\ DeliveryAgrees'
        /\ DisputeKeepsPlace'
  BY <1>2 DEF Refuse, OrderInv, RefundGrounded, SubmittedFresh, AssignmentsClosed,
              DeliveryAgrees, DisputeKeepsPlace, Agrees, Assigned, Published
<1> QED
  BY <1>3, <1>4, <1>5, <1>6 DEF OrderInv

\* Work under a case would belong to a request that has read, and there is none.
LEMMA NoCaseAtWork ==
  ASSUME OrderInv, NEW r \in Requests, request[r] # Idle
  PROVE  ~ActiveCase
  BY DEF OrderInv, CaseStopsWork

LEMMA GuardedAssignment ==
  ASSUME OrderInv, NEW r \in Requests, request[r].op \in AllJobs, GuardAssignment(r)
  PROVE  /\ assignment' \in Assignments
         /\ request[r].op = "publish" => assignment' = NoAssignment
<1>1. request[r].assignment = assignment /\ assignment \in Assignments
  BY DEF OrderInv, RequestsCurrent, FulfilTypes
<1>2. NoAssignment \in Assignments
  BY DEF NoAssignment, Assignments
<1>3. [assignment EXCEPT !.status = "IN_PROGRESS"] \in Assignments
  BY <1>1 DEF Assignments
<1> QED
  BY <1>1, <1>2, <1>3 DEF GuardAssignment

LEMMA WorkKeeps ==
  ASSUME IInv, NEW r \in Requests, Work(r)
  PROVE  IInv'
<1> DEFINE op == request[r].op
<1>1. op \in AllJobs /\ Bump /\ Cas(r)
  BY DEF Work, Jobs, AllJobs
<1>2. /\ order.status \in Unpublished /\ refund = "NONE" /\ dispute.status # "OPEN"
      /\ ~ActiveCase
  BY <1>1, RequestStatus, NoCaseAtWork DEF IInv, AllJobs, Idle
<1>3. /\ order' \in OrderRows /\ order'.status = To(op)
      /\ order'.status \in Working \cup {"PUBLISHED"}
      /\ order'.status = "PUBLISHED" <=> op = "publish"
  BY <1>1 DEF Work, IInv, OrderInv, FulfilTypes, OrderRows, To, AllJobs, Statuses,
              Unpublished, Working
<1>4. assignment' \in Assignments /\ (op = "publish" => assignment' = NoAssignment)
  BY <1>1, GuardedAssignment DEF Work, IInv, OrderInv, FulfilTypes
<1>5. DeliveryInv' /\ DeliveryAgrees'
  <2>1. CASE op = "publish"
    <3>1. NextVersion("PENDING", "NONE", Enqueued) /\ "PENDING" \in Verifications
            /\ "NONE" \in Interventions /\ Enqueued \in SUBSET Enqueued
      BY <2>1 DEF Work, NewDelivery, Verifications, Undecided, Interventions
    <3>2. DeliveryInv'
      BY <2>1, <3>1, VersionStep DEF Work, NewDelivery, IInv, DeliveryInv, DeliveryTypeOK
    <3> QED
      BY <1>3, <2>1, <3>1, <3>2, NewVersion DEF DeliveryAgrees, Published
  <2>2. CASE op # "publish"
    BY <1>3, <2>2, KeepDelivery DEF Work, IInv, DeliveryAgrees, Published, Working
  <2> QED
    BY <2>1, <2>2
<1>6. FulfilTypes'
  BY <1>1, <1>3, <1>4, Bumped DEF Work, IInv, OrderInv, FulfilTypes
<1>7. /\ FulfilmentPaused' /\ CaseStopsWork' /\ RefundGrounded' /\ SubmittedFresh'
      /\ AssignmentsClosed' /\ DisputeKeepsPlace'
  <2>1. UNCHANGED <<case, dispute, refund>>
    BY DEF Work
  <2>2. ~ActiveCase' /\ refund' = "NONE" /\ dispute'.status # "OPEN"
    BY <1>2, <2>1 DEF ActiveCase
  <2>3. FulfilmentPaused' /\ CaseStopsWork'
    BY <2>2 DEF FulfilmentPaused, CaseStopsWork
  <2>4. RefundGrounded'
    BY <1>2, <1>3, <2>1 DEF IInv, OrderInv, RefundGrounded, Unaccepted, Working
  <2> QED
    BY <1>3, <1>4, <2>2, <2>3, <2>4
    DEF SubmittedFresh, AssignmentsClosed, DisputeKeepsPlace, Working, Assigned
<1> QED
  BY <1>1, <1>5, <1>6, <1>7, Bumped DEF IInv, OrderInv

LEMMA AssignKeeps ==
  ASSUME OrderInv, NEW r \in Requests, Assign(r)
  PROVE  OrderInv'
<1>1. request[r].op \in {"claim", "assign"} /\ Bump /\ Cas(r)
  BY DEF Assign
<1>2. /\ order.status \in Unpublished /\ refund = "NONE" /\ dispute.status # "OPEN"
      /\ ~ActiveCase
  BY <1>1, RequestStatus, NoCaseAtWork DEF Idle
<1>3. assignment' \in Assignments
  BY <1>1 DEF Assign, OrderInv, RequestsCurrent, AssignedTo, Assignments
<1>4. delivery' = delivery
  BY DEF Assign, Keep, deliveryVars
<1>5. FulfilTypes'
  BY <1>1, <1>3, Bumped DEF Assign, OrderInv, FulfilTypes
<1>6. /\ FulfilmentPaused' /\ CaseStopsWork' /\ RefundGrounded' /\ SubmittedFresh'
      /\ DeliveryAgrees'
  BY <1>2, <1>4 DEF Assign, OrderInv, FulfilmentPaused, CaseStopsWork, ActiveCase,
                    RefundGrounded, SubmittedFresh, DeliveryAgrees, Published
<1>7. AssignmentsClosed' /\ DisputeKeepsPlace'
  BY <1>2 DEF Assign, AssignmentsClosed, DisputeKeepsPlace, Unpublished, Working
<1> QED
  BY <1>1, <1>5, <1>6, <1>7, Bumped DEF OrderInv

\* The order moves from one status of fulfilment to another.
LEMMA ReviewMoves ==
  ASSUME OrderInv, NEW to \in Working, order.status \in Working, ~ActiveCase,
         Moved(to), Keep, revision' \in BOOLEAN, rounds' \in 0..MaxRevisions,
         UNCHANGED <<assignment, case, dispute, refund, listed>>
  PROVE  OrderInv'
<1>1. order' \in OrderRows /\ order'.status = to
  BY DEF Moved, OrderTo, OrderInv, FulfilTypes, OrderRows, Statuses, Unpublished
<1>2. FulfilTypes'
  BY <1>1, Bumped DEF Moved, OrderInv, FulfilTypes
<1>3. refund = "NONE" /\ dispute.status # "OPEN"
  BY DEF OrderInv, RefundGrounded, DisputeKeepsPlace, Working
<1>4. FulfilmentPaused' /\ CaseStopsWork'
  BY DEF FulfilmentPaused, CaseStopsWork, ActiveCase
<1>5. RefundGrounded'
  BY <1>1, <1>3 DEF OrderInv, RefundGrounded, Unaccepted, Working
<1>6. /\ SubmittedFresh' /\ AssignmentsClosed' /\ DisputeKeepsPlace' /\ DeliveryAgrees'
  BY <1>1, <1>3 DEF SubmittedFresh, AssignmentsClosed, DisputeKeepsPlace, DeliveryAgrees,
                    Published, Working
<1> QED
  BY <1>2, <1>4, <1>5, <1>6, Bumped DEF OrderInv, Moved

LEMMA CustomerReviewKeeps ==
  ASSUME OrderInv, PublisherSubmits \/ ApproveContent \/ RequestRevision
  PROVE  OrderInv'
<1>1. CASE PublisherSubmits
  <2>1. order.status \in Working /\ "CUSTOMER_REVIEW" \in Working
    BY <1>1 DEF PublisherSubmits, From, Working
  <2> QED
    BY <1>1, <2>1, ReviewMoves DEF PublisherSubmits, OrderInv, FulfilTypes
<1>2. CASE ApproveContent
  <2>1. order.status \in Working /\ "APPROVED" \in Working
    BY <1>2 DEF ApproveContent, Working
  <2> QED
    BY <1>2, <2>1, ReviewMoves DEF ApproveContent, OrderInv, FulfilTypes
<1>3. CASE RequestRevision
  <2>1. order.status \in Working /\ "CONTENT_REQUESTED" \in Working
    BY <1>3 DEF RequestRevision, Working
  <2>2. rounds' \in 0..MaxRevisions
    BY <1>3, FulfilmentAssumption DEF RequestRevision, OrderInv, FulfilTypes
  <2> QED
    BY <1>3, <2>1, <2>2, ReviewMoves DEF RequestRevision
<1> QED
  BY <1>1, <1>2, <1>3

LEMMA CustomerAcceptKeeps ==
  ASSUME IInv, CustomerAccept
  PROVE  IInv'
<1> DEFINE to == IF Platform THEN "COMPLETED" ELSE "DELIVERED"
<1>1. /\ NextVersion(delivery.verification, "APPROVED", {NoJob})
      /\ delivery.verification \in Verifications /\ "APPROVED" \in Interventions
      /\ {NoJob} \in SUBSET Enqueued
  BY DEF CustomerAccept, Verifications, Interventions, Enqueued
<1>2. DeliveryInv'
  BY <1>1, VersionStep DEF CustomerAccept, IInv, DeliveryInv, DeliveryTypeOK
<1>3. order' \in OrderRows /\ order'.status \in {"COMPLETED", "DELIVERED"} /\ Bump
  BY DEF CustomerAccept, Moved, OrderTo, IInv, OrderInv, FulfilTypes, OrderRows, Statuses
<1>4. DeliveryAgrees'
  BY <1>1, <1>3, NewVersion DEF DeliveryAgrees, Published
<1>5. FulfilTypes'
  BY <1>3, Bumped DEF CustomerAccept, IInv, OrderInv, FulfilTypes
<1>6. order.status = "PUBLISHED" /\ refund = "NONE" /\ dispute.status # "OPEN"
  BY DEF CustomerAccept, Published, IInv, OrderInv, RefundGrounded, DisputeKeepsPlace
<1>7. FulfilmentPaused' /\ CaseStopsWork' /\ SubmittedFresh' /\ DisputeKeepsPlace'
  BY <1>3, <1>6 DEF CustomerAccept, FulfilmentPaused, CaseStopsWork, ActiveCase,
                    SubmittedFresh, DisputeKeepsPlace
<1>8. RefundGrounded' /\ AssignmentsClosed'
  BY <1>3, <1>6 DEF CustomerAccept, IInv, OrderInv, RefundGrounded, AssignmentsClosed,
                    Unaccepted, Assigned
<1> QED
  BY <1>2, <1>3, <1>4, <1>5, <1>7, <1>8, Bumped DEF IInv, OrderInv

LEMMA CustomerAcceptFlaggedKeeps ==
  ASSUME IInv, CustomerAcceptFlagged
  PROVE  IInv'
<1>1. DeliveryInv' /\ delivery' = delivery
  BY DEF CustomerAcceptFlagged, IInv, DeliveryInv, DeliveryTypeOK, JobBounded, RunsCurrent,
         AbsentUntouched
<1>2. FulfilTypes'
  BY DEF CustomerAcceptFlagged, fulfilVars, IInv, OrderInv, FulfilTypes
<1>3. FulfilmentPaused' /\ CaseStopsWork' /\ RequestsCurrent'
  BY DEF CustomerAcceptFlagged, fulfilVars, IInv, OrderInv, FulfilmentPaused, CaseStopsWork,
         RequestsCurrent, ActiveCase, Assigned
<1>4. RefundGrounded' /\ SubmittedFresh' /\ AssignmentsClosed' /\ DeliveryAgrees'
        /\ DisputeKeepsPlace'
  BY <1>1 DEF CustomerAcceptFlagged, fulfilVars, IInv, OrderInv, RefundGrounded,
              SubmittedFresh, AssignmentsClosed, DeliveryAgrees, DisputeKeepsPlace, Agrees,
              Assigned, Published
<1> QED
  BY <1>1, <1>2, <1>3, <1>4 DEF IInv, OrderInv

\* A refund, whatever its ground.
LEMMA RefundKeeps ==
  ASSUME OrderInv, NEW reason \in Unaccepted \cup {"CASE", "FORCED", "DISPUTE"},
         RefundOrder(reason), Bump,
         case' \in CaseRows, dispute' \in DisputeRows, listed' \in BOOLEAN,
         ActiveCase' => reason = "FORCED" /\ case'.prev \in Working,
         case'.status = "APPROVED" <=> reason = "CASE",
         dispute'.status = "REFUNDED" <=> reason = "DISPUTE",
         order.accepted => reason \notin Unaccepted,
         dispute'.status = "OPEN" => dispute'.prev # "NONE"
  PROVE  OrderInv'
<1>1. /\ order' \in OrderRows /\ order'.status = "REFUNDED"
      /\ order'.accepted = order.accepted
  BY DEF RefundOrder, OrderTo, OrderInv, FulfilTypes, OrderRows, Statuses
<1>2. assignment' = NoAssignment /\ NoAssignment \in Assignments /\ ~Assigned'
  BY DEF RefundOrder, NoAssignment, Assignments, Assigned
<1>3. FulfilTypes'
  BY <1>1, <1>2, Bumped DEF RefundOrder, OrderInv, FulfilTypes
<1>4. FulfilmentPaused'
  BY <1>1 DEF RefundOrder, FulfilmentPaused
<1>5. CaseStopsWork'
  BY Bumped DEF CaseStopsWork
<1>6. RefundGrounded'
  BY <1>1 DEF RefundOrder, RefundGrounded, Unaccepted
<1>7. /\ SubmittedFresh' /\ AssignmentsClosed' /\ DeliveryAgrees' /\ DisputeKeepsPlace'
  BY <1>1, <1>2 DEF SubmittedFresh, AssignmentsClosed, DeliveryAgrees, DisputeKeepsPlace,
                    Published
<1> QED
  BY <1>3, <1>4, <1>5, <1>6, <1>7, Bumped DEF OrderInv

\* An order that is not refunded has no refund, and neither its case nor its
\* dispute was the ground of one.
LEMMA NotRefunded ==
  ASSUME OrderInv, order.status # "REFUNDED"
  PROVE  refund = "NONE" /\ case.status # "APPROVED" /\ dispute.status # "REFUNDED"
  BY DEF OrderInv, RefundGrounded

LEMMA CancelKeeps ==
  ASSUME OrderInv,
         \/ CancelUnaccepted("CANCELLED") \/ CancelUnaccepted("DECLINED")
         \/ TimeOut \/ ForceCancel
  PROVE  OrderInv'
<1>1. /\ case \in CaseRows /\ dispute \in DisputeRows /\ listed \in BOOLEAN
      /\ dispute.status = "OPEN" => dispute.prev # "NONE"
      /\ ActiveCase => case.prev \in Working
      /\ order.status = "SUBMITTED" => ~order.accepted
  BY DEF OrderInv, FulfilTypes, DisputeKeepsPlace, CaseStopsWork, SubmittedFresh
<1>2. ASSUME NEW reason \in Unaccepted, order.status = "SUBMITTED", ~ActiveCase,
             RefundOrder(reason), Bump, UNCHANGED <<case, dispute>>, listed' \in BOOLEAN
      PROVE  OrderInv'
  <2>1. case.status # "APPROVED" /\ dispute.status # "REFUNDED" /\ ~ActiveCase'
    BY <1>2, NotRefunded DEF ActiveCase
  <2> QED
    BY <1>1, <1>2, <2>1, RefundKeeps DEF Unaccepted
<1>3. CASE CancelUnaccepted("CANCELLED") \/ CancelUnaccepted("DECLINED")
  BY <1>1, <1>2, <1>3 DEF CancelUnaccepted, Unaccepted
<1>4. CASE TimeOut
  BY <1>1, <1>2, <1>4 DEF TimeOut, Unaccepted
<1>5. CASE ForceCancel
  <2>1. /\ RefundOrder("FORCED") /\ Bump /\ UNCHANGED <<case, dispute, listed>>
        /\ case.status # "APPROVED" /\ dispute.status # "REFUNDED"
    BY <1>5, NotRefunded DEF ForceCancel, RefundOrder
  <2> QED
    BY <1>1, <2>1, RefundKeeps DEF ActiveCase, Unaccepted
<1> QED
  BY <1>3, <1>4, <1>5

\* The sweep's list is its own.
LEMMA ListKeeps ==
  ASSUME OrderInv, ListUnaccepted \/ SkipListed
  PROVE  OrderInv'
<1>1. /\ UNCHANGED <<order, assignment, revision, rounds, case, dispute, refund, request>>
      /\ listed' \in BOOLEAN /\ delivery' = delivery
  BY DEF ListUnaccepted, SkipListed, Keep, deliveryVars
<1>2. FulfilTypes'
  BY <1>1 DEF OrderInv, FulfilTypes
<1>3. FulfilmentPaused' /\ CaseStopsWork' /\ RequestsCurrent'
  BY <1>1 DEF OrderInv, FulfilmentPaused, CaseStopsWork, RequestsCurrent, ActiveCase, Assigned
<1>4. RefundGrounded' /\ SubmittedFresh' /\ AssignmentsClosed' /\ DeliveryAgrees'
        /\ DisputeKeepsPlace'
  BY <1>1 DEF OrderInv, RefundGrounded, SubmittedFresh, AssignmentsClosed, DeliveryAgrees,
              DisputeKeepsPlace, Agrees, Assigned, Published
<1> QED
  BY <1>2, <1>3, <1>4 DEF OrderInv

\* Handlers that change nothing but the case.
LEMMA OnlyCaseKeeps ==
  ASSUME OrderInv, case' \in CaseRows, case.status # "APPROVED", case'.status # "APPROVED",
         ActiveCase' => /\ case'.prev \in Working
                        /\ \A r \in Requests : request'[r] = Idle
                        /\ \/ order.status = case'.prev
                           \/ order.status = "REFUNDED" /\ refund = "FORCED",
         UNCHANGED <<order, assignment, revision, rounds, dispute, refund, listed>>,
         request' \in [Requests -> RequestRows], RequestsCurrent', Keep
  PROVE  OrderInv'
<1>1. FulfilTypes'
  BY DEF OrderInv, FulfilTypes
<1>2. FulfilmentPaused' /\ CaseStopsWork'
  BY DEF FulfilmentPaused, CaseStopsWork
<1>3. delivery' = delivery
  BY DEF Keep, deliveryVars
<1>4. RefundGrounded' /\ SubmittedFresh' /\ AssignmentsClosed' /\ DeliveryAgrees'
        /\ DisputeKeepsPlace'
  BY <1>3 DEF OrderInv, RefundGrounded, SubmittedFresh, AssignmentsClosed, DeliveryAgrees,
              DisputeKeepsPlace, Agrees, Assigned, Published
<1> QED
  BY <1>1, <1>2, <1>4 DEF OrderInv

LEMMA CaseStepKeeps ==
  ASSUME OrderInv, CaseStep
  PROVE  OrderInv'
<1>1. /\ case \in CaseRows /\ dispute \in DisputeRows /\ listed \in BOOLEAN
      /\ dispute.status = "OPEN" => dispute.prev # "NONE"
      /\ ActiveCase => /\ case.prev \in Working
                       /\ \A r \in Requests : request[r] = Idle
                       /\ \/ order.status = case.prev
                          \/ order.status = "REFUNDED" /\ refund = "FORCED"
  BY DEF OrderInv, FulfilTypes, DisputeKeepsPlace, CaseStopsWork, FulfilmentPaused
<1>2. CASE CreateRequest
  <2>1. /\ case' = [status |-> "REQUESTED", prev |-> order.status]
        /\ order.status \in Working /\ case' \in CaseRows
    BY <1>2 DEF CreateRequest, CaseRows, ActiveCases
  <2>2. case.status # "APPROVED" /\ case'.status # "APPROVED" /\ case'.prev = order.status
    BY <2>1, NotRefunded DEF Working
  <2> QED
    BY <1>2, <2>1, <2>2, Bumped, OnlyCaseKeeps DEF CreateRequest
<1>3. ASSUME NEW from \in SUBSET ActiveCases, NEW status \in ActiveCases,
             CaseTo(from, status), OnlyCase
      PROVE  OrderInv'
  <2>1. /\ case' \in CaseRows /\ case'.prev = case.prev /\ case'.status = status
        /\ ActiveCase
    BY <1>1, <1>3 DEF CaseTo, CaseRows, ActiveCase
  <2>2. case.status # "APPROVED" /\ case'.status # "APPROVED"
    BY <2>1 DEF ActiveCase, ActiveCases
  <2>3. request' \in [Requests -> RequestRows] /\ RequestsCurrent'
    BY <1>3 DEF OnlyCase, OrderInv, FulfilTypes, RequestsCurrent, Assigned
  <2> QED
    BY <1>1, <1>3, <2>1, <2>2, <2>3, OnlyCaseKeeps DEF OnlyCase
<1>4. CASE ContestRequest \/ EscalateRequest \/ RecommendRefund
  BY <1>3, <1>4 DEF ContestRequest, EscalateRequest, RecommendRefund, ActiveCases
<1>5. CASE ContinueOrder
  <2>1. case' = NoCase /\ NoCase \in CaseRows /\ ~ActiveCase' /\ case'.status # "APPROVED"
    BY <1>5 DEF ContinueOrder, CaseOver, NoCase, CaseRows, ActiveCase, ActiveCases
  <2>2. case.status # "APPROVED"
    BY <1>5 DEF ContinueOrder, CaseOver
  <2>3. request' \in [Requests -> RequestRows] /\ RequestsCurrent'
    BY <1>5 DEF ContinueOrder, OnlyCase, OrderInv, FulfilTypes, RequestsCurrent, Assigned
  <2> QED
    BY <1>5, <2>1, <2>2, <2>3, OnlyCaseKeeps DEF ContinueOrder, OnlyCase
<1>6. CASE AcceptRequest \/ FinanceApprove
  <2>1. /\ case' = [case EXCEPT !.status = "APPROVED"] /\ RefundOrder("CASE") /\ Bump
        /\ UNCHANGED <<dispute, listed>>
    BY <1>6 DEF AcceptRequest, FinanceApprove, CaseTo
  <2>2. case' \in CaseRows /\ case'.status = "APPROVED" /\ ~ActiveCase'
    BY <1>1, <2>1 DEF CaseRows, ActiveCase, ActiveCases
  <2>3. dispute.status # "REFUNDED"
    BY <2>1, NotRefunded DEF RefundOrder
  <2> QED
    BY <1>1, <2>1, <2>2, <2>3, RefundKeeps DEF Unaccepted
<1>7. CASE EscalateToDispute
  <2>1. /\ case' = NoCase /\ ActiveCase /\ order.status = case.prev
        /\ dispute' = [status |-> "OPEN", prev |-> order.status]
        /\ Moved("DISPUTED") /\ dispute = NoCase
        /\ UNCHANGED <<assignment, revision, rounds, refund, listed>> /\ Keep
    BY <1>7 DEF EscalateToDispute, CaseOver, ActiveCase, ActiveCases
  <2>2. order.status \in Working /\ refund = "NONE"
    BY <1>1, <2>1, NotRefunded DEF Working
  <2>3. /\ order' \in OrderRows /\ order'.status = "DISPUTED"
        /\ order'.accepted = order.accepted
    BY <2>1 DEF Moved, OrderTo, OrderInv, FulfilTypes, OrderRows, Statuses
  <2>4. case' \in CaseRows /\ ~ActiveCase' /\ case'.status # "APPROVED"
    BY <2>1 DEF NoCase, CaseRows, ActiveCase, ActiveCases
  <2>5. /\ dispute' \in DisputeRows /\ dispute'.status = "OPEN"
        /\ dispute'.prev = order.status
    BY <2>1, <2>2 DEF DisputeRows
  <2>6. FulfilTypes'
    BY <2>1, <2>3, <2>4, <2>5, Bumped DEF OrderInv, FulfilTypes, Moved
  <2>7. FulfilmentPaused' /\ CaseStopsWork'
    BY <2>4 DEF FulfilmentPaused, CaseStopsWork
  <2>8. RefundGrounded'
    BY <2>1, <2>2, <2>3, <2>4, <2>5 DEF RefundGrounded, Unaccepted
  <2>9. SubmittedFresh' /\ AssignmentsClosed' /\ DeliveryAgrees' /\ DisputeKeepsPlace'
    BY <2>2, <2>3, <2>5 DEF SubmittedFresh, AssignmentsClosed, DeliveryAgrees,
                            DisputeKeepsPlace, Published, Agrees, Working
  <2> QED
    BY <2>1, <2>6, <2>7, <2>8, <2>9, Bumped DEF OrderInv, Moved
<1> QED
  BY <1>2, <1>4, <1>5, <1>6, <1>7 DEF CaseStep

LEMMA OpenDisputeKeeps ==
  ASSUME OrderInv, OpenDispute
  PROVE  OrderInv'
<1>1. /\ order.status \in {"PUBLISHED", "VERIFIED"} /\ ~ActiveCase /\ Bump
      /\ dispute' = [status |-> "OPEN", prev |-> order.status]
      /\ UNCHANGED <<assignment, revision, rounds, case, refund, listed>>
      /\ delivery' = delivery
  BY DEF OpenDispute, Moved, Keep, deliveryVars
<1>2. refund = "NONE" /\ case.status # "APPROVED" /\ ~Assigned
  BY <1>1, NotRefunded DEF OrderInv, AssignmentsClosed
<1>3. order' \in OrderRows /\ order'.status = "DISPUTED"
  BY DEF OpenDispute, Moved, OrderTo, OrderInv, FulfilTypes, OrderRows, Statuses
<1>4. /\ dispute' \in DisputeRows /\ dispute'.status = "OPEN"
      /\ dispute'.prev = order.status
  BY <1>1 DEF DisputeRows
<1>5. FulfilTypes'
  BY <1>1, <1>3, <1>4, Bumped DEF OrderInv, FulfilTypes
<1>6. FulfilmentPaused' /\ CaseStopsWork'
  BY <1>1 DEF FulfilmentPaused, CaseStopsWork, ActiveCase
<1>7. RefundGrounded'
  BY <1>1, <1>2, <1>3, <1>4 DEF RefundGrounded, Unaccepted
<1>8. SubmittedFresh' /\ AssignmentsClosed' /\ DeliveryAgrees'
  BY <1>3 DEF SubmittedFresh, AssignmentsClosed, DeliveryAgrees, Published
<1>9. DisputeKeepsPlace'
  BY <1>1, <1>2, <1>3, <1>4
  DEF OrderInv, DisputeKeepsPlace, DeliveryAgrees, Agrees, Published, Assigned
<1> QED
  BY <1>1, <1>5, <1>6, <1>7, <1>8, <1>9, Bumped DEF OrderInv

LEMMA RestoreDisputeKeeps ==
  ASSUME OrderInv, RestoreDispute
  PROVE  OrderInv'
<1>1. /\ dispute.status = "OPEN" /\ Bump
      /\ dispute' = [status |-> "RESTORED", prev |-> "NONE"]
      /\ UNCHANGED <<assignment, revision, rounds, case, refund, listed>>
      /\ delivery' = delivery
  BY DEF RestoreDispute, Moved, Keep, deliveryVars
<1>2. dispute' \in DisputeRows /\ dispute'.status = "RESTORED"
  BY <1>1 DEF DisputeRows
<1>3. order.status \in {"DISPUTED", "REFUNDED"} /\ dispute.prev \in Working \cup {"PUBLISHED", "VERIFIED"}
  BY <1>1 DEF OrderInv, DisputeKeepsPlace, FulfilTypes, DisputeRows
<1>4. CASE order.status = "DISPUTED"
  <2>1. /\ order' \in OrderRows /\ order'.status = dispute.prev
        /\ order'.accepted = order.accepted
    BY <1>3, <1>4 DEF RestoreDispute, Moved, OrderTo, OrderInv, FulfilTypes, OrderRows,
                      Statuses, Unpublished
  <2>2. FulfilTypes'
    BY <1>1, <1>2, <2>1, Bumped DEF OrderInv, FulfilTypes
  <2>3. ~ActiveCase /\ refund = "NONE" /\ case.status # "APPROVED"
    BY <1>4, NotRefunded DEF OrderInv, FulfilmentPaused, CaseStopsWork, Working
  <2>4. FulfilmentPaused' /\ CaseStopsWork'
    BY <1>1, <2>3 DEF FulfilmentPaused, CaseStopsWork, ActiveCase
  <2>5. RefundGrounded' /\ SubmittedFresh'
    BY <1>1, <1>2, <1>3, <2>1, <2>3 DEF RefundGrounded, SubmittedFresh, Unaccepted, Working
  <2>6. AssignmentsClosed' /\ DeliveryAgrees' /\ DisputeKeepsPlace'
    BY <1>1, <1>2, <1>3, <1>4, <2>1
    DEF OrderInv, AssignmentsClosed, DeliveryAgrees, DisputeKeepsPlace, Agrees, Assigned,
        Published, Working
  <2> QED
    BY <1>1, <2>2, <2>4, <2>5, <2>6, Bumped DEF OrderInv
<1>5. CASE order.status = "REFUNDED"
  <2>1. /\ order' \in OrderRows /\ order'.status = "REFUNDED"
        /\ order'.accepted = order.accepted
    BY <1>5 DEF RestoreDispute, Moved, OrderTo, OrderInv, FulfilTypes, OrderRows, Statuses
  <2>2. FulfilTypes'
    BY <1>1, <1>2, <2>1, Bumped DEF OrderInv, FulfilTypes
  <2>3. FulfilmentPaused'
    BY <1>1, <1>5, <2>1 DEF OrderInv, FulfilmentPaused, ActiveCase
  <2>4. CaseStopsWork'
    BY <1>1, Bumped DEF OrderInv, CaseStopsWork, ActiveCase
  <2>5. RefundGrounded'
    BY <1>1, <1>2, <1>5, <2>1 DEF OrderInv, RefundGrounded
  <2>6. SubmittedFresh' /\ AssignmentsClosed' /\ DeliveryAgrees' /\ DisputeKeepsPlace'
    BY <1>1, <1>2, <1>5, <2>1
    DEF OrderInv, SubmittedFresh, AssignmentsClosed, DeliveryAgrees, DisputeKeepsPlace,
        Assigned, Published
  <2> QED
    BY <1>1, <2>2, <2>3, <2>4, <2>5, <2>6, Bumped DEF OrderInv
<1> QED
  BY <1>3, <1>4, <1>5

LEMMA RefundDisputeKeeps ==
  ASSUME OrderInv, RefundDispute
  PROVE  OrderInv'
<1>1. /\ dispute.status = "OPEN" /\ RefundOrder("DISPUTE") /\ Bump
      /\ dispute' = [status |-> "REFUNDED", prev |-> "NONE"] /\ UNCHANGED <<case, listed>>
  BY DEF RefundDispute
<1>2. order.status = "DISPUTED" /\ case.status # "APPROVED"
  BY <1>1, NotRefunded DEF RefundOrder, OrderInv, DisputeKeepsPlace
<1>3. ~ActiveCase'
  BY <1>1, <1>2 DEF OrderInv, FulfilmentPaused, CaseStopsWork, ActiveCase, Working
<1>4. dispute' \in DisputeRows /\ dispute'.status = "REFUNDED"
  BY <1>1 DEF DisputeRows
<1>5. case \in CaseRows /\ listed \in BOOLEAN
  BY DEF OrderInv, FulfilTypes
<1> QED
  BY <1>1, <1>2, <1>3, <1>4, <1>5, RefundKeeps DEF Unaccepted

LEMMA VerifyKeepsAll ==
  ASSUME IInv, Verify
  PROVE  IInv'
<1>1. VerifyKeeps
  BY DeliveryStepKeeps DEF Verify, IInv, OrderInv, FulfilTypes
<1>2. UNCHANGED <<assignment, revision, rounds, case, dispute, refund, listed>>
  BY DEF Verify
<1>3. CASE order' = order
  <2>1. request' = request
    BY <1>3 DEF Verify
  <2>2. FulfilTypes' /\ FulfilmentPaused' /\ CaseStopsWork' /\ RequestsCurrent'
    BY <1>2, <1>3, <2>1 DEF IInv, OrderInv, FulfilTypes, FulfilmentPaused, CaseStopsWork,
                            RequestsCurrent, ActiveCase, Assigned
  <2>3. RefundGrounded' /\ SubmittedFresh' /\ AssignmentsClosed'
    BY <1>2, <1>3 DEF IInv, OrderInv, RefundGrounded, SubmittedFresh, AssignmentsClosed,
                      Assigned
  <2>4. DisputeKeepsPlace'
    <3>1. order.status = "DISPUTED" => delivery' = delivery
      BY <1>1 DEF VerifyKeeps
    <3> QED
      BY <1>2, <1>3, <3>1 DEF IInv, OrderInv, DisputeKeepsPlace, Agrees, Assigned
  <2> QED
    BY <1>1, <2>2, <2>3, <2>4 DEF IInv, OrderInv, VerifyKeeps
<1>4. CASE order' # order
  <2>1. /\ order.status \in {"PUBLISHED", "VERIFIED"} /\ Bump
        /\ order' \in OrderRows /\ order'.status \in {"PUBLISHED", "VERIFIED"}
        /\ order'.accepted = order.accepted
    BY <1>1, <1>4 DEF Verify, VerifyKeeps, OrderEffect, OrderTo, IInv, OrderInv, FulfilTypes,
                      OrderRows, Statuses
  <2>2. /\ refund = "NONE" /\ dispute.status # "OPEN" /\ ~ActiveCase /\ ~Assigned
    BY <2>1 DEF IInv, OrderInv, RefundGrounded, DisputeKeepsPlace, FulfilmentPaused,
                CaseStopsWork, Working, AssignmentsClosed
  <2>3. FulfilTypes'
    BY <1>2, <2>1, Bumped DEF IInv, OrderInv, FulfilTypes
  <2>4. FulfilmentPaused' /\ CaseStopsWork'
    BY <1>2, <2>2 DEF FulfilmentPaused, CaseStopsWork, ActiveCase
  <2>5. RefundGrounded'
    BY <1>2, <2>1, <2>2 DEF IInv, OrderInv, RefundGrounded, Unaccepted
  <2>6. SubmittedFresh' /\ AssignmentsClosed' /\ DisputeKeepsPlace'
    BY <1>2, <2>1, <2>2 DEF SubmittedFresh, AssignmentsClosed, DisputeKeepsPlace, Assigned
  <2> QED
    BY <1>1, <2>1, <2>3, <2>4, <2>5, <2>6, Bumped DEF IInv, OrderInv, VerifyKeeps
<1> QED
  BY <1>3, <1>4

-----------------------------------------------------------------------------
(* The invariant holds, and what follows from it *)

LEMMA InitIInv == Init => IInv
<1> SUFFICES ASSUME Init PROVE IInv
  OBVIOUS
<1>1. /\ order \in OrderRows /\ order.status = "SUBMITTED" /\ ~order.accepted
  BY DEF Init, OrderRows, Statuses, Unpublished
<1>2. assignment \in Assignments
  BY DEF Init, NoAssignment, AssignedTo, Assignments
<1>3. /\ delivery = NoDelivery /\ job = NoJob /\ current = {}
      /\ run = [w \in Workers |-> Free] /\ Free \in [at : {"free", "fetching"},
             final : BOOLEAN, intervention : Interventions]
  BY DEF Init, DeliveryInit, Free, Interventions
<1>4. GoodJob(job)
  BY <1>3, FreshJobs DEF Enqueued
<1>5. DeliveryTypeOK
  <2>1. delivery \in [verification : Verifications \cup {"ABSENT"},
                      intervention : Interventions]
    BY <1>3 DEF NoDelivery, Interventions
  <2>2. run \in [Workers -> [at : {"free", "fetching"}, final : BOOLEAN,
                             intervention : Interventions]]
    BY <1>3
  <2>3. held = FALSE /\ review = [s \in Staff |-> "none"] /\ faults = 0 /\ reviews = 0
    BY DEF Init, DeliveryInit
  <2>4. held \in BOOLEAN
    BY <2>3
  <2>5. review \in [Staff -> Decisions \cup {"none"}]
    BY <2>3
  <2>6. faults \in 0..MaxFaults /\ reviews \in 0..MaxReviews
    BY <2>3, DeliveryAssumption
  <2> QED
    BY <1>3, <1>4, <2>1, <2>2, <2>4, <2>5, <2>6 DEF DeliveryTypeOK, GoodJob
<1>6. DeliveryInv
  BY <1>3, <1>4, <1>5 DEF DeliveryInv, JobBounded, GoodJob, RunsCurrent, AbsentUntouched,
                          NoDelivery
<1>7. NoCase \in CaseRows /\ NoCase \in DisputeRows /\ NoCase.status = "NONE"
  BY DEF NoCase, CaseRows, DisputeRows
<1>8. /\ Idle \in RequestRows /\ Idle.op = "idle"
  BY DEF Idle, RequestRows, NoAssignment, Assignments
<1>9. FulfilTypes
  <2>1. request \in [Requests -> RequestRows]
    BY <1>8 DEF Init
  <2>2. revision = FALSE /\ rounds = 0 /\ listed = FALSE /\ refund = "NONE"
    BY DEF Init
  <2>3. revision \in BOOLEAN /\ listed \in BOOLEAN
    BY <2>2
  <2>4. rounds \in 0..MaxRevisions
    BY <2>2, FulfilmentAssumption
  <2>5. refund \in Unaccepted \cup {"NONE", "CASE", "FORCED", "DISPUTE"}
    BY <2>2
  <2>6. case \in CaseRows /\ dispute \in DisputeRows
    BY <1>7 DEF Init
  <2> QED
    BY <1>1, <1>2, <2>1, <2>3, <2>4, <2>5, <2>6 DEF FulfilTypes
<1>10. /\ FulfilmentPaused /\ CaseStopsWork /\ RefundGrounded /\ SubmittedFresh
       /\ AssignmentsClosed /\ DeliveryAgrees /\ DisputeKeepsPlace
  BY <1>1, <1>7 DEF Init, FulfilmentPaused, CaseStopsWork, RefundGrounded, SubmittedFresh,
     AssignmentsClosed, DeliveryAgrees, DisputeKeepsPlace, Published, ActiveCase, ActiveCases,
     Unaccepted
<1>11. RequestsCurrent
  BY <1>8 DEF Init, RequestsCurrent, AllJobs
<1> QED
  BY <1>6, <1>9, <1>10, <1>11 DEF IInv, OrderInv

LEMMA StutterKeeps ==
  ASSUME IInv, UNCHANGED vars
  PROVE  IInv'
<1>1. UNCHANGED <<order, assignment, revision, rounds, case, dispute, refund, request, listed>>
        /\ Keep
  BY DEF vars, fulfilVars, Keep
<1>2. DeliveryInv' /\ delivery' = delivery
  BY <1>1, KeepDelivery DEF IInv
<1>3. FulfilTypes' /\ FulfilmentPaused' /\ CaseStopsWork' /\ RequestsCurrent'
  BY <1>1 DEF IInv, OrderInv, FulfilTypes, FulfilmentPaused, CaseStopsWork,
              RequestsCurrent, ActiveCase, Assigned
<1>4. RefundGrounded' /\ SubmittedFresh' /\ AssignmentsClosed' /\ DeliveryAgrees'
        /\ DisputeKeepsPlace'
  BY <1>1, <1>2 DEF IInv, OrderInv, RefundGrounded, SubmittedFresh, AssignmentsClosed,
              DeliveryAgrees, DisputeKeepsPlace, Agrees, Assigned, Published
<1> QED
  BY <1>2, <1>3, <1>4 DEF IInv, OrderInv

LEMMA NextKeeps ==
  ASSUME IInv, Next
  PROVE  IInv'
<1> USE DEF IInv
<1>1. ASSUME NEW r \in Requests, RequestStep(r)
      PROVE  IInv'
  <2>1. ASSUME NEW op \in Jobs, NEW by \in Operators \cup {Admin, Publisher},
               ReadWork(r, op, by)
        PROVE  IInv'
    BY <2>1, ReadWorkKeeps, KeepDelivery DEF ReadWork
  <2>2. ASSUME NEW op \in {"claim", "assign"}, NEW u \in Operators, ReadAssign(r, op, u)
        PROVE  IInv'
    BY <2>2, ReadAssignKeeps, KeepDelivery DEF ReadAssign
  <2>3. CASE Work(r)
    BY <2>3, WorkKeeps
  <2>4. CASE Assign(r)
    BY <2>4, AssignKeeps, KeepDelivery DEF Assign
  <2>5. CASE Refuse(r)
    BY <2>5, RefuseKeeps, KeepDelivery DEF Refuse
  <2> QED
    BY <1>1, <2>1, <2>2, <2>3, <2>4, <2>5 DEF RequestStep
<1>2. CASE PublisherSubmits \/ ApproveContent \/ RequestRevision
  BY <1>2, CustomerReviewKeeps, KeepDelivery DEF PublisherSubmits, ApproveContent, RequestRevision
<1>3. CASE CustomerAccept \/ CustomerAcceptFlagged
  BY <1>3, CustomerAcceptKeeps, CustomerAcceptFlaggedKeeps
<1>4. CASE CancelUnaccepted("CANCELLED") \/ CancelUnaccepted("DECLINED") \/ TimeOut \/ ForceCancel
  BY <1>4, CancelKeeps, KeepDelivery DEF CancelUnaccepted, TimeOut, ForceCancel, RefundOrder
<1>5. CASE ListUnaccepted \/ SkipListed
  BY <1>5, ListKeeps, KeepDelivery DEF ListUnaccepted, SkipListed
<1>6. CASE CaseStep
  <2>1. Keep
    BY <1>6 DEF CaseStep, CreateRequest, AcceptRequest, ContestRequest, EscalateRequest,
                RecommendRefund, ContinueOrder, EscalateToDispute, FinanceApprove, OnlyCase,
                RefundOrder
  <2> QED
    BY <1>6, <2>1, CaseStepKeeps, KeepDelivery
<1>7. CASE OpenDispute \/ RestoreDispute \/ RefundDispute
  BY <1>7, OpenDisputeKeeps, RestoreDisputeKeeps, RefundDisputeKeeps, KeepDelivery
  DEF OpenDispute, RestoreDispute, RefundDispute, RefundOrder
<1>8. CASE Verify
  BY <1>8, VerifyKeepsAll
<1> QED
  BY <1>1, <1>2, <1>3, <1>4, <1>5, <1>6, <1>7, <1>8 DEF Next

\* Every reachable state satisfies the inductive invariant.
THEOREM Invariance == Spec => []IInv
<1>1. Init => IInv
  BY InitIInv
<1>2. IInv /\ [Next]_vars => IInv'
  BY NextKeeps, StutterKeeps
<1> QED
  BY <1>1, <1>2, PTL DEF Spec

LEMMA IInvImplies ==
  IInv => /\ TypeOK /\ FulfilmentPaused /\ RefundGrounded
          /\ AssignmentsClosed /\ DeliveryAgrees
  BY DEF IInv, DeliveryInv, OrderInv, FulfilTypes, TypeOK, OrderRows, CaseRows, DisputeRows,
         RequestRows

\* Type correctness of the order, its delivery, cases, requests and jobs: in
\* particular no job exceeds its attempts and no order its revisions.
THEOREM TypeCorrect == Spec => []TypeOK
  BY Invariance, IInvImplies, PTL

\* An open cancellation case stops fulfilment, although requests that saw no
\* case were under way (createRequest, transitionOrderCas).
THEOREM CasePausesFulfilment == Spec => []FulfilmentPaused
  BY Invariance, IInvImplies, PTL

\* A refund is final, has one ground, and never takes accepted work back
\* through the paths for unaccepted orders (refundOrderInTransaction).
THEOREM RefundsAreGrounded == Spec => []RefundGrounded
  BY Invariance, IInvImplies, PTL

\* No published or refunded order keeps an active assignment (markPublished,
\* claim, reassign).
THEOREM AssignmentsAreClosed == Spec => []AssignmentsClosed
  BY Invariance, IInvImplies, PTL

\* Order and delivery agree, through runs, interventions and disputes
\* (runDeliveryVerification, manualApprove, override, resolveDispute).
THEOREM DeliveryAlwaysAgrees == Spec => []DeliveryAgrees
  BY Invariance, IInvImplies, PTL

-----------------------------------------------------------------------------
(* Step properties *)

\* An operator moves a platform order only while it is assigned to them
\* (assertAssignedOperator, guardAssignment, transitionOrderCas).
THEOREM OnlyAssigneeWorks == Spec => WorkByAssignee
<1>1. IInv => [\A r \in Requests :
                 request[r].by \in Operators /\ request[r].op \in Jobs
                   /\ order'.status # order.status /\ request'[r] # request[r]
                   => Assigned /\ assignment.user = request[r].by]_vars
  BY DEF IInv, OrderInv, RequestsCurrent, Jobs, AllJobs
<1> QED
  BY <1>1, Invariance, PTL DEF WorkByAssignee

\* Only runs that still read the present version change a delivery.
LEMMA RunsDecide ==
  ASSUME DeliveryInv, Next, NEW x \in Workers, run'[x] # run[x], delivery' # delivery
  PROVE  x \in current
<1>1. run' # run
  OBVIOUS
<1>2. ASSUME NEW w \in Workers, RunStep(w)
      PROVE  x \in current
  <2>1. x = w
    <3>1. \E v : run' = [run EXCEPT ![w] = v] \/ run' = run
      BY <1>2 DEF RunStep, Outcome, StartRun, FailRun, Stall, RetryLater, Escalate,
                  SnapshotLost, DropVerdict, CommitVerdict, FreeRun
    <3> QED
      BY <3>1 DEF DeliveryInv, DeliveryTypeOK
  <2>2. w \in current
    BY <1>2 DEF RunStep, Outcome, StartRun, FailRun, Stall, RetryLater, Escalate,
                SnapshotLost, DropVerdict, CommitVerdict
  <2> QED
    BY <2>1, <2>2
<1>3. CASE Verify
  <2>1. ASSUME NEW s \in Staff, ReviewStep(s)
        PROVE  FALSE
    BY <1>1, <2>1 DEF ReviewStep, ReadReview, ManualApprove, ManualReject, OverrideVerified,
                      OverrideFailed, Reverify, RefuseReview
  <2> QED
    BY <1>1, <1>2, <1>3, <2>1 DEF Verify, DeliveryStep, Dispatch, ClearHold
<1>4. CASE ~Verify
  <2>1. Keep => run' = run
    BY DEF Keep, deliveryVars
  <2>2. ASSUME NEW r \in Requests, RequestStep(r)
        PROVE  run' = run
    BY <2>1, <2>2 DEF RequestStep, ReadWork, ReadAssign, Work, Assign, Refuse, NewDelivery
  <2>3. CASE CaseStep
    BY <2>1, <2>3 DEF CaseStep, CreateRequest, AcceptRequest, ContestRequest, EscalateRequest,
                RecommendRefund, ContinueOrder, EscalateToDispute, FinanceApprove, OnlyCase,
                RefundOrder
  <2>4. CASE PublisherSubmits \/ ApproveContent \/ RequestRevision \/ CustomerAccept
             \/ CustomerAcceptFlagged
    BY <2>1, <2>4 DEF PublisherSubmits, ApproveContent, RequestRevision, CustomerAccept,
                      CustomerAcceptFlagged
  <2> QED
    BY <1>1, <1>4, <2>1, <2>2, <2>3, <2>4
    DEF Next, CancelUnaccepted, ForceCancel, ListUnaccepted, TimeOut, SkipListed, OpenDispute,
        RestoreDispute, RefundDispute, RefundOrder
<1> QED
  BY <1>3, <1>4

\* A verdict belongs to the state its fetch has seen: the delivery was still
\* undecided and no staff member had intervened since
\* (readActiveDeliveryForMutation).
THEOREM VerdictsAreFenced == Spec => VerdictsFenced
<1>1. IInv /\ [Next]_vars =>
        [\A w \in Workers :
           run'[w] # run[w] /\ delivery' # delivery
             => /\ delivery.verification \in Undecided
                /\ delivery.intervention = run[w].intervention]_vars
  BY RunsDecide DEF IInv, DeliveryInv, RunsCurrent
<1> QED
  BY <1>1, Invariance, PTL DEF Spec, VerdictsFenced

\* Only a verdict, a staff decision or a customer's acceptance lets a published
\* order pass, and each asks for holds.
LEMMA PassesUnheld ==
  ASSUME IInv, Next, Published, order'.status \in {"VERIFIED", "DELIVERED", "COMPLETED"}
  PROVE  ~held /\ ~held'
<1>1. order \in OrderRows /\ order.status = "PUBLISHED" /\ held \in BOOLEAN
  BY DEF IInv, DeliveryInv, DeliveryTypeOK, OrderInv, FulfilTypes, Published
<1>2. order' # order
  BY <1>1
<1>3. ASSUME NEW s, OrderTo(s)
      PROVE  order'.status = s
  BY <1>1, <1>3 DEF OrderTo, OrderRows
<1>4. ASSUME NEW w \in Workers, RunStep(w)
      PROVE  ~held /\ ~held'
  <2>1. PICK base \in Bases(w), suspect \in BOOLEAN : CommitVerdict(w, base, suspect)
    BY <1>2, <1>4 DEF RunStep, Outcome, StartRun, FailRun, Stall, RetryLater, Escalate,
                      SnapshotLost, DropVerdict
  <2>2. Effective(base, suspect) = "VERIFIED" /\ held' = (held \/ suspect)
    BY <1>2, <2>1 DEF CommitVerdict
  <2>3. base # "MANUAL_REVIEW" => ~held /\ ~suspect
    BY <2>2 DEF Effective
  <2>4. base # "MANUAL_REVIEW"
    BY <2>2 DEF Effective
  <2> QED
    BY <2>2, <2>3, <2>4
<1>5. ASSUME NEW s \in Staff, ReviewStep(s)
      PROVE  ~held /\ ~held'
  <2>1. ManualApprove(s) \/ OverrideVerified(s)
    BY <1>1, <1>2, <1>5 DEF ReviewStep, ReadReview, ManualReject, OverrideFailed, Reverify,
                            RefuseReview
  <2> QED
    BY <2>1 DEF ManualApprove, OverrideVerified
<1>6. CASE Verify
  BY <1>2, <1>4, <1>5, <1>6 DEF Verify, DeliveryStep, Dispatch, ClearHold
<1>7. CASE CustomerAccept
  BY <1>7 DEF CustomerAccept
<1>8. CASE ~Verify /\ ~CustomerAccept
  <2>1. ASSUME NEW r \in Requests, RequestStep(r)
        PROVE  FALSE
    <3>1. Work(r)
      BY <1>2, <2>1 DEF RequestStep, ReadWork, ReadAssign, Assign, Refuse
    <3>2. Cas(r)
      BY <3>1 DEF Work
    <3> QED
      BY <1>1, <3>2, RequestStatus DEF IInv, Unpublished, Working
  <2>2. CASE CaseStep
    BY <1>2, <1>3, <2>2 DEF CaseStep, CreateRequest, AcceptRequest, ContestRequest,
       EscalateRequest, RecommendRefund, ContinueOrder, EscalateToDispute, FinanceApprove,
       OnlyCase, RefundOrder, Moved
  <2>3. CASE PublisherSubmits \/ ApproveContent \/ RequestRevision \/ CustomerAcceptFlagged
    BY <1>2, <1>3, <2>3 DEF PublisherSubmits, ApproveContent, RequestRevision,
       CustomerAcceptFlagged, Moved
  <2>4. CASE RestoreDispute
    BY <1>1, <1>3, <2>4 DEF RestoreDispute, Moved
  <2> QED
    BY <1>2, <1>3, <1>8, <2>1, <2>2, <2>3, <2>4
    DEF Next, CancelUnaccepted, ForceCancel, ListUnaccepted, TimeOut, SkipListed, OpenDispute,
        RefundDispute, RefundOrder, Moved
<1> QED
  BY <1>6, <1>7, <1>8

\* No order passes with an unresolved fraud signal, whichever run raised it
\* (runDeliveryVerification, manualApprove, override, customerAcceptDelivery).
THEOREM HeldCannotPass == Spec => HeldNeverPasses
<1>1. IInv /\ [Next]_vars =>
        [Published /\ order'.status \in {"VERIFIED", "DELIVERED", "COMPLETED"}
           => ~held /\ ~held']_<<order, held>>
  <2> SUFFICES ASSUME IInv, [Next]_vars
               PROVE  [Published /\ order'.status \in {"VERIFIED", "DELIVERED", "COMPLETED"}
                         => ~held /\ ~held']_<<order, held>>
    OBVIOUS
  <2>1. CASE Next
    BY <2>1, PassesUnheld
  <2>2. CASE UNCHANGED vars
    BY <2>2 DEF vars, deliveryVars
  <2> QED
    BY <2>1, <2>2
<1> QED
  BY <1>1, Invariance, PTL DEF Spec, HeldNeverPasses
=============================================================================
