-------------------------- MODULE OrderFulfilment --------------------------
(***************************************************************************)
(* The life of a paid order up to its delivery: acceptance, content,       *)
(* review and revision, publication, the operators platform orders are     *)
(* assigned to, cancellation cases, timeouts and refunds.  The published   *)
(* delivery is DeliveryVerification's.  Handlers work on the rows of one   *)
(* order, so there is one order here; it is handed to OrderSettlement once *)
(* it is VERIFIED or DELIVERED.                                            *)
(*                                                                         *)
(* Fulfilment requests read the order, the assignment and the absence of a *)
(* cancellation case, and then compare the order's version in an unlocked  *)
(* update.  The version only grows and is only compared with the value     *)
(* that was read, so an action that advances it ends the requests that     *)
(* have read: a conflict is all they can answer.  The three reads are one  *)
(* step: whatever changes the assignment or opens a case also advances the *)
(* version, so what is read in between never commits.  A handler that      *)
(* decides again under the order lock is one action.                       *)
(*                                                                         *)
(* Time is not measured: a timeout may strike at any moment.  Confirmed    *)
(* fraud, and the money of a refund, are in OrderSettlement.               *)
(***************************************************************************)
EXTENDS DeliveryVerification

CONSTANTS
  Channels,      \* the channels orders are fulfilled through
  Operators,     \* staff whom platform orders are assigned to
  Requests,      \* concurrent fulfilment requests
  MaxRevisions   \* revisionRoundsSnapshot

Admin == "SUPER_ADMIN"
Publisher == "PUBLISHER"

ASSUME FulfilmentAssumption ==
  /\ Channels \subseteq {"PUBLISHER", "PLATFORM"}
  /\ {Admin, Publisher, None} \cap Operators = {}
  /\ MaxRevisions \in Nat

VARIABLES
  assignment,  \* the active FulfillmentAssignment
  revision,    \* a Revision is active
  rounds,      \* revisionCount
  case,        \* the OrderCancellationRequest, until it comes to nothing
  dispute,     \* the OrderDispute
  refund,      \* what the REFUND transaction was for
  request,     \* what each request has read
  listed       \* the acceptance timeout sweep has the order on its list

fulfilVars == <<assignment, revision, rounds, case, dispute, refund, request,
                listed>>
vars == <<order, deliveryVars, fulfilVars>>

-----------------------------------------------------------------------------
(* State *)

Working == {"ACCEPTED", "CONTENT_REQUESTED", "CONTENT_CREATION",
            "CONTENT_READY", "CUSTOMER_REVIEW", "APPROVED"}
Unpublished == Working \cup {"SUBMITTED"}
Statuses == Unpublished \cup {"PUBLISHED", "VERIFIED", "DELIVERED", "COMPLETED",
                              "DISPUTED", "REFUNDED"}
ActiveCases == {"REQUESTED", "UNDER_REVIEW", "PENDING_FINANCE", "ESCALATED"}
Unaccepted == {"CANCELLED", "DECLINED", "TIMEOUT"}

NoAssignment == [status |-> "NONE", user |-> None]
AssignedTo(u) == [status |-> "ASSIGNED", user |-> u]
NoCase == [status |-> "NONE", prev |-> "NONE"]
Idle == [op |-> "idle", status |-> "NONE", by |-> None,
         assignment |-> NoAssignment]

\* A platform order of a managed site is assigned when it is paid.
Init ==
  /\ \E channel \in Channels :
       order = [channel |-> channel, status |-> "SUBMITTED", accepted |-> FALSE]
  /\ DeliveryInit
  /\ assignment \in {NoAssignment} \cup
       (IF order.channel = "PLATFORM" THEN {AssignedTo(u) : u \in Operators}
        ELSE {})
  /\ revision = FALSE
  /\ rounds = 0
  /\ case = NoCase
  /\ dispute = NoCase
  /\ refund = "NONE"
  /\ request = [r \in Requests |-> Idle]
  /\ listed = FALSE

Platform == order.channel = "PLATFORM"
ActiveCase == case.status \in ActiveCases
Assigned == assignment # NoAssignment

Answered(r) == request' = [request EXCEPT ![r] = Idle]

\* order.version advances: requests that compare it with what they read lose.
Bump == request' = [r \in Requests |-> Idle]
Moved(status) == OrderTo(status) /\ Bump

Keep == UNCHANGED deliveryVars

-----------------------------------------------------------------------------
(* Fulfilment by the publisher or the operations team *)

From(op) ==
  CASE op = "accept"  -> {"SUBMITTED"}
    [] op = "content" -> {"ACCEPTED", "CONTENT_REQUESTED"} \cup
                          (IF Platform THEN {"CONTENT_CREATION"} ELSE {})
    [] op = "ready"   -> {"CONTENT_CREATION"}
    [] op = "review"  -> {"CONTENT_READY"}
    [] op = "submit"  -> {"ACCEPTED", "CONTENT_REQUESTED", "CONTENT_CREATION",
                           "CONTENT_READY"}
    [] op = "publish" -> {"APPROVED"}

To(op) ==
  CASE op = "accept"  -> "ACCEPTED"
    [] op = "content" -> "CONTENT_CREATION"
    [] op = "ready"   -> "CONTENT_READY"
    [] op \in {"review", "submit"} -> "CUSTOMER_REVIEW"
    [] op = "publish" -> "PUBLISHED"

\* The publisher's review submissions decide again under the lock.
Jobs == {"accept", "content", "ready", "publish"} \cup
        (IF Platform THEN {"review", "submit"} ELSE {})

\* assertAssignedOperator: the assignee, or a SUPER_ADMIN.
MayWork(by) ==
  IF Platform THEN by = Admin \/ (Assigned /\ assignment.user = by)
  ELSE by = Publisher

ReadWork(r, op, by) ==
  /\ request[r] = Idle
  /\ op \in Jobs
  /\ order.status \in From(op)
  /\ MayWork(by)
  /\ ~ActiveCase
  /\ request' = [request EXCEPT ![r] =
       [op |-> op, status |-> order.status, by |-> by,
        assignment |-> assignment]]
  /\ UNCHANGED <<order, assignment, revision, rounds, case, dispute, refund,
                 listed>>
  /\ Keep

\* guardAssignment, and the beforeCommit of markPublished: the row read is
\* still the active one.
GuardAssignment(r) ==
  LET read == request[r].assignment
  IN  /\ read # NoAssignment => Assigned /\ assignment.user = read.user
      /\ assignment' =
           IF read = NoAssignment THEN assignment
           ELSE IF request[r].op = "publish" THEN NoAssignment
           ELSE [assignment EXCEPT !.status = "IN_PROGRESS"]

\* transitionOrderCas, whose version comparison is Bump's.
Cas(r) == order.status = request[r].status

Work(r) ==
  /\ request[r].op \in Jobs
  /\ Cas(r)
  /\ order' = [order EXCEPT !.status = To(request[r].op), !.accepted = TRUE]
  /\ Bump
  /\ IF request[r].op \in {"ready", "review"} THEN UNCHANGED assignment
     ELSE GuardAssignment(r)
  /\ revision' = (revision /\ request[r].op # "submit")
  /\ IF request[r].op = "publish" THEN NewDelivery ELSE Keep
  /\ UNCHANGED <<rounds, case, dispute, refund, listed>>

\* submitForReview and submitContentForReview of the publisher.
PublisherSubmits ==
  /\ ~Platform
  /\ order.status \in From("submit")
  /\ ~ActiveCase
  /\ Moved("CUSTOMER_REVIEW")
  /\ revision' = FALSE
  /\ UNCHANGED <<assignment, rounds, case, dispute, refund, listed>>
  /\ Keep

\* The request is refused, fails or is lost.
Refuse(r) ==
  /\ request[r] # Idle
  /\ Answered(r)
  /\ UNCHANGED <<order, assignment, revision, rounds, case, dispute, refund,
                 listed>>
  /\ Keep

\* claim, assign and reassign read the order first.
ReadAssign(r, op, u) ==
  /\ request[r] = Idle
  /\ Platform
  /\ order.status \in Unpublished
  /\ ~ActiveCase
  /\ request' = [request EXCEPT ![r] =
       [Idle EXCEPT !.op = op, !.status = order.status, !.by = u]]
  /\ UNCHANGED <<order, assignment, revision, rounds, case, dispute, refund,
                 listed>>
  /\ Keep

\* Mutant: the order's version is compared and not advanced.
MutAssign(r) ==
  /\ \/ request[r].op = "claim" /\ ~Assigned
     \/ request[r].op = "assign"
  /\ Cas(r)
  /\ assignment' = AssignedTo(request[r].by)
  /\ Answered(r)
  /\ UNCHANGED <<order, revision, rounds, case, dispute, refund, listed>>
  /\ Keep

\* createClaimAssignment, whose insert hits the unique index of active rows,
\* and upsertAssignment, which cancels the active row.
Assign(r) ==
  /\ \/ request[r].op = "claim" /\ ~Assigned
     \/ request[r].op = "assign"
  /\ Cas(r)
  /\ Bump
  /\ assignment' = AssignedTo(request[r].by)
  /\ UNCHANGED <<order, revision, rounds, case, dispute, refund, listed>>
  /\ Keep

-----------------------------------------------------------------------------
(* Review by the customer *)

ApproveContent ==
  /\ order.status = "CUSTOMER_REVIEW"
  /\ ~ActiveCase
  /\ Moved("APPROVED")
  /\ revision' = FALSE
  /\ UNCHANGED <<assignment, rounds, case, dispute, refund, listed>>
  /\ Keep

\* Mutant: the entitlement of the order is not looked at.
MutRequestRevision ==
  /\ order.status = "CUSTOMER_REVIEW"
  /\ ~ActiveCase /\ ~revision
  /\ rounds <= MaxRevisions
  /\ rounds' = rounds + 1
  /\ Moved("CONTENT_REQUESTED")
  /\ revision' = TRUE
  /\ UNCHANGED <<assignment, case, dispute, refund, listed>>
  /\ Keep

RequestRevision ==
  /\ order.status = "CUSTOMER_REVIEW"
  /\ ~ActiveCase /\ ~revision
  /\ rounds < MaxRevisions
  /\ rounds' = rounds + 1
  /\ Moved("CONTENT_REQUESTED")
  /\ revision' = TRUE
  /\ UNCHANGED <<assignment, case, dispute, refund, listed>>
  /\ Keep

\* customerAcceptDelivery; a platform order is completed with it.
CustomerAccept ==
  /\ delivery.verification \in Unverified
  /\ Published
  /\ ~ActiveCase
  /\ ~held
  /\ NextVersion(delivery.verification, "APPROVED", {NoJob})
  /\ Moved(IF Platform THEN "COMPLETED" ELSE "DELIVERED")
  /\ UNCHANGED <<held, run, review, faults, reviews>>
  /\ UNCHANGED <<assignment, revision, rounds, case, dispute, refund, listed>>

\* The boundary check of the acceptance finds the URL claimed by another order:
\* the hold commits although the acceptance is refused.
CustomerAcceptFlagged ==
  /\ delivery.verification \in Unverified
  /\ Published
  /\ ~ActiveCase
  /\ ~held
  /\ held' = TRUE
  /\ UNCHANGED <<order, delivery, job, run, review, current, faults, reviews>>
  /\ UNCHANGED fulfilVars

-----------------------------------------------------------------------------
(* Cancellation and refunds *)

\* refundOrderInTransaction, as far as the order is concerned.
RefundOrder(reason) ==
  /\ order.status # "REFUNDED"
  /\ OrderTo("REFUNDED")
  /\ refund' = reason
  /\ assignment' = NoAssignment
  /\ UNCHANGED <<revision, rounds>>
  /\ Keep

\* cancelNow and decline
CancelUnaccepted(reason) ==
  /\ order.status = "SUBMITTED"
  /\ ~ActiveCase
  /\ RefundOrder(reason)
  /\ Bump
  /\ UNCHANGED <<case, dispute, listed>>

\* runOrderAcceptanceTimeoutSweep lists the orders due first.
ListUnaccepted ==
  /\ ~listed
  /\ order.status = "SUBMITTED"
  /\ ~ActiveCase
  /\ listed' = TRUE
  /\ UNCHANGED <<order, assignment, revision, rounds, case, dispute, refund,
                 request>>
  /\ Keep

\* Mutant: the sweep trusts its list.
MutTimeOut ==
  /\ listed
  /\ listed' = FALSE
  /\ RefundOrder("TIMEOUT")
  /\ Bump
  /\ UNCHANGED <<case, dispute>>

\* processAcceptanceTimeoutOrderInTransaction decides again.
TimeOut ==
  /\ listed
  /\ listed' = FALSE
  /\ order.status = "SUBMITTED"
  /\ ~ActiveCase
  /\ RefundOrder("TIMEOUT")
  /\ Bump
  /\ UNCHANGED <<case, dispute>>

\* The order is skipped, or the sweep dies.
SkipListed ==
  /\ listed
  /\ listed' = FALSE
  /\ UNCHANGED <<order, assignment, revision, rounds, case, dispute, refund,
                 request>>
  /\ Keep

\* Mutant: the order's version is not claimed.
MutCreateRequest ==
  /\ order.status \in Working
  /\ ~ActiveCase
  /\ case' = [status |-> "REQUESTED", prev |-> order.status]
  /\ UNCHANGED <<order, assignment, revision, rounds, dispute, refund, request,
                 listed>>
  /\ Keep

\* createRequest claims the version so that fulfilment requests lose.
CreateRequest ==
  /\ order.status \in Working
  /\ ~ActiveCase
  /\ case' = [status |-> "REQUESTED", prev |-> order.status]
  /\ Bump
  /\ UNCHANGED <<order, assignment, revision, rounds, dispute, refund, listed>>
  /\ Keep

CaseTo(from, status) ==
  /\ case.status \in from
  /\ case' = [case EXCEPT !.status = status]

\* No handler here looks at a case that ended REJECTED or DISPUTED.
CaseOver(from) == case.status \in from /\ case' = NoCase

OnlyCase ==
  /\ UNCHANGED <<order, assignment, revision, rounds, dispute, refund, request,
                 listed>>
  /\ Keep

\* respond ACCEPT
AcceptRequest ==
  /\ CaseTo({"REQUESTED"}, "APPROVED")
  /\ RefundOrder("CASE")
  /\ Bump
  /\ UNCHANGED <<dispute, listed>>

\* respond CONTEST, and runCancellationResponseTimeoutSweep
ContestRequest == CaseTo({"REQUESTED"}, "UNDER_REVIEW") /\ OnlyCase
EscalateRequest == CaseTo({"REQUESTED"}, "ESCALATED") /\ OnlyCase

\* review FULL_REFUND and CONTINUE_ORDER
RecommendRefund ==
  CaseTo({"UNDER_REVIEW", "ESCALATED"}, "PENDING_FINANCE") /\ OnlyCase
ContinueOrder == CaseOver({"UNDER_REVIEW", "ESCALATED"}) /\ OnlyCase

\* review ESCALATE_TO_DISPUTE: one dispute per order, and the order is still
\* where it was when cancellation was requested.
EscalateToDispute ==
  /\ CaseOver({"UNDER_REVIEW", "ESCALATED"})
  /\ dispute = NoCase
  /\ order.status = case.prev
  /\ dispute' = [status |-> "OPEN", prev |-> order.status]
  /\ Moved("DISPUTED")
  /\ UNCHANGED <<assignment, revision, rounds, refund, listed>>
  /\ Keep

FinanceApprove ==
  /\ CaseTo({"PENDING_FINANCE"}, "APPROVED")
  /\ RefundOrder("CASE")
  /\ Bump
  /\ UNCHANGED <<dispute, listed>>

\* forceCancel of an order that is not final; it leaves the case and the
\* dispute as they are.
ForceCancel ==
  /\ order.status # "COMPLETED"
  /\ RefundOrder("FORCED")
  /\ Bump
  /\ UNCHANGED <<case, dispute, listed>>

\* openDispute, up to the acceptance of the delivery
OpenDispute ==
  /\ order.status \in {"PUBLISHED", "VERIFIED"}
  /\ ~ActiveCase
  /\ dispute = NoCase
  /\ dispute' = [status |-> "OPEN", prev |-> order.status]
  /\ Moved("DISPUTED")
  /\ UNCHANGED <<assignment, revision, rounds, case, refund, listed>>
  /\ Keep

\* resolveDispute RESTORE or REJECT; an emergency cancellation may have won.
RestoreDispute ==
  /\ dispute.status = "OPEN"
  /\ dispute' = [status |-> "RESTORED", prev |-> "NONE"]
  /\ Moved(IF order.status = "DISPUTED" THEN dispute.prev ELSE order.status)
  /\ UNCHANGED <<assignment, revision, rounds, case, refund, listed>>
  /\ Keep

RefundDispute ==
  /\ dispute.status = "OPEN"
  /\ dispute' = [status |-> "REFUNDED", prev |-> "NONE"]
  /\ RefundOrder("DISPUTE")
  /\ Bump
  /\ UNCHANGED <<case, listed>>

-----------------------------------------------------------------------------

\* A verdict or an intervention that moves the order advances its version.
Verify ==
  /\ DeliveryStep
  /\ IF order' = order THEN UNCHANGED request ELSE Bump
  /\ UNCHANGED <<assignment, revision, rounds, case, dispute, refund, listed>>

RequestStep(r) ==
  \/ \E op \in Jobs, by \in Operators \cup {Admin, Publisher} :
       ReadWork(r, op, by)
  \/ \E op \in {"claim", "assign"}, u \in Operators : ReadAssign(r, op, u)
  \/ Work(r) \/ Assign(r) \/ Refuse(r)

CaseStep ==
  \/ CreateRequest \/ AcceptRequest \/ ContestRequest \/ EscalateRequest
  \/ RecommendRefund \/ ContinueOrder \/ EscalateToDispute \/ FinanceApprove

Next ==
  \/ \E r \in Requests : RequestStep(r)
  \/ PublisherSubmits \/ ApproveContent \/ RequestRevision
  \/ CustomerAccept \/ CustomerAcceptFlagged
  \/ CancelUnaccepted("CANCELLED") \/ CancelUnaccepted("DECLINED")
  \/ ForceCancel \/ ListUnaccepted \/ TimeOut \/ SkipListed
  \/ CaseStep
  \/ OpenDispute \/ RestoreDispute \/ RefundDispute
  \/ Verify

Spec == Init /\ [][Next]_vars

\* The dispatch sweep runs every few minutes, a waiting job is taken by some
\* worker, and a fetch has a timeout, so that its run ends.
Fairness ==
  /\ WF_vars(Dispatch /\ Verify)
  /\ WF_vars((\E w \in Workers : StartRun(w)) /\ Verify)
  /\ \A w \in Workers : WF_vars(Outcome(w) /\ Verify)

FairSpec == Spec /\ Fairness

-----------------------------------------------------------------------------
(* Properties *)

Assignments ==
  [status : {"NONE", "ASSIGNED", "IN_PROGRESS"}, user : Operators \cup {None}]

TypeOK ==
  /\ order \in [channel : Channels, status : Statuses, accepted : BOOLEAN]
  /\ DeliveryTypeOK
  /\ assignment \in Assignments
  /\ revision \in BOOLEAN
  /\ rounds \in 0..MaxRevisions
  /\ case \in [status : ActiveCases \cup {"NONE", "APPROVED"},
               prev : Working \cup {"NONE"}]
  /\ dispute \in [status : {"NONE", "OPEN", "RESTORED", "REFUNDED"},
                  prev : Working \cup {"NONE", "PUBLISHED", "VERIFIED"}]
  /\ listed \in BOOLEAN
  /\ refund \in Unaccepted \cup {"NONE", "CASE", "FORCED", "DISPUTE"}
  /\ request \in [Requests ->
       [op : {"idle", "accept", "content", "ready", "review", "submit",
               "publish", "claim", "assign"},
        status : Unpublished \cup {"NONE"},
        by : Operators \cup {None, Admin, Publisher},
        assignment : Assignments]]

\* While a cancellation case is open the order stays where the case found it,
\* although fulfilment requests that saw no case are still under way; only an
\* emergency cancellation overtakes a case (createRequest's version claim,
\* assertNoActiveCancellation, transitionOrderCas).
FulfilmentPaused ==
  ActiveCase => \/ order.status = case.prev
                \/ order.status = "REFUNDED" /\ refund = "FORCED"

\* A refund is final and has one ground: the order stays REFUNDED, and an
\* approved case or a dispute resolved by refund is the ground of it
\* (refundOrderInTransaction against a late resolveDispute or respond).  Work
\* that was accepted is never cancelled by the paths for unaccepted orders, in
\* particular not by a sweep that listed the order before (cancelNow, decline,
\* processAcceptanceTimeoutOrderInTransaction).
RefundGrounded ==
  /\ refund # "NONE" <=> order.status = "REFUNDED"
  /\ case.status = "APPROVED" <=> refund = "CASE"
  /\ dispute.status = "REFUNDED" <=> refund = "DISPUTE"
  /\ order.accepted => refund \notin Unaccepted

\* An order leaves the operations queue with its fulfilment: neither a
\* published nor a refunded order keeps an active assignment, not even when a
\* SUPER_ADMIN publishes what an operator is claiming (beforeCommit of
\* markPublished, claim, refundOrderInTransaction).
AssignmentsClosed ==
  order.status \in {"PUBLISHED", "VERIFIED", "DELIVERED", "COMPLETED",
                    "REFUNDED"} => ~Assigned

\* An operator moves a platform order only while it is assigned to them: a
\* request read before a reassignment does not commit after it, although
\* markContentReady and submitForReview do not look at the assignment again.
WorkByAssignee ==
  [][\A r \in Requests :
       request[r].by \in Operators /\ request[r].op \in Jobs
         /\ order'.status # order.status /\ request'[r] # request[r]
         => Assigned /\ assignment.user = request[r].by]_vars

\* A run decides only on the state its fetch belongs to: it replaces an
\* undecided delivery that staff have not touched since the run began, also
\* when a stalled job is run twice (readActiveDeliveryForMutation).
VerdictsFenced ==
  [][\A w \in Workers :
       run'[w] # run[w] /\ delivery' # delivery
         => /\ delivery.verification \in Undecided
            /\ delivery.intervention = run[w].intervention]_vars

\* A published delivery does not stay undecided: enqueues are lost, jobs stall,
\* fail or exhaust their attempts, and the dispatch sweep brings them back
\* (dispatchPendingDeliveryVerifications, runDeliveryVerification).
DeliveriesDecided ==
  Published /\ delivery.verification \in Undecided
    ~> ~Published \/ delivery.verification \notin Undecided

=============================================================================
