-------------------------- MODULE OrderSettlement --------------------------
(***************************************************************************)
(* Money of a verified order: acceptance of the delivery by the customer   *)
(* or the auto-accept sweep, the settlement row and its approvals, manual  *)
(* and automatic release to the publisher balance, order disputes, fraud   *)
(* holds and findings, link rechecks, and the refunds that claw a release  *)
(* back.                                                                   *)
(*                                                                         *)
(* Requests that read before their transaction and every sweep are lanes:  *)
(* the read and the transaction are separate actions, and the commit       *)
(* repeats the checks its transaction makes under the order lock.  A       *)
(* handler that works in one locked transaction is one action.  The        *)
(* triggers on settlements and on orders with confirmed fraud repeat the   *)
(* services' guards; where only the trigger says no, it is a guard here.   *)
(*                                                                         *)
(* Time is not measured: evidence may age, a warranty may end and a sweep  *)
(* may select at any moment; only the order of the dates that are compared *)
(* with each other is kept.  Roles, reasons, ages and the publisher's risk *)
(* are free refusals; a page answers as it likes.                          *)
(* All publisher orders belong to one publisher, with one balance.         *)
(***************************************************************************)
EXTENDS Integers, FiniteSets, FiniteSetsExt, Functions

CONSTANTS
  Orders,          \* paid orders that reached VERIFIED
  Gross,           \* Gross[o]: the captured amount
  Fee,             \* Fee[o]: the platform fee in it
  Channels,        \* the channels orders are fulfilled through
  Methods,         \* how orders get verified: verifyMethod
  Warranted,       \* orders whose listing has a warranty
  RequestLanes,    \* concurrent requests that read before they commit
  SweepLanes,      \* concurrent sweeps
  Withdrawing,     \* the publisher asks for withdrawals
  MaxSettlements,  \* bound: settlement rows per order
  MaxReuse,        \* bound: URL reuse signals
  MaxVersion,      \* bound: version from which a settlement is not sent back
  MaxChecks,       \* bound: verificationVersion from which no delivery fails
  None             \* SQL null

Lanes == RequestLanes \cup SweepLanes
Rows == 1..MaxSettlements
Marks == SweepLanes \cup {"removal"}
Net(o) == Gross[o] - Fee[o]

ASSUME ConstantsAssumption ==
  /\ IsFiniteSet(Orders)
  /\ Gross \in [Orders -> Nat] /\ Fee \in [Orders -> Nat]
  /\ \A o \in Orders : Fee[o] <= Gross[o]
  /\ Channels \subseteq {"PUBLISHER", "PLATFORM"}
  /\ Methods \subseteq {"AUTO", "MANUAL_ADMIN"}
  /\ Warranted \subseteq Orders
  /\ RequestLanes \cap SweepLanes = {}
  /\ Lanes \cap {"evidence", "removal"} = {}
  /\ Withdrawing \in BOOLEAN
  /\ MaxSettlements \in Nat /\ MaxReuse \in Nat /\ MaxVersion \in Nat
  /\ MaxChecks \in Nat
  /\ None \notin Orders

VARIABLES
  order,         \* Order rows: channel, verifyMethod, status, version,
                 \* warrantyEndsAt
  settlement,    \* Settlement rows of each order, in order of creation
  dispute,       \* the OrderDispute row of each order
  handoff,       \* the cancellation case a confirmed finding opens
  holds,         \* DeliveryFraudHold rows: signals without a clean resolution
  finding,       \* DeliveryFraudFinding rows: confirmed signals
  delivery,      \* the active delivery: verification and verificationVersion
  evidence,      \* its evidence row with the latest checkedAt
  later,         \* later[o][m]: what is dated after mark m
  refund,        \* the REFUND transaction and publisher compensation
  revenue,       \* PlatformRevenue of platform orders
  balance,       \* PublisherBalance, with the amount withdrawn from it
  lane,          \* what each request and sweep has read
  reuse          \* URL reuse signals so far

orderVars == <<order, dispute, handoff>>
evidenceVars == <<evidence, later>>
deliveryVars == <<holds, finding, delivery, evidence, later>>
moneyVars == <<settlement, refund, revenue, balance>>
vars == <<order, settlement, dispute, handoff, holds, finding, delivery,
          evidence, later, refund, revenue, balance, lane, reuse>>

-----------------------------------------------------------------------------
(* State *)

OrderStatuses ==
  {"PUBLISHED", "VERIFIED", "DELIVERED", "COMPLETED", "DISPUTED", "REFUNDED"}
Reviewable == {"PENDING", "UNDER_REVIEW"}
Unreleased == Reviewable \cup {"CUSTOMER_APPROVED"}
SettlementStatuses == Unreleased \cup {"ABSENT", "RELEASED", "CANCELLED"}
OpenDispute == {"OPEN", "UNDER_REVIEW"}
SafeDispute == {"NONE", "RESTORED"}  \* "RESTORED": or "REJECTED"
Signals == {"LINK_REMOVED", "URL_REUSED"}

\* The latest evidence shows the link and is under 12 hours old, shows the link
\* but is older, or shows no link (or there is none).
Evidences == {"fresh", "aged", "missing"}

NoSettlement == [status |-> "ABSENT", version |-> 0, policy |-> "MANUAL"]
NoRefund == [amount |-> 0, comp |-> 0, fee |-> 0]
NoBalance == [withdrawable |-> 0, debt |-> 0, lifetime |-> 0, withdrawn |-> 0]

\* What a lane works on: a settlement row, an order or a delivery.
RowJobs == {"customer", "admin", "force", "cancel", "return", "autoApprove",
            "autoRelease"}
OrderJobs == {"accept", "create", "dispute"}
FetchJobs == {"fetch", "present", "removed"}
Jobs == {"idle", "recheck"} \cup RowJobs \cup OrderJobs \cup FetchJobs

\* job: the request or sweep; row: settlement row; status and version: what was
\* read of the order, settlement or delivery; flag: an unresolved LINK_REMOVED
\* signal was read.
Idle == [job |-> "idle", order |-> None, row |-> 0, status |-> "NONE",
         version |-> 0, flag |-> FALSE]

Init ==
  /\ \E channel \in [Orders -> Channels], method \in [Orders -> Methods] :
       order = [o \in Orders |->
                  [channel |-> channel[o], verifyMethod |-> method[o],
                   status |-> "VERIFIED", version |-> 0, warranty |-> "none"]]
  /\ settlement = [o \in Orders |-> [n \in Rows |-> NoSettlement]]
  /\ dispute = [o \in Orders |-> [status |-> "NONE", prev |-> "NONE"]]
  /\ handoff = [o \in Orders |-> "ABSENT"]
  /\ holds = [o \in Orders |-> {}]
  /\ finding = [o \in Orders |-> {}]
  /\ delivery = [o \in Orders |-> [state |-> "VERIFIED", version |-> 0]]
  /\ evidence = [o \in Orders |->
       IF order[o].verifyMethod = "AUTO" THEN "fresh" ELSE "missing"]
  /\ later = [o \in Orders |-> [m \in Marks |-> {}]]
  /\ refund = [o \in Orders |-> NoRefund]
  /\ revenue = [o \in Orders |-> "NONE"]
  /\ balance = NoBalance
  /\ lane = [l \in Lanes |-> Idle]
  /\ reuse = 0

Publisher(o) == order[o].channel = "PUBLISHER"
Active(o) == {n \in Rows : settlement[o][n].status \notin {"ABSENT", "CANCELLED"}}
ActiveCase(o) == handoff[o] \in {"ESCALATED", "PENDING_FINANCE"}

\* Mutant: resolved signals are counted instead of holds, so a confirmed
\* finding no longer blocks.
MutUnblocked(o) ==
  /\ delivery[o].state = "VERIFIED"
  /\ dispute[o].status \in SafeDispute
  /\ holds[o] \ finding[o] = {}

\* evaluateSettlementEligibility, without the order status.
Unblocked(o) ==
  /\ delivery[o].state = "VERIFIED"
  /\ dispute[o].status \in SafeDispute
  /\ handoff[o] = "ABSENT"
  /\ holds[o] = {}

Eligible(o) == order[o].status = "DELIVERED" /\ Unblocked(o)

Moved(o, status) == [order EXCEPT ![o].status = status, ![o].version = @ + 1]

Rest(l) == lane' = [lane EXCEPT ![l] = Idle]
At(l) == lane[l].order
Job(l, job) == lane[l].job = job

\* The settlement row the lane has read, as it is now.
Row(l) == settlement[At(l)][lane[l].row]

\* The row still has the status and version that were read.
Same(l) == Row(l).status = lane[l].status /\ Row(l).version = lane[l].version

\* The order still has the status and version that were read.
SameOrder(l) ==
  /\ order[At(l)].status = lane[l].status
  /\ order[At(l)].version = lane[l].version

-----------------------------------------------------------------------------
(* Acceptance of the delivery *)

\* computeSettlementReleasePolicy: what staff verified is released by staff;
\* else the publisher's tier, the amount and the customer's history decide.
Policies(o) ==
  IF order[o].verifyMethod = "MANUAL_ADMIN" THEN {"MANUAL"} ELSE {"AUTO", "MANUAL"}

\* The one active settlement of an order is a unique index.
NewSettlement(o) ==
  /\ Active(o) = {}
  /\ \E n \in Rows, policy \in Policies(o) :
       /\ settlement[o][n].status = "ABSENT"
       /\ \A m \in 1..(n - 1) : settlement[o][m].status # "ABSENT"
       /\ settlement' = [settlement EXCEPT ![o][n] =
            [status |-> "PENDING", version |-> 0, policy |-> policy]]

\* createSettlementForOrder: a platform order has no payee and completes.
Accept(o) ==
  /\ order[o].status = "VERIFIED"
  /\ Unblocked(o)
  /\ \/ /\ Publisher(o)
        /\ order' = Moved(o, "DELIVERED")
        /\ NewSettlement(o)
        /\ UNCHANGED revenue
     \/ /\ ~Publisher(o)
        /\ order' = [order EXCEPT ![o].status = "COMPLETED",
             ![o].version = @ + 2,
             ![o].warranty = IF o \in Warranted THEN "open" ELSE "none"]
        /\ revenue' = [revenue EXCEPT ![o] = "RECOGNIZED"]
        /\ UNCHANGED settlement

ConfirmDelivery(o) ==
  /\ Accept(o)
  /\ UNCHANGED <<dispute, handoff, deliveryVars, refund, balance,
                 lane, reuse>>

\* refreshDeliveryUrlReuseEvidenceUnderLock: the boundary check finds the URL
\* claimed by another order.  The hold commits although the request is refused.
FlagReuse(o) ==
  /\ reuse < MaxReuse
  /\ reuse' = reuse + 1
  /\ "URL_REUSED" \notin holds[o]
  /\ holds' = [holds EXCEPT ![o] = @ \cup {"URL_REUSED"}]
  /\ UNCHANGED <<orderVars, finding, delivery, evidenceVars, moneyVars>>

ConfirmFlagged(o) ==
  /\ order[o].status = "VERIFIED"
  /\ ~ActiveCase(o)
  /\ FlagReuse(o)
  /\ UNCHANGED lane

\* The auto-accept sweep selects orders long VERIFIED.
SelectAccept(l, o) ==
  /\ lane[l] = Idle
  /\ order[o].status = "VERIFIED"
  /\ dispute[o].status \notin OpenDispute
  /\ ~ActiveCase(o)
  /\ lane' = [lane EXCEPT ![l] =
       [Idle EXCEPT !.job = "accept", !.order = o, !.status = "VERIFIED",
                    !.version = order[o].version]]
  /\ UNCHANGED <<orderVars, deliveryVars, moneyVars, reuse>>

AutoAccept(l) ==
  /\ Job(l, "accept")
  /\ SameOrder(l)
  /\ Accept(At(l))
  /\ Rest(l)
  /\ UNCHANGED <<dispute, handoff, deliveryVars, refund, balance,
                 reuse>>

-----------------------------------------------------------------------------
(* Settlement requests *)

\* findUnique of the settlement before the transaction.
Read(l, job, o, n, statuses) ==
  /\ lane[l] = Idle
  /\ settlement[o][n].status \in statuses
  /\ lane' = [lane EXCEPT ![l] =
       [Idle EXCEPT !.job = job, !.order = o, !.row = n,
                    !.status = settlement[o][n].status,
                    !.version = settlement[o][n].version]]
  /\ UNCHANGED <<orderVars, deliveryVars, moneyVars, reuse>>

ReadCustomerApprove(l, o, n) ==
  dispute[o].status \notin OpenDispute /\ Read(l, "customer", o, n, Reviewable)
ReadAdminApprove(l, o, n) == Read(l, "admin", o, n, {"CUSTOMER_APPROVED"})
ReadForceApprove(l, o, n) == Read(l, "force", o, n, Unreleased)
ReadCancel(l, o, n) == Read(l, "cancel", o, n, Unreleased \cup {"CANCELLED"})
ReadReturn(l, o, n) == Read(l, "return", o, n, {"CUSTOMER_APPROVED"})

\* settlement.updateMany of the row the lane has read.
Settled(l, status, steps) ==
  settlement' = [settlement EXCEPT ![At(l)][lane[l].row].status = status,
                                   ![At(l)][lane[l].row].version = @ + steps]

OnlySettlement ==
  UNCHANGED <<orderVars, deliveryVars, refund, revenue, balance,
              reuse>>

\* customerApprove, and the CUSTOMER approval of forceApprove
Approve(l) ==
  /\ lane[l].job \in {"customer", "force"}
  /\ Eligible(At(l))
  /\ Same(l) /\ Row(l).status \in Reviewable
  /\ Settled(l, "CUSTOMER_APPROVED", 1)
  /\ Rest(l)
  /\ OnlySettlement

\* Mutant: debt is repaid and the whole amount is credited too.
MutCredited(b, amount) ==
  [b EXCEPT !.withdrawable = @ + amount,
            !.debt = @ - Min({b.debt, amount}),
            !.lifetime = @ + amount]

\* Earnings repay debt first.
Credited(b, amount) ==
  [b EXCEPT !.withdrawable = @ + amount - Min({b.debt, amount}),
            !.debt = @ - Min({b.debt, amount}),
            !.lifetime = @ + amount]

\* The warranty runs from deliveredAt, so it may be over at the release.
Warranties(o) == IF o \in Warranted THEN {"open", "over"} ELSE {"none"}

\* adminApprove and forceApprove: the ADMIN approval and releaseFundsInternal.
AdminRelease(l) ==
  /\ lane[l].job \in {"admin", "force"}
  /\ Eligible(At(l))
  /\ Same(l) /\ Row(l).status = "CUSTOMER_APPROVED"
  /\ Settled(l, "RELEASED", 2)
  /\ \E w \in Warranties(At(l)) :
       order' = [order EXCEPT ![At(l)].status = "COMPLETED",
                              ![At(l)].version = @ + 1, ![At(l)].warranty = w]
  /\ balance' = Credited(balance, Net(At(l)))
  /\ Rest(l)
  /\ UNCHANGED <<dispute, handoff, deliveryVars, refund, revenue,
                 reuse>>

\* Mutant: the row is cancelled by id, whatever happened since it was read.
MutCancelSettlement(l) ==
  /\ Job(l, "cancel")
  /\ Settled(l, "CANCELLED", 1)
  /\ Rest(l)
  /\ OnlySettlement

\* cancelSettlement compares the version alone.
CancelSettlement(l) ==
  /\ Job(l, "cancel")
  /\ Row(l).version = lane[l].version
  /\ Row(l).version < MaxVersion
  /\ Settled(l, "CANCELLED", 1)
  /\ Rest(l)
  /\ OnlySettlement

ReturnToReview(l) ==
  /\ Job(l, "return")
  /\ Same(l)
  /\ Row(l).version < MaxVersion
  /\ Settled(l, "UNDER_REVIEW", 1)
  /\ Rest(l)
  /\ OnlySettlement

\* createSettlement by staff, for a delivered order whose row was cancelled.
ReadCreate(l, o) ==
  /\ lane[l] = Idle
  /\ Eligible(o)
  /\ lane' = [lane EXCEPT ![l] =
       [Idle EXCEPT !.job = "create", !.order = o, !.status = "DELIVERED",
                    !.version = order[o].version]]
  /\ UNCHANGED <<orderVars, deliveryVars, moneyVars, reuse>>

CreateSettlement(l) ==
  /\ Job(l, "create")
  /\ SameOrder(l)
  /\ Eligible(At(l))
  /\ NewSettlement(At(l))
  /\ Rest(l)
  /\ OnlySettlement

-----------------------------------------------------------------------------
(* Settlement sweeps *)

SelectApprove(l, o, n) == Read(l, "autoApprove", o, n, Reviewable)

AutoApprove(l) ==
  /\ Job(l, "autoApprove")
  /\ Eligible(At(l))
  /\ Same(l)
  /\ Settled(l, "CUSTOMER_APPROVED", 1)
  /\ Rest(l)
  /\ OnlySettlement

SelectRelease(l, o, n) ==
  /\ settlement[o][n].policy = "AUTO"
  /\ Read(l, "autoRelease", o, n, {"CUSTOMER_APPROVED"})

\* Mutant: the candidate list decides; only the settlement is compared again.
MutAutoRelease(l) ==
  /\ Job(l, "autoRelease")
  /\ Same(l)
  /\ Settled(l, "RELEASED", 1)
  /\ order' = Moved(At(l), "COMPLETED")
  /\ balance' = Credited(balance, Net(At(l)))
  /\ Rest(l)
  /\ UNCHANGED <<dispute, handoff, deliveryVars, refund, revenue,
                 reuse>>

\* Everything but the identity of the row is read again under the lock.
AutoRelease(l) ==
  /\ Job(l, "autoRelease")
  /\ Row(l).status = "CUSTOMER_APPROVED" /\ Row(l).policy = "AUTO"
  /\ Eligible(At(l))
  /\ evidence[At(l)] = "fresh"
  /\ Settled(l, "RELEASED", 1)
  /\ order' = Moved(At(l), "COMPLETED")
  /\ balance' = Credited(balance, Net(At(l)))
  /\ Rest(l)
  /\ UNCHANGED <<dispute, handoff, deliveryVars, refund, revenue,
                 reuse>>

\* runDeliveryLinkRecheck.  Evidence is dated with the start of its recheck, so
\* the order of the commits is not that of the rows.  Marks are the starts of
\* running rechecks and the creation of the open LINK_REMOVED signal: of each,
\* which other marks, and whether the latest "evidence", have a later date.

\* Mark x is made now.
MarkedNow(t, x) == [m \in Marks |-> IF m = x THEN {} ELSE t[m] \cup {x}]

\* Mark x is gone: the recheck is over, or the signal resolved.
Unmarked(t, x) == [m \in Marks |-> IF m = x THEN {} ELSE t[m] \ {x}]

\* The evidence row with the date of mark m is on record.
Recorded(t, m) ==
  IF "evidence" \in t[m] THEN t
  ELSE [y \in Marks |-> IF y = m \/ m \in t[y] THEN t[y] \cup {"evidence"}
                        ELSE t[y] \ {"evidence"}]

\* The latest evidence once a row with the date of mark m is on record.
Latest(o, m, row) == IF "evidence" \in later[o][m] THEN evidence[o] ELSE row

\* The sweep takes the deliveries of unreleased settlements.
StartRecheck(l, o) ==
  /\ lane[l] = Idle
  /\ \E n \in Rows : settlement[o][n].status \in Unreleased
  /\ lane' = [lane EXCEPT ![l] = [Idle EXCEPT !.job = "recheck", !.order = o]]
  /\ later' = [later EXCEPT ![o] = MarkedNow(@, l)]
  /\ UNCHANGED <<orderVars, holds, finding, delivery, evidence, moneyVars, reuse>>

\* A rejected delivery is only watched for the return of a removed link.
RemovalOpen(o) == "LINK_REMOVED" \in holds[o] \ finding[o]

ReadRecheck(l) ==
  /\ Job(l, "recheck")
  /\ delivery[At(l)].state = "VERIFIED" \/ RemovalOpen(At(l))
  /\ lane' = [lane EXCEPT ![l] =
       [@ EXCEPT !.job = "fetch", !.version = delivery[At(l)].version,
                 !.flag = delivery[At(l)].state = "REJECTED"]]
  /\ UNCHANGED <<orderVars, deliveryVars, moneyVars, reuse>>

\* The page is fetched outside any transaction.  A page that does not answer is
\* no verdict, and a link that is still gone needs no write (Abandon).
FetchPresent(l) ==
  /\ Job(l, "fetch")
  /\ lane' = [lane EXCEPT ![l].job = "present"]
  /\ UNCHANGED <<orderVars, deliveryVars, moneyVars, reuse>>

FetchRemoved(l) ==
  /\ Job(l, "fetch")
  /\ delivery[At(l)].version < MaxChecks
  /\ ~lane[l].flag
  /\ lane' = [lane EXCEPT ![l].job = "removed"]
  /\ UNCHANGED <<orderVars, deliveryVars, moneyVars, reuse>>

SameDelivery(l) == delivery[At(l)].version = lane[l].version

\* Mutant: a restoration is dated like every other recheck.
MutRestoredAt(l) == l

\* The start of the recheck, or just after the signal if that is later.
RestoredAt(l) == IF "removal" \in later[At(l)][l] THEN "removal" ELSE l

RecordRestored(l) ==
  /\ Job(l, "present") /\ lane[l].flag
  /\ SameDelivery(l)
  /\ RemovalOpen(At(l))
  /\ delivery' = [delivery EXCEPT ![At(l)] =
       [state |-> "VERIFIED", version |-> @.version + 1]]
  /\ holds' = [holds EXCEPT ![At(l)] = @ \ {"LINK_REMOVED"}]
  /\ evidence' = [evidence EXCEPT ![At(l)] = Latest(At(l), RestoredAt(l), "fresh")]
  /\ later' = [later EXCEPT ![At(l)] =
       Unmarked(Unmarked(Recorded(@, RestoredAt(l)), l), "removal")]
  /\ Rest(l)
  /\ UNCHANGED <<orderVars, finding, moneyVars, reuse>>

\* Mutant: the check passes without new evidence.
MutRecordPresent(l) ==
  /\ Job(l, "present") /\ ~lane[l].flag
  /\ SameDelivery(l)
  /\ Rest(l)
  /\ UNCHANGED <<orderVars, deliveryVars, moneyVars, reuse>>

RecordPresent(l) ==
  /\ Job(l, "present") /\ ~lane[l].flag
  /\ SameDelivery(l) /\ delivery[At(l)].state = "VERIFIED"
  /\ evidence' = [evidence EXCEPT ![At(l)] = Latest(At(l), l, "fresh")]
  /\ later' = [later EXCEPT ![At(l)] = Unmarked(Recorded(@, l), l)]
  /\ Rest(l)
  /\ UNCHANGED <<orderVars, holds, finding, delivery, moneyVars, reuse>>

\* The signal is created unless one is still open.
RecordRemoved(l) ==
  /\ Job(l, "removed")
  /\ SameDelivery(l) /\ delivery[At(l)].state = "VERIFIED"
  /\ delivery' = [delivery EXCEPT ![At(l)] =
       [state |-> "REJECTED", version |-> @.version + 1]]
  /\ holds' = [holds EXCEPT ![At(l)] = @ \cup {"LINK_REMOVED"}]
  /\ evidence' = [evidence EXCEPT ![At(l)] = Latest(At(l), l, "missing")]
  /\ later' = [later EXCEPT ![At(l)] =
       IF "LINK_REMOVED" \in holds[At(l)] THEN Unmarked(Recorded(@, l), l)
       ELSE MarkedNow(Unmarked(Recorded(@, l), l), "removal")]
  /\ Rest(l)
  /\ UNCHANGED <<orderVars, finding, moneyVars, reuse>>

\* The request is refused, its transaction rolls back, or its process stops.
Abandon(l) ==
  /\ lane[l] # Idle
  /\ Rest(l)
  /\ later' = [o \in Orders |-> Unmarked(later[o], l)]
  /\ UNCHANGED <<orderVars, holds, finding, delivery, evidence, moneyVars, reuse>>

\* The locked eligibility check of a request or sweep raises the hold.
LaneFlagged(l) ==
  /\ \/ lane[l].job \in {"customer", "admin", "force", "create", "autoApprove",
                         "autoRelease"}
     \/ Job(l, "accept") /\ SameOrder(l)
  /\ FlagReuse(At(l))
  /\ Rest(l)

-----------------------------------------------------------------------------
(* Refunds *)

\* Mutant: the balance goes negative instead of the remainder becoming debt.
MutClawedBack(b, amount) ==
  [b EXCEPT !.withdrawable = @ - amount, !.lifetime = @ - amount]

\* What is no longer withdrawable becomes debt.
ClawedBack(b, amount) ==
  [b EXCEPT !.withdrawable = @ - Min({b.withdrawable, amount}),
            !.debt = @ + amount - Min({b.withdrawable, amount}),
            !.lifetime = @ - amount]

Released(o) == \E n \in Rows : settlement[o][n].status = "RELEASED"

\* Mutant: neither the channel nor the fee limits the compensation.
MutCompensations(o, offset) == 0..Gross[o]

\* resolvePublisherCompensation: the compensations staff may decide on.
Compensations(o, offset) ==
  IF ~Publisher(o) THEN {0}
  ELSE 0..(IF offset \/ Active(o) # {} THEN Net(o) ELSE Gross[o])

\* An offset compensation, and the fee on it, come out of the customer's money.
RefundOf(o, comp, offset) ==
  LET fee == IF offset /\ comp > 0 THEN Fee[o] ELSE 0
  IN  [amount |-> IF offset THEN Gross[o] - comp - fee ELSE Gross[o],
       comp |-> comp, fee |-> fee]

\* Revenue is reversed, never deleted.
Reversed(o) ==
  [revenue EXCEPT ![o] = IF @ = "RECOGNIZED" THEN "REVERSED" ELSE @]

Cancelled(row) == [row EXCEPT !.status = "CANCELLED", !.version = @ + 1]

\* refundOrderInTransaction
Refund(o, comp, offset) ==
  /\ order[o].status # "REFUNDED"
  /\ order' = Moved(o, "REFUNDED")
  /\ refund' = [refund EXCEPT ![o] = RefundOf(o, comp, offset)]
  /\ balance' = Credited(ClawedBack(balance, IF Released(o) THEN Net(o) ELSE 0),
                         comp)
  /\ settlement' = [settlement EXCEPT ![o] =
       [n \in Rows |-> IF n \in Active(o) THEN Cancelled(@[n]) ELSE @[n]]]
  /\ revenue' = Reversed(o)
  /\ UNCHANGED <<deliveryVars, reuse>>

\* forceCancel: confirmed fraud goes through finance.
ForceCancel(o) ==
  /\ finding[o] = {}
  /\ \E comp \in Compensations(o, TRUE) : Refund(o, comp, TRUE)
  /\ UNCHANGED <<dispute, handoff, lane>>

\* financeApprove: the fraud trigger accepts the full amount only.
FinanceApprove(o) ==
  /\ handoff[o] = "PENDING_FINANCE"
  /\ Refund(o, 0, TRUE)
  /\ handoff' = [handoff EXCEPT ![o] = "APPROVED"]
  /\ UNCHANGED <<dispute, lane>>

-----------------------------------------------------------------------------
(* Order disputes *)

\* decideOrderCancellation for a customer: one dispute per order, ever.
Disputable(o) ==
  /\ ~ActiveCase(o)
  /\ dispute[o].status = "NONE"
  /\ \/ order[o].status \in {"PUBLISHED", "VERIFIED", "DELIVERED"}
     \/ order[o].status = "COMPLETED" /\ order[o].warranty = "open"

ReadDispute(l, o) ==
  /\ lane[l] = Idle
  /\ Disputable(o)
  /\ lane' = [lane EXCEPT ![l] =
       [Idle EXCEPT !.job = "dispute", !.order = o, !.status = order[o].status,
                    !.version = order[o].version]]
  /\ UNCHANGED <<orderVars, deliveryVars, moneyVars, reuse>>

OpenOrderDispute(l) ==
  /\ Job(l, "dispute")
  /\ SameOrder(l)
  /\ Disputable(At(l))
  /\ order' = Moved(At(l), "DISPUTED")
  /\ dispute' = [dispute EXCEPT ![At(l)] =
       [status |-> "OPEN", prev |-> order[At(l)].status]]
  /\ Rest(l)
  /\ UNCHANGED <<handoff, deliveryVars, moneyVars, reuse>>

MarkUnderReview(o) ==
  /\ dispute[o].status = "OPEN"
  /\ dispute' = [dispute EXCEPT ![o].status = "UNDER_REVIEW"]
  /\ UNCHANGED <<order, handoff, deliveryVars, moneyVars, lane, reuse>>

\* The trigger on orders: confirmed fraud ends in the refund finance approved.
FraudAllows(o, status) ==
  \/ finding[o] = {}
  \/ status \notin {"COMPLETED", "REFUNDED"}
  \/ handoff[o] = "APPROVED"

\* resolveDispute RESTORE or REJECT, told apart by name only.  A cancellation may have won in between.
RestoreDispute(o) ==
  /\ dispute[o].status \in OpenDispute
  /\ LET to == IF order[o].status = "DISPUTED" THEN dispute[o].prev
               ELSE order[o].status
     IN  /\ FraudAllows(o, to)
         /\ order' = Moved(o, to)
  /\ dispute' = [dispute EXCEPT ![o].status = "RESTORED"]
  /\ UNCHANGED <<handoff, deliveryVars, moneyVars, lane, reuse>>

\* resolveDispute REFUND
RefundDispute(o) ==
  /\ dispute[o].status \in OpenDispute
  /\ finding[o] = {}
  /\ \E comp \in Compensations(o, FALSE) : Refund(o, comp, FALSE)
  /\ dispute' = [dispute EXCEPT ![o].status = "REFUNDED"]
  /\ UNCHANGED <<handoff, lane>>

-----------------------------------------------------------------------------
(* Fraud decisions *)

\* resolveFraudFlag: the hold goes, the delivery stays as it is.
ClearHold(o, h) ==
  /\ h \in holds[o] \ finding[o]
  /\ holds' = [holds EXCEPT ![o] = @ \ {h}]
  /\ UNCHANGED <<orderVars, finding, delivery, evidenceVars, moneyVars, lane,
                 reuse>>

Confirmable(o) == order[o].status \notin {"COMPLETED", "REFUNDED"}

\* confirmFraud opens, or joins, the cancellation case of the order.
ConfirmFraud(o, h) ==
  /\ h \in holds[o] \ finding[o]
  /\ Confirmable(o)
  /\ finding' = [finding EXCEPT ![o] = @ \cup {h}]
  /\ order' = [order EXCEPT ![o].version = @ + 1]
  /\ handoff' = [handoff EXCEPT ![o] = IF @ = "ABSENT" THEN "ESCALATED" ELSE @]
  /\ UNCHANGED <<dispute, holds, delivery, evidenceVars, moneyVars, lane,
                 reuse>>

\* review: with confirmed fraud only FULL_REFUND is accepted.
ReviewHandoff(o) ==
  /\ handoff[o] = "ESCALATED"
  /\ handoff' = [handoff EXCEPT ![o] = "PENDING_FINANCE"]
  /\ UNCHANGED <<order, dispute, deliveryVars, moneyVars, lane, reuse>>

-----------------------------------------------------------------------------
(* Back to verification *)

\* override to FAILED, by staff.  The evidence stays what it is.
OverrideFailed(o) ==
  /\ order[o].status = "VERIFIED"
  /\ delivery[o].version < MaxChecks
  /\ order' = [order EXCEPT ![o].status = "PUBLISHED", ![o].version = @ + 1,
                            ![o].verifyMethod = "NONE"]
  /\ delivery' = [delivery EXCEPT ![o] =
       [state |-> "REJECTED", version |-> @.version + 1]]
  /\ UNCHANGED <<dispute, handoff, holds, finding, evidenceVars, moneyVars, lane,
                 reuse>>

\* The order is verified again, by a run that found the link or by staff, on
\* whatever evidence there is (OrderFulfilment and DeliveryVerification have the
\* steps in between).  No recheck runs before there is a settlement.
VerifiedAgain(o) ==
  /\ order[o].status = "PUBLISHED"
  /\ holds[o] = {}
  /\ \E method \in Methods, row \in Evidences :
       /\ method = "AUTO" => row = "fresh"
       /\ order' = [order EXCEPT ![o].status = "VERIFIED", ![o].version = @ + 1,
                                 ![o].verifyMethod = method]
       /\ evidence' = [evidence EXCEPT ![o] = row]
  /\ delivery' = [delivery EXCEPT ![o] =
       [state |-> "VERIFIED", version |-> @.version + 1]]
  /\ UNCHANGED <<dispute, handoff, holds, finding, later, moneyVars, lane, reuse>>

-----------------------------------------------------------------------------
(* The publisher's withdrawals and the world *)

\* requestWithdrawal refuses while there is debt.
Withdraw(amount) ==
  /\ Withdrawing
  /\ balance.debt = 0
  /\ balance' = [balance EXCEPT !.withdrawable = @ - amount,
                                !.withdrawn = @ + amount]
  /\ UNCHANGED <<orderVars, settlement, refund, revenue, deliveryVars,
                 lane, reuse>>

ReturnWithdrawal(amount) ==
  /\ balance' = [balance EXCEPT !.withdrawable = @ + amount,
                                !.withdrawn = @ - amount]
  /\ UNCHANGED <<orderVars, settlement, refund, revenue, deliveryVars,
                 lane, reuse>>

\* Twelve hours pass, longer than any recheck takes: those that started before
\* the evidence was dated are over.
EvidenceAges(o) ==
  /\ evidence[o] = "fresh"
  /\ \A l \in SweepLanes : "evidence" \notin later[o][l]
  /\ evidence' = [evidence EXCEPT ![o] = "aged"]
  /\ UNCHANGED <<orderVars, holds, finding, delivery, later, moneyVars, lane,
                 reuse>>

WarrantyEnds(o) ==
  /\ order[o].warranty = "open"
  /\ order' = [order EXCEPT ![o].warranty = "over"]
  /\ UNCHANGED <<dispute, handoff, deliveryVars, moneyVars, lane,
                 reuse>>

-----------------------------------------------------------------------------

RequestStep(l) ==
  \/ \E o \in Orders, n \in Rows :
       \/ ReadCustomerApprove(l, o, n) \/ ReadAdminApprove(l, o, n)
       \/ ReadForceApprove(l, o, n) \/ ReadCancel(l, o, n) \/ ReadReturn(l, o, n)
  \/ \E o \in Orders : ReadCreate(l, o) \/ ReadDispute(l, o)
  \/ Approve(l) \/ AdminRelease(l) \/ CancelSettlement(l) \/ ReturnToReview(l)
  \/ CreateSettlement(l) \/ OpenOrderDispute(l)

SweepStep(l) ==
  \/ \E o \in Orders : SelectAccept(l, o) \/ StartRecheck(l, o)
  \/ \E o \in Orders, n \in Rows :
       SelectApprove(l, o, n) \/ SelectRelease(l, o, n)
  \/ AutoAccept(l) \/ AutoApprove(l) \/ AutoRelease(l)
  \/ ReadRecheck(l) \/ FetchPresent(l) \/ FetchRemoved(l)
  \/ RecordRestored(l) \/ RecordPresent(l) \/ RecordRemoved(l)

OrderStep(o) ==
  \/ ConfirmDelivery(o) \/ ConfirmFlagged(o)
  \/ MarkUnderReview(o) \/ RestoreDispute(o) \/ RefundDispute(o)
  \/ ForceCancel(o) \/ FinanceApprove(o) \/ ReviewHandoff(o)
  \/ \E h \in Signals : ClearHold(o, h) \/ ConfirmFraud(o, h)
  \/ OverrideFailed(o) \/ VerifiedAgain(o)
  \/ EvidenceAges(o) \/ WarrantyEnds(o)

Next ==
  \/ \E l \in RequestLanes : RequestStep(l)
  \/ \E l \in SweepLanes : SweepStep(l)
  \/ \E l \in Lanes : Abandon(l) \/ LaneFlagged(l)
  \/ \E o \in Orders : OrderStep(o)
  \/ \E amount \in 1..balance.withdrawable : Withdraw(amount)
  \/ \E amount \in 1..balance.withdrawn : ReturnWithdrawal(amount)

Spec == Init /\ [][Next]_vars

-----------------------------------------------------------------------------
(* Properties *)

\* Every variable keeps the type of the column or request state it models, and
\* no balance goes below the CHECK (>= 0) of its column.
TypeOK ==
  /\ order \in [Orders -> [channel : Channels,
                           verifyMethod : Methods \cup {"NONE"},
                           status : OrderStatuses, version : Nat,
                           warranty : {"none", "open", "over"}]]
  /\ settlement \in [Orders -> [Rows -> [status : SettlementStatuses,
                                         version : Nat,
                                         policy : {"AUTO", "MANUAL"}]]]
  /\ dispute \in [Orders -> [status : OpenDispute \cup SafeDispute \cup
                                        {"REFUNDED"},
                             prev : OrderStatuses \cup {"NONE"}]]
  /\ handoff \in [Orders -> {"ABSENT", "ESCALATED", "PENDING_FINANCE",
                             "APPROVED"}]
  /\ holds \in [Orders -> SUBSET Signals]
  /\ finding \in [Orders -> SUBSET Signals]
  /\ delivery \in [Orders -> [state : {"VERIFIED", "REJECTED"}, version : Nat]]
  /\ evidence \in [Orders -> Evidences]
  /\ later \in [Orders -> [Marks -> SUBSET (Marks \cup {"evidence"})]]
  /\ refund \in [Orders -> [amount : Nat, comp : Nat, fee : Nat]]
  /\ revenue \in [Orders -> {"NONE", "RECOGNIZED", "REVERSED"}]
  /\ balance \in [withdrawable : Nat, debt : Nat, lifetime : Nat, withdrawn : Nat]
  /\ lane \in [Lanes -> [job : Jobs, order : Orders \cup {None},
                         row : Rows \cup {0},
                         status : OrderStatuses \cup SettlementStatuses \cup
                                    {"NONE"},
                         version : Nat, flag : BOOLEAN]]
  /\ reuse \in Nat

\* What an order has brought the publisher.
Earned(o) == (IF Released(o) THEN Net(o) ELSE 0) + refund[o].comp

\* The balance tells the truth: what may be withdrawn plus what was withdrawn,
\* less the debt, is exactly the released settlements plus the compensations,
\* and so is lifetimeEarnings, after any order of releases, clawbacks beyond the
\* withdrawable balance, repayments of debt and returned withdrawals.
BooksBalance ==
  /\ balance.withdrawable + balance.withdrawn - balance.debt = balance.lifetime
  /\ balance.lifetime = SumFunction([o \in Orders |-> Earned(o)])

\* Order, settlement, revenue and refund rows agree, although staff, customers
\* and sweeps change them in separate transactions from stale reads: one active
\* settlement at most, released exactly when its publisher order is completed
\* (or disputed from there), and nothing left of either after a refund.  With
\* confirmed fraud the order is never completed again, and it is refunded only
\* through the case that finance approved.
OutcomesAgree ==
  \A o \in Orders :
    LET done == \/ order[o].status = "COMPLETED"
                \/ order[o].status = "DISPUTED" /\ dispute[o].prev = "COMPLETED"
    IN  /\ Cardinality(Active(o)) <= 1
        /\ IF Publisher(o) THEN Released(o) <=> done
           ELSE (revenue[o] = "RECOGNIZED") <=> done
        /\ (refund[o] # NoRefund) => (order[o].status = "REFUNDED")
        /\ (order[o].status = "REFUNDED") => (Active(o) = {})
        /\ (finding[o] # {}) =>
             /\ order[o].status # "COMPLETED"
             /\ (order[o].status = "REFUNDED") <=> (handoff[o] = "APPROVED")

\* Once fraud is confirmed no transaction of a request or sweep that started
\* earlier lets the order earn anything for the publisher.
FraudEarnsNothing ==
  [][\A o \in Orders : finding[o] # {} => Earned(o)' <= Earned(o)]_vars

\* Money is released only from an approved settlement of a delivered order that
\* nothing blocks at that moment, whatever the releasing request or sweep read
\* before: no open dispute, no case, no hold, a verified delivery.
ReleasedUnblocked ==
  [][\A o \in Orders : ~Released(o) /\ Released(o)' =>
       /\ Publisher(o) /\ order[o].status = "DELIVERED"
       /\ delivery[o].state = "VERIFIED" /\ holds[o] = {} /\ finding[o] = {}
       /\ dispute[o].status \notin OpenDispute /\ ~ActiveCase(o)
       /\ \E n \in Active(o) : settlement[o][n].status = "CUSTOMER_APPROVED"]_vars

\* The release trusts the evidence with the latest date, and rows are dated with
\* the start of rechecks that overlap and commit in any order.  Still, what an
\* automatic verification or a restored link lets count as verified has a latest
\* row that shows the link: no older-dated success leaves the row of a removal
\* standing as the latest once that removal is undone.
VerifiedShowsLink ==
  \A o \in Orders :
    order[o].verifyMethod = "AUTO" /\ delivery[o].state = "VERIFIED"
      => evidence[o] # "missing"

Contract == INSTANCE OrderContract WITH
  Share <- [o \in Orders |-> Net(o)],
  payees <- {o \in Orders : Publisher(o)},
  state <- [o \in Orders |->
              IF order[o].status = "REFUNDED" THEN "REFUNDED"
              ELSE IF Released(o) \/ revenue[o] = "RECOGNIZED" THEN "EARNED"
              ELSE "HELD"],
  earnings <- balance.withdrawable + balance.withdrawn - balance.debt,
  credit <- [o \in Orders |-> refund[o].amount]

\* Requests, sweeps and staff decisions together implement the contract of the
\* captured money: earned once, refunded once, a refund undoes the earning.
ImplementsContract == Contract!Spec

-----------------------------------------------------------------------------
(* Liveness *)

\* The four sweeps are repeatable jobs, and pages answer now and then.  Release
\* sweeps run between two link rechecks, which are six hours apart while evidence
\* counts for twelve: some selections find fresh evidence and commit in time.
\* The publisher's risk, a free refusal, does not stay high for ever.
SweepFairness(l) ==
  /\ \A o \in Orders :
       /\ SF_vars(SelectAccept(l, o) \/ \E n \in Rows : SelectApprove(l, o, n))
       /\ SF_vars(evidence[o] = "fresh" /\ \E n \in Rows : SelectRelease(l, o, n))
       /\ SF_vars(StartRecheck(l, o))
  /\ SF_vars(ReadRecheck(l))
  /\ SF_vars(FetchPresent(l))
  /\ SF_vars(RecordPresent(l) \/ RecordRestored(l))
  /\ SF_vars(AutoAccept(l) \/ AutoApprove(l) \/ AutoRelease(l))
  /\ WF_vars(Abandon(l))

\* One worker that keeps running is enough.
FairSpec == Spec /\ \E l \in SweepLanes : SweepFairness(l)

\* Acceptance or an automatic settlement is still to come.
Outstanding(o) ==
  \/ order[o].status = "VERIFIED"
  \/ \E n \in Active(o) : /\ settlement[o][n].status \in Unreleased
                          /\ settlement[o][n].policy = "AUTO"

\* Nobody objects: no dispute, case or hold.
Calm(o) ==
  /\ dispute[o].status \in SafeDispute
  /\ handoff[o] = "ABSENT"
  /\ holds[o] = {}

\* Without any staff or customer action an order that stays calm with a verified
\* delivery is accepted by timeout, and its automatic settlement approved and
\* released (or cancelled by staff): crashed sweeps and aging evidence only
\* delay it.
AutoSettles ==
  \A o \in Orders :
    <>[](Calm(o) /\ delivery[o].state = "VERIFIED") => <>[]~Outstanding(o)

-----------------------------------------------------------------------------
(* What the documentation says *)

\* An order of a listing with a warranty has its warranty window once completed.
WarrantyOpens ==
  \A o \in Warranted :
    order[o].status = "COMPLETED" => order[o].warranty # "none"
=============================================================================
