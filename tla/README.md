# GuestPost.cc: a TLA+ model of the money paths

GuestPost.cc is a marketplace for guest posts: customers fund a wallet by card,
pay orders from it, publishers deliver, and settled earnings are withdrawn.
The repository is a TypeScript monorepo: a NestJS API (`apps/api`), a BullMQ
worker (`apps/worker`), four Next.js front ends, and shared packages that hold
the transactional cores both the API and the worker call
(`packages/shared/src/*-core.ts`). PostgreSQL is the only shared state; the
payment and payout providers talk to the system through signed webhooks that may
be late, repeated, reordered or in conflict.

This project models those transactional cores: what the processes may do to the
shared rows, in every interleaving, with crashes, expiring leases, retries and
redeployments between any two database transactions.

## Inventory

| Component | State it keeps | Operations | What is hard | What makes it correct |
|---|---|---|---|---|
| Payment disputes (`payment-dispute-core.ts`, `payment-dispute.processor.ts`, `handleWebhook` in `billing.service.ts`) | provider-event inbox rows with a lease, dispute cases, wallet balances, deposit status | receive, claim, transition, quarantine, retry, sweep | closed before created, conflicting envelopes, stale leases, lost commit acknowledgements | a dispute moves money once, holds are backed, evidence survives, claims are fenced, events settle |
| Deposits (`createCheckoutSession`, `deposit-credit-core.ts`, `deposit-credit-recovery.processor.ts`, `stripe-deposit-recovery.ts`) | deposit attempts, checkout sessions at the provider, recovery rows, credit evidence | checkout, attach, credit from webhook or from retrieval, expire, recover | webhook and recovery credit the same payment, session creation with a lost answer | a paid session is credited exactly once, an unpaid one never |
| Orders and payment (`order-payment.service.ts`, `orders.service.ts`) | order status, payment status, version | submit, reserve and capture | double submit | an order is charged once |
| Fulfilment and its assignment (`order-fulfillment.service.ts`, `order-operations.service.ts`, `order-fulfillment-assignment.service.ts`, `order-review.service.ts`) | order status and version, active assignment, revision, content | accept, write, submit, approve, revise, publish; claim, assign, reassign | requests that read, check and then compare a version; reassignment in between | only the assignee's work commits, a finished order keeps no assignment |
| Cancellation and refunds (`order-cancellation.service.ts`, `refund.service.ts`, `order-refund-core.ts`, `acceptance-timeout-refund.ts`, `auto-accept.processor.ts`) | cancellation cases, order disputes, refunds | cancel, decline, request, respond, review, approve, escalate, force, time out | timeout against acceptance, a case opened under running work, two refund paths | accepted work is not timed out, a refund is final and has one ground |
| Delivery verification and intervention (`delivery-verification-core.ts`, `delivery-verification-dispatch.ts`, `order-delivery.service.ts`, `delivery-intervention.service.ts`) | delivery versions, verification status and version, evidence, fraud flags and holds, queue jobs | submit, dispatch, fetch, decide, approve, reject, override, reverify, clear, confirm, recheck | a slow fetch against staff, stalled and lost jobs, holds of earlier runs | a verdict belongs to the state it was fetched for, nothing passes with a hold, every delivery is decided |
| Settlements (`settlements.service.ts`, `settlement-gating.ts`, `settlement-auto-approve-core.ts`, `settlement-auto-release-core.ts`) | settlement status and version, publisher balance and debt | create, approve, release, return, cancel, claw back | release racing refund, dispute, hold or cancellation; aging evidence | captured money is earned once or refunded once, never both |
| Payouts (`publisher-payouts.service.ts`, `payout-execution.service.ts`, `payout-webhook.controller.ts`, `payout.processor.ts`, `payout-finalization-core.ts`) | withdrawals, executions with stages and claims, publisher balance, webhook inbox | request, approve, send, recover, resume, cancel, poll, finalize | the send's answer is lost, claims expire under their owner, the provider forgets keys | a withdrawal is paid once or returned once, and the books follow the bank |
| Reconciliation (`reconciliation-core.ts`, `reconciliation-repair.service.ts`) | issues, repairs | scan, open, resolve, repair | repairs from stale scans | repairs restore the invariants above |
| Communications (`communication-outbox-core.ts`, `email.processor.ts`, `email-delivery-lease.ts`) | outbox rows, delivery leases | record, claim, send, retry | send done, mark lost | one message per event, or at least once with a stable key |
| Websites and marketplace (`websites.service.ts`, `website-verification-core.ts`, `marketplace-moderation.ts`, `website-import`) | websites, verification tokens, listings, moderation | add, verify, list, moderate | verification racing edits | only verified, approved listings are sold |
| Support, admin, auth, front ends | tickets, staff roles, sessions, pages | CRUD | little concurrency | not modelled |

## Plan

Modules in the order of what they protect.

1. `PaymentDispute`, `DisputeContract`, `PaymentDisputeProofs`.
2. `DepositFunding`, `DepositContract`, `DepositFundingProofs`.
3. `PayoutExecution`, `PayoutContract`, `PayoutExecutionProofs`.
4. `OrderFulfilment` with `DeliveryVerification`, `OrderFulfilmentProofs`.
5. `OrderSettlement`, `OrderContract`, `OrderSettlementProofs`.

   Of these five, everything is modelled and checked, and every safety property and
   every refinement a run checks is proved (see Proofs).
6. Open: the communication outbox and email delivery, website verification and
   moderation, reconciliation repairs, and the pure algorithms (fees, tiers, delays,
   trust score) as operators.

Composition: an order passes from `OrderFulfilment` to `OrderSettlement` when it is
`VERIFIED` or `DELIVERED`; the first starts with a paid order and the second with a
verified one. `PayoutExecution` starts from the balance a release has credited, and
`OrderSettlement` has the withdrawal as an action. `PaymentDispute` has the credit of a
deposit as an action, `DepositFunding` the projection of disputes.

## Modules

### `LeaseRow`: leased rows

Two tables follow one discipline: `PaymentProviderEvent` (the inbox) and
`DepositCreditRecovery`. A claim is an `updateMany` that compares `status`,
`attempts` and `availableAt`; every later write of the claimer compares
`(PROCESSING, attempts, lockedAt)`; a sweep turns claims older than 15 minutes into
`FAILED`. Since each claim increments `attempts`, the pair `(attempts, lockedAt)` is
represented by `attempts`. The two timestamps `availableAt` and `lockedAt` are
represented by one flag `due`: the deadline of the row has passed.

### `PaymentDispute`: disputes

| Model | Code |
|---|---|
| `inbox[e]`, `env`, `linked`, `conflict` | `PaymentProviderEvent` row, its dispute facts, its link to the case, a recorded identity conflict |
| `cases[p]` with `held`, `shortfall`, `exposure`, `openedBy`, `resolvedBy`, `holdTx`, `resolutionTx` | `PaymentDispute` row and the ledger rows it points at |
| `available`, `reserved`, `ledger` | `Wallet` balances, sums of its `Transaction` rows by type |
| `lane[l]`, `batch[w]` | a running handler or worker run: program point, event, claim, verdict of its catch block; the candidates it selected |
| `Receive`, `ApiRecover`, `ApiClaim` | `handleWebhook` up to its claim |
| `WorkerSweep`, `WorkerSelect`, `WorkerClaim` | `processPaymentDisputeInbox` up to its claim |
| `Process` = `TransitionCommits`, `TransitionRefused`, `TransitionFails`, `HandleError` | `transitionPaymentDispute`, and the fenced quarantine or retry after it |
| `CreditDeposit`, `PayOrder`, `RefundOrder` | what else changes the wallet |
| `Elapse`, `Crash`, `Redeploy` | time, failures, deployments |

Every database transaction is one action: the code runs them `Serializable` and
locks the inbox row and the wallet row (so the locks are assumed, and no property
would notice a missing one). Everything between two transactions is a
separate step, and a commit may lose its acknowledgement. `DisputeContract` is the
abstract specification: each dispute freezes, releases or takes money once.

### `DepositFunding`: deposits

| Model | Code |
|---|---|
| `attempt[d]` | `DepositAttempt`: status, whether `providerSessionId` and `ledgerTransactionId` are set |
| `credits[d]`, `available` | `DEPOSIT` ledger rows that reference the session, `Wallet.availableBalance` |
| `inbox[e]` | `PaymentProviderEvent` rows of checkout events; `env` is whether the stored facts are the genuine ones |
| `recovery[d]`, `evidence[d]` | `DepositCreditRecovery` with the evidence it selected, `DepositCreditEvidence` rows by claim |
| `session`, `flagged`, `linked`, `sent` | the provider: session state, refunded or disputed charge, URLs customers hold, emitted events (external) |
| `CheckoutStart`, `OpenSession`, `OpenSessionFails`, `RecordFailure`, `Attach`, `Reuse` | `createCheckoutSession` between its transactions and provider calls |
| `Receive`, `WebhookRecover`, `WebhookClaim`, `WebhookCredit`, `WebhookRefused`, `WebhookDeferred`, `WebhookMark`, `WebhookFails`, `WebhookHandleError`, `ReplayProcessed` | `handleWebhook` with `processSuccessfulPayment` and `markDepositAttemptFromSession` |
| `Finalize` | `finalizeDepositCredit`, shared by webhook and recovery |
| `SeedSelect`, `SeedCreate`, `Sweep`, `Select`, `Claim`, `Reread`, `Supersede`, `RetrieveSession`, `RetrievePayment`, `PersistEvidence`, `CloseUnpaid`, `RecoveryCredit`, `RecoveryRefused`, `RecoveryFails`, `RecoveryHandleError` | `processDepositCreditRecovery` and the functions it calls |

`RetrieveSession` and `RetrievePayment` are two steps because the code makes two
requests. A payment that settles between them gives evidence that contradicts
itself (unpaid session, succeeded payment), and
`assertDepositRecoveryEvidenceMatchesAttempt` rejects it as not retryable: the
recovery of a paid deposit is then `QUARANTINED` for Finance, unless its webhook
arrives. `DepositsSettle` therefore promises credit or quarantine, not credit.

`DepositContract` is the abstract specification: a deposit adds its amount to the
balance once, or is closed and never does.

### `PayoutExecution`: withdrawals and payouts

| Model | Code |
|---|---|
| `withdrawal[w]`, `withdrawable`, `lifetimePaid` | `Withdrawal.status`, `PublisherBalance` |
| `exec[k]`, `claim[k]` | `PayoutExecution` rows (status, stage, version, recorded objects), `PayoutExecutionClaim` rows by age |
| `inbox[e]` | `PayoutWebhookEvent` rows, leased as in `LeaseRow` |
| `provider[k]` | the provider's transfer, payout and remembered answer (external) |
| `RequestWithdrawal`, `ApproveWithdrawal`, `RejectWithdrawal` | `publisher-payouts.service.ts` |
| the steps of operator lanes: validation, claims, provider calls, recording, abort, `Resume`, recoveries, cancellation, reversal, catch blocks | `executeWithdrawal`, `retryExecution`, `cancelExecution`, `resumeStripeBankPayout`, `recoverClaimedStripeBankPayout` |
| `PromoteSelect`, `Promote`, `PollRead`, `PollApply` | `handleCheckStatus` of `payout.processor.ts` |
| `Finalize` | `finalizePayoutExecution`, from webhook, poll, request or manual confirmation |
| `Accepts`, `StageSteps` | the trigger `guard_payout_execution_identity` |

Each transaction and each provider call is an action. A claim may be taken over while
its owner still runs. `ClaimAges` is the only clock: a claim turns 23 hours old (no
exact replay any more) and then 24 (the provider forgets the key); the assumption is
that no single call lasts the hour between. `PayoutContract`: a reservation is paid
once or returned once, and only what the bank has paid is booked.

### `OrderFulfilment` and `DeliveryVerification`: from payment to a verified delivery

`OrderFulfilment` extends `DeliveryVerification`, whose steps are its action `Verify`.

| Model | Code |
|---|---|
| `order`, `assignment`, `revision`, `rounds` | `Order` (channel, status, whether it was accepted), active `FulfillmentAssignment`, active `Revision`, `revisionCount` |
| `case`, `dispute`, `refund` | `OrderCancellationRequest`, `OrderDispute`, the ground of the `REFUND` transaction |
| `request[r]`, `ReadWork`, `Work` | a fulfilment request between its reads (`assertAssignedOperator`, `assertNoActiveCancellation`) and `transitionOrderCas` |
| `ReadAssign`, `Assign` | `claim`, `assign`, `reassign` |
| `PublisherSubmits`, `ApproveContent`, `RequestRevision`, `CustomerAccept` | handlers that decide again under the order lock |
| `listed`, `ListUnaccepted`, `TimeOut` | `runOrderAcceptanceTimeoutSweep` |
| `CreateRequest` ... `ForceCancel` | `order-cancellation.service.ts` |
| `delivery`, `held`, `job`, `run[w]`, `review[s]` | the active `OrderDeliveryVersion`, unresolved fraud holds, the BullMQ job of its version, worker runs, staff requests |
| `Dispatch`, `StartRun`, `RetryLater`, `Escalate`, `SnapshotLost`, `CommitVerdict`, `DropVerdict` | `dispatchPendingDeliveryVerifications`, `runDeliveryVerification` |
| `ManualApprove`, `ManualReject`, `OverrideVerified`, `OverrideFailed`, `Reverify`, `ClearHold` | `delivery-intervention.service.ts` |

Two version counters are abstracted. `order.version` and `verificationVersion` only
grow and are only compared with a value read before, so what matters is whether a
reader's value is still the row's. An action that advances `order.version` therefore
ends the requests that have read it (`Bump`), and `current` is the set of runs and
staff requests that read the present `verificationVersion`.

### `OrderSettlement`: from a verified delivery to the publisher balance

| Model | Code |
|---|---|
| `order`, `settlement[o]`, `dispute`, `handoff` | `Order`, `Settlement` rows, `OrderDispute`, the case a confirmed finding opens |
| `holds`, `finding`, `delivery` | `DeliveryFraudHold`, `DeliveryFraudFinding`, the active delivery with its `verificationVersion` |
| `evidence` | the `DeliveryVerificationEvidence` row of the delivery with the latest `checkedAt`: shows the link and is under 12 hours old, shows it but is older, or shows no link |
| `later[o][m]` | what has a later date than mark `m`; marks are the starts of running rechecks and the creation of the open `LINK_REMOVED` signal |
| `refund`, `revenue`, `balance` | `REFUND` transaction and compensation, `PlatformRevenue`, `PublisherBalance` with debt |
| `Read...` and `Approve`, `CancelSettlement`, `ReturnToReview`, `AdminRelease`, `CreateSettlement` | `settlements.service.ts`: the read and the transaction of a request |
| `Select...`, `AutoAccept`, `AutoApprove`, `AutoRelease` | the sweeps of the worker |
| `StartRecheck`, `ReadRecheck`, `Fetch...`, `Record...` | `runDeliveryLinkRecheck`: `now`, the reads, the fetch, the transaction |
| `OverrideFailed`, `VerifiedAgain` | `override` of a verified order to FAILED; the way back to `VERIFIED`, whose steps are in the modules before |
| `Unblocked`, `Eligible` | `evaluateSettlementEligibility` under the order lock |
| `Refund`, `ClawedBack`, `Compensations`, `Credited` | `refundOrderInTransaction`, debt netting in `releaseFundsInternal` |
| `FraudAllows` | the trigger `assert_confirmed_fraud_terminal_outcome`, where only it says no |

`Abandon` is a refused, rolled back or crashed request or sweep, at any time and any
number of times. The hold that `FlagReuse` creates commits although the request that
met it is refused, as in the code. `OrderContract`: the captured amount of an order is
held, earned at most once and refunded at most once.

Evidence is dated with the start of its recheck (`delivery-verification-core.ts:1181`),
not with its commit, and the release reads the row with the latest date
(`settlement-auto-release-core.ts:253`). `later` keeps the order of these dates while
anything may still be compared with them. A restoration is dated after the signal it
answers (`delivery-verification-core.ts:1274`); `VerifiedShowsLink` is what that line is
for, and its mutant drops it. The property speaks of verified deliveries only: a removal
that started before a successful recheck and commits after it leaves a success as the
latest row of a rejected delivery, and so does an override to FAILED. The release is
still safe (`ReleasedUnblocked`), because it looks at the delivery itself. One clock is
assumed for `checkedAt` and `createdAt`, and equal dates are not modelled.

### Proof modules

`PaymentDisputeProofs`, `DepositFundingProofs`, `PayoutExecutionProofs`,
`OrderFulfilmentProofs` and `OrderSettlementProofs` extend the module they are about;
`SumTheorems` holds the lemmas about sums that three of them use.

### MC modules

`MCPaymentDispute`, `MCDepositFunding`, `MCPayoutExecution`, `MCOrderFulfilment` and
`MCOrderSettlement` give the constants their values; the `.cfg` files choose the
instance. No definition is replaced.

## Runs

| Run | Instance | Checks | Distinct states |
|---|---|---|---|
| `dispute_money` | 2 disputes, 3 events that open, close, contradict or exceed the credit, 1 order, 1 handler, 1 lane, 3 deployments | types and non-negative balances, `WalletReconciles`, `HoldsBacked`, `DepositProjected`, `TerminalFinal`, `ImplementsContract` | 0.87 M |
| `dispute_leases` | 1 dispute, 2 events delivered twice (one also malformed), 1 handler, 1 lane, 3 attempts, 1 crash or redeployment | `CaseEvidence`, `OneLeaseHolder`, `LeaseFenced`, `EventsSettle` | 0.34 M |
| `deposit_money` | 1 deposit, 1 request, 2 deliveries of any event in either envelope, 1 recovery lane, 1 fault | types, `CreditedOnce`, `AuthoritiesProve`, `ImplementsContract`, absence of deadlock | 1.4 M |
| `deposit_races` | 2 concurrent requests under one key, 2 recovery lanes, leases that expire under their owner, 2 faults, no webhook | `LinkAttached`, `RecoveryFenced` | 1.8 M |
| `deposit_live` | 4 deployments (normal, locked, without and with a wrong recovery key), 1 fault | `DepositsSettle` | 0.34 M |
| `payout_recovery` | 2 withdrawals on both rails that compete for one balance, 2 executions each, 2 operator requests at a time, the status worker, 1 fault | types, `PaidOnce`, `BooksFollowMoney`, `UpdatesAccepted`, `ImplementsContract` | 0.86 M |
| `payout_inbox` | 1 Stripe withdrawal, 1 operator, the status worker, 2 inbox lanes, 2 deliveries, 1 fault, batches of 1 | `PaidIsBooked` | 0.62 M |
| `order_fulfilment` | 1 order of either channel, 2 requests, 2 operators, 2 verification runs, 1 staff request, 3 attempts, 1 stall or failure, 1 intervention, 1 revision | types, `FulfilmentPaused`, `RefundGrounded`, `AssignmentsClosed`, `DeliveryAgrees`, `WorkByAssignee`, `VerdictsFenced`, `HeldNeverPasses`, `DeliveriesDecided` | 0.33 M |
| `order_settlement` | 1 order of either channel, 2 settlement rows, 1 request, 1 sweep, 1 link removal, override or reuse signal | `OutcomesAgree`, `FraudEarnsNothing`, `ReleasedUnblocked`, `ImplementsContract` | 1.5 M |
| `publisher_debt` | 2 orders of one publisher or the platform, withdrawals, 1 sweep, 1 reuse signal, both ways of verification | types and non-negative balances, `BooksBalance` | 0.79 M |
| `order_live` | 1 publisher order, both ways of verification, 2 overlapping sweeps, 1 link removal or override | `VerifiedShowsLink`, `AutoSettles` | 51 k |
| `warranty_missing` | 1 order with a warranty, 1 sweep | `WarrantyOpens`, violated (see Findings) | |

All but the last pass. Every property also fails for a mutant of the definition it is
about (see `mutants` in `PROJECT.json`).

**Bounds.** `MaxDeliveries`, `MaxRequests`, `MaxReviews`, `MaxCrashes` and `MaxFaults`
count inputs: two deliveries are a delivery and its redelivery or a conflict, two lanes
are an owner and its successor, and one fault between any two steps is enough to leave
any row in any intermediate state. `MaxExpiries` counts the claims of a row after which
a lease that is still held no longer expires: 2 or 3 let it go stale under its owner
and be claimed again. `MaxPolls` = 2 lets the worker see an undecided session twice;
after that only a conclusive poll is started. `InboxMaxAttempts` and `MaxAttempts` are
the codes' constants, the first made small (two retries, then quarantine), the second
the code's 3. `MaxVersion` stops repetitions that change nothing but a version: the
poll of a failed payout, and the return of a settlement to review. `MaxChecks` bounds
how often a link goes or staff override, `MaxSettlements` the rows of an order (a second
one follows a cancelled first), `MaxReuse` the signals of other orders. `OneConcern`
keeps `order_settlement` to an order that is either flagged for its URL or fails its
delivery, not both (without it the run passes too, in several minutes; the theorems
cover every combination). `Methods` are the ways an order gets verified, which decide
whether its settlement may be automatic; `BatchSize` is the limit of the status poll.
Amounts are 1 to 3, so that
a hold, a withdrawal or a clawback can meet an empty, a partial and a full balance. A
deposit does not share rows with another one apart from the balance, nor an order
before its delivery with another order, so one of each is instantiated; two disputes
of one deposit, two withdrawals of one balance and two orders of one publisher do
share rows and are both instantiated.

The deadlock check is off where the system really may stop: a refunded order is final,
and bounded inputs can run out after every row is settled.

**Symmetry** is used for interchangeable lanes in runs that check invariants or
step properties, never in the runs with liveness.

**Fairness.** Weak fairness of the steps of running requests and of scheduled worker
runs (`repeatable-job-registry.ts` schedules the processors), and of deadlines. None
of deliveries, payments, crashes, redeployments or human decisions.

- `DepositsSettle` is conditional: from some time on the deployed worker may recover
  and has its key (`<>[]Serving`). `EventsSettle` is checked with deployments whose
  mode admits recovery.
- `PaidIsBooked`: the status job runs, and polls an execution again and again as long as
  the pending rows fit one batch (`Uncrowded`). The sweep takes the 50 oldest pending
  rows (`payout.processor.ts:606`), and some stay: recovery stages that wait for an
  operator, manual transfers, which have no status to poll. Fifty of those starve every
  later payout, so the property is conditional on `<>[]Uncrowded`. With the one
  withdrawal of the run the condition always holds; a variant with two withdrawals and
  batches of one (0.29 M states) passes with the condition and is violated without it.
  The mode must admit recovery (`payout.processor.ts:579`), and the deployed Stripe key
  must be that of the rows, since a configuration error ends the whole sweep.
- `DeliveriesDecided`: the dispatch sweep runs, some worker takes a waiting job, and a
  run ends because its fetch has a timeout. The outcome of a fetch is not assumed. Both
  need a finance mode that admits new liability (`delivery-verification.processor.ts:146`
  and `:175`): while the deployment is locked or in recovery no delivery is decided
  automatically.
- `AutoSettles`: one of the sweep lanes keeps selecting and committing (strong
  fairness, because evidence comes and goes while another lane works). It stands for:
  the recheck runs every 6 hours against evidence that lasts 12, and takes less than 12
  hours itself; the hold sweep reaches the settlement before its cap of 5,000 rows; the
  finance mode admits reconciliation (`delivery-verification.processor.ts:120`), operator
  decisions and new liability (`settlement-release.processor.ts:39`); the publisher's risk
  does not refuse for ever; and fewer than 100 orders block the head of the list, since
  the sweeps take 100 due orders and do not exclude those on hold
  (`auto-accept.processor.ts:363`).

## Findings

`warranty_missing`: `runSettlementAutoRelease` (`settlement-auto-release-core.ts:317`)
completes the order without `warrantyEndsAt`, which the manual release sets
(`settlements.service.ts:1491`). `docs/ORDER_CANCELLATION.md:36` promises a dispute
inside the warranty window of a completed order; after an automatic release there is
none.

Observations made while modelling, for which the models follow the code:

- `submitForReview` of the operations team (`order-operations.service.ts:456`) does not
  close the active revision, as the publisher's does; after it the customer can ask for
  no further revision of that order although rounds are left. `revision-lifecycle.ts`
  describes closing it "when replacement content is submitted for customer review".
  No property states it, since the operations path does not keep it.
- A delivery that staff reject while it is still `PENDING` stays undecided, is
  dispatched again and may be verified automatically: the order becomes `VERIFIED` with
  intervention `REJECTED`, and its settlement is blocked.
- Clearing a `LINK_REMOVED` signal (`delivery-intervention.service.ts:1027`) leaves the
  delivery rejected, and the recheck no longer watches it. Every release requires a
  verified delivery and an override to VERIFIED requires a `PUBLISHED` order
  (`delivery-intervention.service.ts:1454`), so a `DELIVERED` order has no way to settle
  any more: only a dispute or a refund decides it.
- A cancellation case that ended as `DISPUTED` still blocks the settlement after the
  dispute was resolved by `RESTORE`.
- `forceCancel` leaves an active cancellation case on the refunded order.
- `refund.service.ts:1353` deducts a publisher compensation from the refund in a case
  that `docs/ORDER_CANCELLATION.md:105` calls a full refund.

## Proofs

Every invariant, every step property and every refinement that a passing run checks is
also a theorem, for all values of the constants that satisfy the named assumptions of
the component's module. Each component has one inductive invariant, proved in its
theorem `Invariance`; the listed theorems follow from it.

| Module | Theorems (property) |
|---|---|
| `PaymentDisputeProofs` | `TypeCorrect`, `WalletAlwaysReconciles`, `LeaseExclusive` (`OneLeaseHolder`), `HoldsAlwaysBacked`, `CasesAlwaysBacked` (`CaseEvidence`), `DepositsAlwaysProjected`; steps: `TerminalIsFinal`, `LeaseIsFenced`; `ContractImplemented` |
| `DepositFundingProofs` | `TypeCorrect`, `CreditedAlwaysOnce`, `LinksAlwaysAttached`, `AuthoritiesAlwaysProve`; steps: `RecoveryAlwaysFenced`; `ContractImplemented` |
| `PayoutExecutionProofs` | `TypeCorrect`, `PaidAlwaysOnce`, `BooksAlwaysFollowMoney`; steps: `UpdatesAlwaysAccepted`; `ContractImplemented` |
| `OrderFulfilmentProofs` | `TypeCorrect`, `CasePausesFulfilment`, `RefundsAreGrounded`, `AssignmentsAreClosed`, `DeliveryAlwaysAgrees`; steps: `OnlyAssigneeWorks`, `VerdictsAreFenced`, `HeldCannotPass` |
| `OrderSettlementProofs` | `TypeCorrect`, `BooksAlwaysBalance`, `OutcomesAlwaysAgree`, `VerifiedAlwaysShowsLink`; steps: `FraudNeverEarns`, `ReleasesUnblocked`; `ContractImplemented` |
| `SumTheorems` | lemmas about sums over finite sets |

Type correctness includes that no balance becomes negative. The assumptions are that
amounts, prices and credits are natural numbers (positive where the code rejects zero),
that lanes are disjoint, that bounds are natural numbers, that a job and an inbox row
have at least one attempt, and that `None` and the fixed roles are not identities. The
rows that a balance sums over (disputes, deposits, orders) form a finite set, as the
rows of a table do. Lanes, events, withdrawals, operators and workers may be any sets.

**Sums.** `HoldsBacked`, `CreditedOnce` and `BooksBalance` compare a balance with a sum
over all rows. The models write it with the community modules' fold.
`SumTheorems` proves what the steps need: the sum exists and satisfies its equation
(`SumEquation`), it changes by the difference at the one row a step changes
(`SumChange`), and it stays when no row changes (`SumSame`). The induction is over the
subsets of the finite set, stated about a set of subsets (`SubsetInduction`), because
the provers cannot instantiate an induction theorem that takes an operator.

**Payment disputes.** `IInv` is `Shape` (types; a row that is present has an envelope,
and a valid one unless it is quarantined; a working lane has an event),
`WalletReconciles`, `ClaimsBounded` (no lane works under a claim number the row has not
reached) and `ClaimsUnique` (no two lanes work under the same claim number of a row).
The last two are why leases are exclusive: a claim increments `attempts` beyond
everything lanes carry, so a fresh claim differs from every stale one. Over it stands
`CaseInv`, the three invariants of the cases. A committed transition is one of
three things: it attaches a late opening event, closes an open case, or books a new one
(`Attached`, `Closed`, `Booked`); and no step touches an event row that a case names as
its evidence (`EvidenceKept`), because an identity conflict retains canonical evidence
and every other write is to a row that is not yet processed.
The refinement of `DisputeContract` reads the same three cases.

**Deposits.** The checked invariants are strengthened by what the participants know:
only emitted events are in the inbox and a payment is announced after it happened
(`AnnouncedPaid`, `InboxSent`); a final answer that a worker read is still the
provider's answer, and a lane that closes or finalizes has stored its evidence under
its own claim (`LanesKnow`); a request that reuses a session found it attached
(`ReusesAttached`). `CreditedOnce` holds since `PAID` and `EXPIRED` are final answers
and every path to a credit has one of these grounds. Each action is shown to have one
shape, `Moves`; the invariant and the refinement follow from the shape.

**Payouts.** The invariant has four parts.

- `RowOK` relates row, claims and provider objects of one execution: there is no object
  without a claim, at most one transfer and one payout, a bank claim lasts until the
  payout is recorded, a completed row was paid, and a reversal is `Quiesced`: the stage
  is one from which nothing is sent, and the payout failed, was cancelled, or never had
  a claim.
- `LaneOK` says what a lane may rely on although others may have moved the execution
  since: a call under way has a claim the provider still remembers; an answer it holds
  is backed by an object; a cancellation that reverses is `Quiesced`; and a recovery
  that still has the version it claimed has the stage it claimed (`Fenced`).
- `EventOK`: a `paid` event in the inbox is true.
- `WithdrawalOK` and `Numbered`: at most one execution of a withdrawal is open, it
  decides the status of the withdrawal, and executions are numbered without gaps, so
  that a new one meets an unused row.

`KeyMoves` collects what no step takes back (versions grow, recorded objects stay, late
stages stay late, a payment and a reversal stay, `Quiesced` stays); it is why `LaneOK`
and `EventOK` survive the steps of others (`RequestStable`, `EventStable`). `Update`
treats every row update that the trigger accepts at once, from the stage graph of the
trigger (`StageFacts`). The catch block of `executeWithdrawal` writes on whatever
version it finds; that it is harmless is exactly `Accepts` plus `RowOK`.
`PaidOnce` follows because a closed execution has no exposed money
(`ClosedUnexposed`) and at most one is open.

**Fulfilment.** `IInv` is `DeliveryInv` and `OrderInv`: the checked invariants,
strengthened by

- `JobBounded` and `RunsCurrent`: a job that can run has an attempt left; a run that
  read the present version works on an undecided delivery whose intervention it knows.
  This is what fences a slow fetch;
- `CaseStopsWork`: no fulfilment request survives the opening of a case, because
  `createRequest` claims the version;
- `RequestsCurrent`: what a request has read of the assignment is still so, because
  every change of the assignment advances `order.version`. `WorkByAssignee` and
  `AssignmentsClosed` follow, although two handlers never look at the assignment again;
- `DisputeKeepsPlace`: a disputed order returns to a status that still fits its
  delivery and its assignment;
- `SubmittedFresh` and `AbsentUntouched`, which exclude unreachable rows.

The steps of `DeliveryVerification` are proved once (`VerifyKeeps`: they move the order
between `PUBLISHED` and `VERIFIED` only, and change the delivery only there) and enter
the proof about the order as a single action.

**Settlement.** For each order `DisputeAgrees` (disputed while, and only while, its
dispute is open, unless refunded first), `SettlementAgrees` (one active settlement of a
publisher order, released exactly when the order, its dispute aside, is completed),
`FraudAgrees` (a confirmed finding holds the order and has a case that ends in the
refund) and `EvidenceAgrees`; for each lane `ReadPast`: what it read is the past of the
row, and at the version it read nothing has changed; and `BooksBalance`. An action
either leaves the money of all orders alone, lets one order earn, or refunds one order,
which is what the books and the refinement of `OrderContract` need to know of it.
`VerifiedShowsLink` needs to know why a row without the link cannot outlive the removal
it records. `EvidenceAgrees` says that a verified delivery has no unresolved
`LINK_REMOVED` signal, and that while there is one, the latest row is not dated after it
and every running recheck dated before the latest row is dated before the signal
(`RemovalAgrees`, `RemovalLast`). A restoration is dated with its start or just after
the signal, whichever is later, and is therefore always the latest row.

**Model-checked only.** `EventsSettle`, `DepositsSettle`, `PaidIsBooked`,
`DeliveriesDecided` and `AutoSettles` are liveness properties under fairness, which is
out of the prover's reach, and so is the absence of deadlock, which is about `ENABLED`.
`WarrantyOpens` is violated (see Findings).

## What is left out

- Audit rows, notifications and communication events written in the same
  transactions; no guard reads them.
- Deposit statuses `PROCESSING`, `PARTIALLY_REFUNDED` and `REFUNDED`, which the code
  lists and never assigns to a card deposit.
- The recovery worker's minimum age of 15 minutes and its batch size: a model run may
  pick up an attempt at once, which adds behaviours.
- Field-by-field evidence comparison: facts are genuine, altered, or contradicting.
- A checkout request that reuses an idempotency key for another amount (rejected
  before any write), and the expiry of idempotency keys of checkout sessions.
- Early fraud warnings and ignored event types of the inbox.
- Payouts: the Wise adapter, collisions of provider identities, `account.updated`
  events, and the allocation of a withdrawal to its funding sources. Roles, four-eyes
  rules, publisher debt and the send switch are free refusals.
- Orders: creation, pricing and the cancellation of unpaid orders; article versions and
  files; star ratings. Roles, reasons and ages are free refusals; HTML analysis and
  fraud detectors answer freely. The support tickets that follow an assignment are not
  modelled. Confirmed fraud is in `OrderSettlement` only, link rechecks too. A customer who
  accepts an unverified delivery by hand (`order-delivery.service.ts:530`) is not in
  `OrderSettlement`, which starts with a verified order.
- Within a transaction nothing is interleaved: serializable isolation and row locks
  of PostgreSQL are assumed.
- The components listed as `not_modelled` in `PROJECT.json`: authorisation, CRUD,
  reports, presentation and generated code have no state machine of their own to
  check; email delivery, website verification, reconciliation repairs and the pure
  scoring and fee functions are the open part of the plan.
