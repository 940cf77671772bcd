--------------------------- MODULE PaymentDispute ---------------------------
(***************************************************************************)
(* Card disputes (chargebacks) against customer deposits: the durable     *)
(* provider-event inbox, the API webhook handlers and the worker lanes    *)
(* that drain it, the dispute cases, the customer wallet they hold money  *)
(* in, and the order payments and refunds that share that wallet.         *)
(*                                                                        *)
(* Every database transaction of the code is one action: the code runs    *)
(* them Serializable and takes the inbox row and then the wallet row      *)
(* FOR UPDATE.  Everything between two transactions is a separate step.   *)
(* Inbox rows are leased as LeaseRow describes.                           *)
(***************************************************************************)
EXTENDS Integers, FiniteSets, Functions, LeaseRow

CONSTANTS
  Deposits,          \* deposit attempts of one customer wallet
  Disputes,          \* provider dispute identities
  Events,            \* provider event identities
  Orders,            \* orders paid from the wallet
  Credit,            \* Credit[d]: the wallet credit of deposit d
  Price,             \* Price[o]: the captured amount of order o
  EnvelopesOf,       \* EnvelopesOf[e]: signed envelopes the provider may send as e
  ApiLanes,          \* concurrent webhook handlers
  WorkerLanes,       \* concurrent runs of processPaymentDisputeInbox
  Runtimes,          \* deployments: [finance: FinanceModes, stripe: BOOLEAN]
  InboxMaxAttempts,  \* PAYMENT_DISPUTE_INBOX_MAX_ATTEMPTS
  MaxDeliveries,     \* bound: deliveries of one event identity
  MaxCrashes,        \* bound: process crashes and redeployments
  MaxExpiries,       \* bound: claims after which a held lease no longer expires
  None               \* SQL null

Lanes == ApiLanes \cup WorkerLanes
FinanceModes == {"normal", "recovery_only", "locked"}
Targets == {"OPEN", "WON", "LOST"}

\* The normalized facts of a signed dispute event.  An envelope whose
\* normalization fails has target "INVALID".
Envelopes == [dispute : Disputes, deposit : Deposits, amount : Nat \ {0},
              target : Targets \cup {"INVALID"}]

ASSUME ConstantsAssumption ==
  /\ IsFiniteSet(Disputes)
  /\ Credit \in [Deposits -> Nat \ {0}]
  /\ Price \in [Orders -> Nat \ {0}]
  /\ EnvelopesOf \in [Events -> SUBSET Envelopes]
  /\ Runtimes \subseteq [finance : FinanceModes, stripe : BOOLEAN]
  /\ ApiLanes \cap WorkerLanes = {}
  /\ InboxMaxAttempts \in Nat \ {0}
  /\ MaxDeliveries \in Nat /\ MaxCrashes \in Nat /\ MaxExpiries \in Nat
  /\ None \notin Events
  /\ None \notin Disputes

VARIABLES
  inbox,       \* PaymentProviderEvent rows, by provider event identity
  lane,        \* what each handler and each worker lane is doing
  batch,       \* batch[w]: candidates worker lane w selected and not yet tried
  cases,       \* PaymentDispute rows, by provider dispute identity
  deposit,     \* DepositAttempt.status
  available,   \* Wallet.availableBalance
  reserved,    \* Wallet.reservedBalance
  ledger,      \* sum of the wallet's Transaction rows, by type
  order,       \* payment state of each order
  runtime,     \* the deployed finance mode and whether the Stripe key fits
  deliveries,  \* how often each event identity was delivered
  crashes      \* how many crashes and redeployments happened

dbVars == <<inbox, cases, deposit, available, reserved, ledger, order>>
vars == <<inbox, lane, batch, cases, deposit, available, reserved, ledger,
          order, runtime, deliveries, crashes>>

-----------------------------------------------------------------------------
(* State *)

InboxStatuses == {"ABSENT", "PENDING", "PROCESSING", "FAILED", "PROCESSED",
                  "QUARANTINED"}
LedgerTypes == {"DEPOSIT", "RESERVATION", "PURCHASE", "REFUND", "CHARGEBACK"}

NoRow == [status |-> "ABSENT", env |-> None, attempts |-> 0, due |-> FALSE,
          linked |-> None, conflict |-> FALSE]

NoCase == [status |-> "NONE", deposit |-> None, amount |-> 0, held |-> 0,
           shortfall |-> 0, exposure |-> 0, openedBy |-> None,
           resolvedBy |-> None, holdTx |-> 0, resolutionTx |-> 0]

\* A lane at program point pc with the event and attempts counter it carries.
At(pc, e, attempts) ==
  [pc |-> pc, event |-> e, attempts |-> attempts, verdict |-> "NONE"]

Idle == At("idle", None, 0)

Init ==
  /\ inbox = [e \in Events |-> NoRow]
  /\ lane = [l \in Lanes |-> Idle]
  /\ batch = [w \in WorkerLanes |-> {}]
  /\ cases = [p \in Disputes |-> NoCase]
  /\ deposit = [d \in Deposits |-> "UNPAID"]
  /\ available = 0
  /\ reserved = 0
  /\ ledger = [t \in LedgerTypes |-> 0]
  /\ order = [o \in Orders |-> "UNPAID"]
  /\ runtime \in Runtimes
  /\ deliveries = [e \in Events |-> 0]
  /\ crashes = 0

CreditBacked == {"SUCCEEDED", "DISPUTED", "CHARGEBACK"}

\* Finance mode gates (finance-runtime-mode.ts).
RecoveryAllowed == runtime.finance # "locked"
NewLiabilityAllowed == runtime.finance = "normal"

-----------------------------------------------------------------------------
(* Receiving a signed webhook: handleWebhook up to the claim.              *)

\* Where a lane goes when it has finished with one event: a handler answers
\* the request, a worker lane continues with its batch.
Finished(l, todo) ==
  IF l \in WorkerLanes /\ todo[l] # {}
    THEN At("claiming", None, 0)
    ELSE Idle

\* The handler keeps the attempts counter it read with the row; the later
\* claim compares it.
Proceed(l, e, attempts) ==
  lane' = [lane EXCEPT ![l] =
             IF RecoveryAllowed THEN At("received", e, attempts) ELSE Idle]

\* A first delivery persists the row: PENDING, or QUARANTINED at once when the
\* envelope does not normalize.
NewRow(v) ==
  [status |-> IF v.target = "INVALID" THEN "QUARANTINED" ELSE "PENDING",
   env |-> v, attempts |-> 0, due |-> v.target # "INVALID",
   linked |-> None, conflict |-> FALSE]

ReceiveNew(l, e, v) ==
  /\ inbox[e].status = "ABSENT"
  /\ inbox' = [inbox EXCEPT ![e] = NewRow(v)]
  /\ IF v.target = "INVALID" THEN UNCHANGED lane ELSE Proceed(l, e, 0)

\* A redelivery of the same envelope: terminal rows are acknowledged, others go
\* on to the claim.
ReceiveDuplicate(l, e, v) ==
  /\ inbox[e].status # "ABSENT"
  /\ inbox[e].env = v
  /\ IF inbox[e].status \in {"PROCESSED", "QUARANTINED"}
       THEN UNCHANGED lane
       ELSE Proceed(l, e, inbox[e].attempts)
  /\ UNCHANGED inbox

\* Mutant: no event is retained as canonical evidence.
MutCanonical(e) == FALSE

\* The event is the recorded opening or resolution evidence of a case.
Canonical(e) ==
  /\ inbox[e].status = "PROCESSED"
  /\ \E p \in Disputes : cases[p].openedBy = e \/ cases[p].resolvedBy = e

Conflicted(row) ==
  [row EXCEPT !.status = "QUARANTINED", !.due = FALSE, !.conflict = TRUE]

\* A second envelope under a known event identity: canonical accounting
\* evidence is retained, anything else is quarantined, whoever holds its lease.
ReceiveConflict(l, e, v) ==
  /\ inbox[e].status # "ABSENT"
  /\ inbox[e].env # v
  /\ inbox' = IF Canonical(e) \/ inbox[e].status = "QUARANTINED"
                THEN inbox
                ELSE [inbox EXCEPT ![e] = Conflicted(@)]
  /\ UNCHANGED lane

Receive(l, e, v) ==
  /\ lane[l].pc = "idle"
  /\ runtime.stripe
  /\ deliveries[e] < MaxDeliveries
  /\ deliveries' = [deliveries EXCEPT ![e] = @ + 1]
  /\ \/ ReceiveNew(l, e, v)
     \/ ReceiveDuplicate(l, e, v)
     \/ ReceiveConflict(l, e, v)
  /\ UNCHANGED <<batch, cases, deposit, available, reserved, ledger, order,
                 runtime, crashes>>

-----------------------------------------------------------------------------
(* Claiming a row.                                                         *)

\* The handler first returns its own row to the inbox if the lease is stale.
ApiRecover(l) ==
  /\ lane[l].pc = "received"
  /\ inbox' = [inbox EXCEPT ![lane[l].event] = Recovered(@)]
  /\ lane' = [lane EXCEPT ![l] = At("claiming", @.event, @.attempts)]
  /\ UNCHANGED <<batch, cases, deposit, available, reserved, ledger, order,
                 runtime, deliveries, crashes>>

\* The worker returns every stale row to the inbox...
WorkerSweep(w) ==
  /\ lane[w].pc = "idle"
  /\ RecoveryAllowed
  /\ inbox' = [e \in Events |-> Recovered(inbox[e])]
  /\ lane' = [lane EXCEPT ![w] = At("swept", None, 0)]
  /\ UNCHANGED <<batch, cases, deposit, available, reserved, ledger, order,
                 runtime, deliveries, crashes>>

\* ...and then reads the eligible rows with their attempts counters.
WorkerSelect(w) ==
  LET eligible == {e \in Events : Claimable(inbox[e])}
  IN /\ lane[w].pc = "swept"
     /\ batch' = [batch EXCEPT ![w] =
                    {[event |-> e, attempts |-> inbox[e].attempts] : e \in eligible}]
     /\ lane' = [lane EXCEPT ![w] =
                   IF eligible = {} THEN Idle ELSE At("claiming", None, 0)]
     /\ UNCHANGED <<dbVars, runtime, deliveries, crashes>>

\* The compare-and-set claim: the row must still be claimable with the
\* attempts counter that was read.
ClaimRow(l, e, seen) ==
  IF Claimable(inbox[e]) /\ inbox[e].attempts = seen
    THEN /\ inbox' = [inbox EXCEPT ![e] = Claimed(@)]
         /\ lane' = [lane EXCEPT ![l] = At("leased", e, seen + 1)]
    ELSE /\ lane' = [lane EXCEPT ![l] = Finished(l, batch')]
         /\ UNCHANGED inbox

ApiClaim(l) ==
  /\ lane[l].pc = "claiming"
  /\ UNCHANGED batch
  /\ ClaimRow(l, lane[l].event, lane[l].attempts)
  /\ UNCHANGED <<cases, deposit, available, reserved, ledger, order, runtime,
                 deliveries, crashes>>

WorkerClaim(w) ==
  /\ lane[w].pc = "claiming"
  /\ \E c \in batch[w] :
       /\ batch' = [batch EXCEPT ![w] = @ \ {c}]
       /\ ClaimRow(w, c.event, c.attempts)
  /\ UNCHANGED <<cases, deposit, available, reserved, ledger, order, runtime,
                 deliveries, crashes>>

-----------------------------------------------------------------------------
(* transitionPaymentDispute: one Serializable transaction.                 *)

\* Mutant: any lease counts as the lane's own.
MutOwnsLease(l) == inbox[lane[l].event].status = "PROCESSING"

\* ownsLease / readAndAssertEvent: the row still carries the lane's claim.
OwnsLease(l) == OwnedBy(inbox[lane[l].event], lane[l].attempts)

Linked(v) == deposit[v.deposit] \in CreditBacked

ExactCase(c, v) == c.deposit = v.deposit /\ c.amount = v.amount

\* What the cases of a deposit dispute together.
Disputed(d) ==
  SumFunction([p \in Disputes |-> IF cases[p].deposit = d THEN cases[p].amount
                                  ELSE 0])

\* The deterministic (non-retryable) refusals, in the order the code finds them.
Refusal(v) ==
  LET c == cases[v.dispute]
  IN \/ v.amount > Credit[v.deposit]
     \/ ~runtime.stripe
     \/ /\ c.status # "NONE"
        /\ \/ ~ExactCase(c, v)
           \/ c.status \in {"WON", "LOST"} /\ v.target \notin {"OPEN", c.status}
           \/ c.status = "OPEN" /\ v.target # "OPEN" /\ reserved < c.held
     \/ /\ c.status = "NONE"
        /\ Disputed(v.deposit) + v.amount > Credit[v.deposit]

Lesser(a, b) == IF a < b THEN a ELSE b

\* A created event for a known case only attaches missing opening evidence.
AttachOpen(e, v) ==
  /\ cases[v.dispute].status # "NONE"
  /\ v.target = "OPEN"
  /\ cases' = [cases EXCEPT ![v.dispute].openedBy = IF @ = None THEN e ELSE @]
  /\ UNCHANGED <<available, reserved, ledger>>

\* Mutant: a repeated closed event replaces the resolution evidence.
MutReplayTerminal(e, v) ==
  /\ cases[v.dispute].status = v.target
  /\ v.target # "OPEN"
  /\ cases' = [cases EXCEPT ![v.dispute].resolvedBy = e]
  /\ UNCHANGED <<available, reserved, ledger>>

\* A closed event that repeats the terminal outcome changes nothing.
ReplayTerminal(e, v) ==
  /\ cases[v.dispute].status = v.target
  /\ v.target # "OPEN"
  /\ UNCHANGED <<cases, available, reserved, ledger>>

\* Mutant: a lost dispute is booked as the return of a reservation.
MutResolutionLedger(target, held) == [ledger EXCEPT !["RESERVATION"] = @ - held]

\* The Transaction row of a resolution: a won hold is transferred back, a lost
\* one is charged back.
ResolutionLedger(target, held) ==
  IF target = "WON" THEN [ledger EXCEPT !["RESERVATION"] = @ + held]
                    ELSE [ledger EXCEPT !["CHARGEBACK"] = @ - held]

\* A closed event resolves an open case: WON returns the hold, LOST debits it.
Resolve(e, v) ==
  LET c == cases[v.dispute]
      won == v.target = "WON"
  IN /\ c.status = "OPEN"
     /\ v.target # "OPEN"
     /\ reserved' = reserved - c.held
     /\ available' = IF won THEN available + c.held ELSE available
     /\ ledger' = ResolutionLedger(v.target, c.held)
     /\ cases' = [cases EXCEPT ![v.dispute] =
                    [c EXCEPT !.status = v.target,
                              !.resolvedBy = e,
                              !.resolutionTx = IF won THEN c.held ELSE 0 - c.held,
                              !.exposure = IF won THEN 0 ELSE c.shortfall]]

\* Mutant: the hold is not limited to what the wallet has.
MutHeldForUncapped(v) == IF v.target = "WON" THEN 0 ELSE v.amount

\* Mutant: a dispute won before its open event still takes money.
MutHeldForWon(v) == Lesser(available, v.amount)

\* What a new case takes from the wallet.
HeldFor(v) == IF v.target = "WON" THEN 0 ELSE Lesser(available, v.amount)

\* The first event of a dispute books the case: OPEN reserves what is
\* available, LOST before any open event debits it, WON moves nothing.
Book(e, v) ==
  LET held == HeldFor(v)
      short == v.amount - held
      open == v.target = "OPEN"
  IN /\ cases[v.dispute].status = "NONE"
     /\ available' = available - held
     /\ reserved' = IF open THEN reserved + held ELSE reserved
     /\ ledger' = IF open THEN [ledger EXCEPT !["RESERVATION"] = @ - held]
                          ELSE [ledger EXCEPT !["CHARGEBACK"] = @ - held]
     /\ cases' = [cases EXCEPT ![v.dispute] =
                    [status |-> v.target, deposit |-> v.deposit,
                     amount |-> v.amount, held |-> held, shortfall |-> short,
                     exposure |-> IF v.target = "WON" THEN 0 ELSE short,
                     openedBy |-> IF open THEN e ELSE None,
                     resolvedBy |-> IF open THEN None ELSE e,
                     holdTx |-> IF open THEN 0 - held ELSE 0,
                     resolutionTx |-> IF open THEN 0 ELSE 0 - held]]

\* Mutant: an open dispute hides a lost one.
MutProjection(statuses) ==
  IF "OPEN" \in statuses THEN "DISPUTED"
  ELSE IF "LOST" \in statuses THEN "CHARGEBACK"
  ELSE "SUCCEEDED"

\* The deposit status the cases of a deposit require.
Projection(statuses) ==
  IF "LOST" \in statuses THEN "CHARGEBACK"
  ELSE IF "OPEN" \in statuses THEN "DISPUTED"
  ELSE "SUCCEEDED"

StatusesOf(cs, d) == {cs[p].status : p \in {q \in Disputes : cs[q].deposit = d}}

Completed(row, p) ==
  [row EXCEPT !.status = "PROCESSED", !.due = FALSE, !.linked = p]

\* completeEvent: project the deposit status and finish the inbox row.
CompleteEvent(e, v) ==
  /\ deposit' = [deposit EXCEPT ![v.deposit] = Projection(StatusesOf(cases', v.deposit))]
  /\ inbox' = [inbox EXCEPT ![e] = Completed(@, v.dispute)]

Caught(l, verdict) == [lane[l] EXCEPT !.pc = "caught", !.verdict = verdict]

\* The transaction commits.  The commit acknowledgement may be lost, so the
\* lane may still end up in its error handler.
TransitionCommits(l) ==
  LET e == lane[l].event
      v == inbox[e].env
  IN /\ lane[l].pc = "leased"
     /\ OwnsLease(l)
     /\ Linked(v)
     /\ ~Refusal(v)
     /\ \/ AttachOpen(e, v)
        \/ ReplayTerminal(e, v)
        \/ Resolve(e, v)
        \/ Book(e, v)
     /\ CompleteEvent(e, v)
     /\ \E next \in {Finished(l, batch), Caught(l, "RETRY"), Caught(l, "QUARANTINE")} :
          lane' = [lane EXCEPT ![l] = next]
     /\ UNCHANGED <<batch, order, runtime, deliveries, crashes>>

\* The transaction aborts with a non-retryable error: the claim is gone or the
\* facts are refused.
TransitionRefused(l) ==
  LET v == inbox[lane[l].event].env
  IN /\ lane[l].pc = "leased"
     /\ ~OwnsLease(l) \/ (Linked(v) /\ Refusal(v))
     /\ lane' = [lane EXCEPT ![l] = Caught(l, "QUARANTINE")]
     /\ UNCHANGED <<batch, dbVars, runtime, deliveries, crashes>>

\* The transaction aborts with a retryable error: the deposit is not credited
\* yet, or the database kept failing.  A worker lane whose event has used up
\* its attempts, or is older than 72 hours, quarantines it instead.
TransitionFails(l) ==
  /\ lane[l].pc = "leased"
  /\ \E verdict \in {"RETRY", "QUARANTINE"} :
       /\ verdict = "QUARANTINE" => l \in WorkerLanes
       /\ verdict = "RETRY" =>
            l \in ApiLanes \/ lane[l].attempts < InboxMaxAttempts
       /\ lane' = [lane EXCEPT ![l] = Caught(l, verdict)]
  /\ UNCHANGED <<batch, dbVars, runtime, deliveries, crashes>>

\* Mutant: the error handler checks the row's status but not whose claim it is.
MutHandleError(l) ==
  /\ lane[l].pc = "caught"
  /\ inbox' = IF inbox[lane[l].event].status = "PROCESSING"
                THEN [inbox EXCEPT ![lane[l].event] = Returned(@, lane[l].verdict)]
                ELSE inbox
  /\ lane' = [lane EXCEPT ![l] = Finished(l, batch)]
  /\ UNCHANGED <<batch, cases, deposit, available, reserved, ledger, order,
                 runtime, deliveries, crashes>>

\* The error handler: it quarantines the row or schedules a retry, and both
\* updates are fenced by the lease.
HandleError(l) ==
  /\ lane[l].pc = "caught"
  /\ inbox' = IF OwnsLease(l)
                THEN [inbox EXCEPT ![lane[l].event] = Returned(@, lane[l].verdict)]
                ELSE inbox
  /\ lane' = [lane EXCEPT ![l] = Finished(l, batch)]
  /\ UNCHANGED <<batch, cases, deposit, available, reserved, ledger, order,
                 runtime, deliveries, crashes>>

-----------------------------------------------------------------------------
(* The rest of the wallet, time and failures.                              *)

\* finalizeDepositCredit, as this component sees it: a deposit is credited once.
CreditDeposit(d) ==
  /\ deposit[d] = "UNPAID"
  /\ RecoveryAllowed
  /\ deposit' = [deposit EXCEPT ![d] = "SUCCEEDED"]
  /\ available' = available + Credit[d]
  /\ ledger' = [ledger EXCEPT !["DEPOSIT"] = @ + Credit[d]]
  /\ UNCHANGED <<inbox, lane, batch, cases, reserved, order, runtime,
                 deliveries, crashes>>

\* lockOwnedSpendableWallet: no dispute leaves uncovered exposure.
Spendable == \A p \in Disputes : cases[p].status \in {"OPEN", "LOST"} =>
                                   cases[p].exposure = 0

\* Mutant: the payment is reserved and its capture left for later.
MutPayOrder(o) ==
  /\ order[o] = "UNPAID"
  /\ NewLiabilityAllowed
  /\ Spendable
  /\ available >= Price[o]
  /\ order' = [order EXCEPT ![o] = "PAID"]
  /\ available' = available - Price[o]
  /\ reserved' = reserved + Price[o]
  /\ ledger' = [ledger EXCEPT !["RESERVATION"] = @ - Price[o]]
  /\ UNCHANGED <<inbox, lane, batch, cases, deposit, runtime, deliveries, crashes>>

\* submitPayment reserves and captures inside one transaction, so no order
\* reservation is ever visible outside it.
PayOrder(o) ==
  /\ order[o] = "UNPAID"
  /\ NewLiabilityAllowed
  /\ Spendable
  /\ available >= Price[o]
  /\ order' = [order EXCEPT ![o] = "PAID"]
  /\ available' = available - Price[o]
  /\ ledger' = [ledger EXCEPT !["RESERVATION"] = @ - Price[o],
                              !["PURCHASE"] = @ - Price[o]]
  /\ UNCHANGED <<inbox, lane, batch, cases, deposit, reserved, runtime,
                 deliveries, crashes>>

\* A refund of a captured order returns its amount to the available balance.
RefundOrder(o) ==
  /\ order[o] = "PAID"
  /\ order' = [order EXCEPT ![o] = "REFUNDED"]
  /\ available' = available + Price[o]
  /\ ledger' = [ledger EXCEPT !["REFUND"] = @ + Price[o]]
  /\ UNCHANGED <<inbox, lane, batch, cases, deposit, reserved, runtime,
                 deliveries, crashes>>

Holds(l, e) ==
  lane[l].pc \in {"leased", "caught"} /\ lane[l].event = e /\ OwnsLease(l)

\* Time passes: a retry backoff ends or a lease becomes stale.  After
\* MaxExpiries claims a lease that some lane still holds no longer expires.
Elapse(e) ==
  /\ inbox[e].status \in {"PENDING", "FAILED", "PROCESSING"}
  /\ ~inbox[e].due
  /\ inbox[e].status = "PROCESSING" /\ (\E l \in Lanes : Holds(l, e))
       => inbox[e].attempts < MaxExpiries
  /\ inbox' = [inbox EXCEPT ![e] = [@ EXCEPT !.due = TRUE]]
  /\ UNCHANGED <<lane, batch, cases, deposit, available, reserved, ledger,
                 order, runtime, deliveries, crashes>>

Crash(l) ==
  /\ crashes < MaxCrashes
  /\ lane[l].pc # "idle"
  /\ crashes' = crashes + 1
  /\ lane' = [lane EXCEPT ![l] = Idle]
  /\ batch' = [w \in WorkerLanes |-> IF w = l THEN {} ELSE batch[w]]
  /\ UNCHANGED <<dbVars, runtime, deliveries>>

\* A redeployment restarts every process under a new environment.
Redeploy(r) ==
  /\ crashes < MaxCrashes
  /\ r # runtime
  /\ crashes' = crashes + 1
  /\ runtime' = r
  /\ lane' = [l \in Lanes |-> Idle]
  /\ batch' = [w \in WorkerLanes |-> {}]
  /\ UNCHANGED <<dbVars, deliveries>>

Process(l) ==
  \/ TransitionCommits(l)
  \/ TransitionRefused(l)
  \/ TransitionFails(l)
  \/ HandleError(l)

Next ==
  \/ \E l \in ApiLanes : \/ \E e \in Events : \E v \in EnvelopesOf[e] : Receive(l, e, v)
                         \/ ApiRecover(l)
                         \/ ApiClaim(l)
  \/ \E w \in WorkerLanes : WorkerSweep(w) \/ WorkerSelect(w) \/ WorkerClaim(w)
  \/ \E l \in Lanes : Process(l) \/ Crash(l)
  \/ \E d \in Deposits : CreditDeposit(d)
  \/ \E o \in Orders : PayOrder(o) \/ RefundOrder(o)
  \/ \E e \in Events : Elapse(e)
  \/ \E r \in Runtimes : Redeploy(r)

Spec == Init /\ [][Next]_vars
-----------------------------------------------------------------------------
(* Properties *)

Rows == [status : InboxStatuses, env : Envelopes \cup {None}, attempts : Nat,
         due : BOOLEAN, linked : Disputes \cup {None}, conflict : BOOLEAN]

CaseRows == [status : Targets \cup {"NONE"}, deposit : Deposits \cup {None},
             amount : Nat, held : Nat, shortfall : Nat, exposure : Nat,
             openedBy : Events \cup {None}, resolvedBy : Events \cup {None},
             holdTx : Int, resolutionTx : Int]

LaneStates == [pc : {"idle", "received", "swept", "claiming", "leased", "caught"},
               event : Events \cup {None}, attempts : Nat,
               verdict : {"NONE", "RETRY", "QUARANTINE"}]

\* Every variable has its type; in particular neither wallet balance that
\* payment-dispute-core.ts and billing.service.ts decrement ever goes negative.
TypeOK ==
  /\ inbox \in [Events -> Rows]
  /\ lane \in [Lanes -> LaneStates]
  /\ batch \in [WorkerLanes -> SUBSET [event : Events, attempts : Nat]]
  /\ cases \in [Disputes -> CaseRows]
  /\ deposit \in [Deposits -> CreditBacked \cup {"UNPAID"}]
  /\ available \in Nat
  /\ reserved \in Nat
  /\ ledger \in [LedgerTypes -> Int]
  /\ order \in [Orders -> {"UNPAID", "PAID", "REFUNDED"}]
  /\ runtime \in Runtimes
  /\ deliveries \in [Events -> Nat]
  /\ crashes \in Nat

\* The wallet check of the reconciliation (checkWallets): available plus
\* reserved always equals the ledger without the bucket transfers, whatever
\* order disputes, payments, refunds and credits arrive in.
WalletReconciles ==
  available + reserved =
    ledger["DEPOSIT"] + ledger["PURCHASE"] + ledger["REFUND"] + ledger["CHARGEBACK"]

\* Every open dispute's hold is in the reserved balance, which holds nothing
\* else, so that resolving a case can never fail with HOLD_MISSING or take
\* another case's hold; the disputes booked against one deposit never exceed
\* its wallet credit, and each books exactly its amount as hold plus shortfall,
\* though the hold depends on when it met the wallet.
HoldsBacked ==
  /\ reserved = SumFunction([p \in Disputes |->
                               IF cases[p].status = "OPEN" THEN cases[p].held
                               ELSE 0])
  /\ \A d \in Deposits : Disputed(d) <= Credit[d]
  /\ \A p \in Disputes :
       /\ cases[p].held + cases[p].shortfall = cases[p].amount
       /\ cases[p].exposure =
            (IF cases[p].status = "WON" THEN 0 ELSE cases[p].shortfall)

\* An event that is evidence for case p in the given role, as the
\* reconciliation's eventMatchesCase demands.
IsEvidence(e, p, targets) ==
  /\ e \in Events
  /\ inbox[e].status = "PROCESSED"
  /\ inbox[e].linked = p
  /\ inbox[e].env.dispute = p
  /\ inbox[e].env.deposit = cases[p].deposit
  /\ inbox[e].env.amount = cases[p].amount
  /\ inbox[e].env.target \in targets

\* Every case is backed by PROCESSED provider events and by ledger rows that
\* match it, in every interleaving of handlers, lanes, conflicting envelopes
\* and late open events (PAYMENT_DISPUTE_EVENT_EVIDENCE_MISMATCH and the
\* hold and resolution mismatches of the reconciliation never arise).
CaseEvidence ==
  \A p \in Disputes :
    LET c == cases[p]
    IN /\ c.openedBy # None => IsEvidence(c.openedBy, p, {"OPEN"})
       /\ c.status = "OPEN" =>
            c.openedBy # None /\ c.resolvedBy = None /\ c.resolutionTx = 0
              /\ c.holdTx = 0 - c.held
       /\ c.status \in {"WON", "LOST"} =>
            /\ IsEvidence(c.resolvedBy, p, {c.status})
            /\ c.resolutionTx = (IF c.status = "WON" THEN c.held ELSE 0 - c.held)
            /\ c.status = "WON" => c.holdTx = 0 - c.held
            /\ c.holdTx \in {0, 0 - c.held}

\* The deposit shows exactly what its cases require: CHARGEBACK once one is
\* lost, DISPUTED while one is open, SUCCEEDED otherwise (completeEvent, and
\* the reconciliation's expectedAttemptStatus).
DepositProjected ==
  \A d \in Deposits :
    LET against(status) == \E p \in Disputes : cases[p].deposit = d /\ cases[p].status = status
    IN /\ deposit[d] = "CHARGEBACK" <=> against("LOST")
       /\ deposit[d] = "DISPUTED" <=> against("OPEN") /\ ~against("LOST")
       /\ deposit[d] = "UNPAID" => ~against("WON")

\* At most one lane holds the current claim of a row, even when stale leases
\* are recovered while their owner still runs.
OneLeaseHolder ==
  \A l, m \in Lanes : \A e \in Events :
    Holds(l, e) /\ Holds(m, e) => l = m

\* A terminal case is final: no late, repeated or contradicting event changes
\* its outcome, its money or its resolution evidence.
TerminalStep ==
  \A p \in Disputes :
    cases[p].status \in {"WON", "LOST"} =>
      \E o \in Events \cup {None} : cases'[p] = [cases[p] EXCEPT !.openedBy = o]

TerminalFinal == [][TerminalStep]_vars

\* A claim that has not expired is ended only by the lane that holds it or by
\* an identity conflict: the error handler or the late transaction of an
\* earlier owner never touches a row another lane is processing.
LeaseStep ==
  \A e \in Events :
    /\ inbox[e].status = "PROCESSING" /\ ~inbox[e].due
    /\ inbox'[e].status # "PROCESSING"
    => \/ inbox'[e].conflict
       \/ \E l \in Lanes : Holds(l, e) /\ lane'[l] # lane[l]

LeaseFenced == [][LeaseStep]_vars

-----------------------------------------------------------------------------
(* The contract this component implements.                                 *)

Contract == INSTANCE DisputeContract WITH
  outcome <- [p \in Disputes |-> cases[p].status],
  frozen <- [p \in Disputes |-> IF cases[p].status = "OPEN" THEN cases[p].held ELSE 0],
  taken <- [p \in Disputes |-> IF cases[p].status = "LOST" THEN cases[p].held ELSE 0],
  free <- available

\* The inbox, its retries, crashes, duplicated and reordered events implement
\* the contract: each dispute freezes, releases or takes money once.
ImplementsContract == Contract!Spec

-----------------------------------------------------------------------------
(* Liveness *)

\* The worker lanes run on a schedule, running code makes progress, and time
\* passes.  Deliveries, crashes, credits and payments are never owed.
Fairness ==
  /\ \A w \in WorkerLanes : /\ WF_vars(WorkerSweep(w))
                            /\ WF_vars(WorkerSelect(w))
                            /\ WF_vars(WorkerClaim(w))
  /\ \A l \in ApiLanes : WF_vars(ApiRecover(l)) /\ WF_vars(ApiClaim(l))
  /\ \A l \in Lanes : WF_vars(Process(l))
  /\ \A e \in Events : WF_vars(Elapse(e))

FairSpec == Spec /\ Fairness

\* Every persisted dispute event is eventually applied or quarantined for
\* review: crashes, lost leases, a deposit that is never credited and a
\* database that keeps failing cannot leave it in the inbox for ever.
EventsSettle ==
  \A e \in Events :
    inbox[e].status = "PENDING" ~> inbox[e].status \in {"PROCESSED", "QUARANTINED"}

=============================================================================
